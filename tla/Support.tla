------------------------------- MODULE Support -------------------------------
(***************************************************************************)
(* The support bot's relay (api/routes/support.py): a user's private       *)
(* message is forwarded to the operators' group, an operator's reply to    *)
(* the forwarded message is copied back.  The mapping from a forwarded     *)
(* message to its user lives in Redis, the ticket in the database; each    *)
(* write is best effort.  Telegram repeats an update until it is answered. *)
(***************************************************************************)
EXTENDS Integers, FiniteSets

CONSTANTS
  Updates,        \* messages, each a user's question or an operator's reply
  MaxForwards,    \* bound: messages forwarded to the group
  MaxRepeats      \* bound: updates that come again

ASSUME SupportAssumption == MaxForwards \in Nat /\ MaxRepeats \in Nat

VARIABLES
  update,     \* update -> [kind, fwd: the forwarded message it is about, at]
  forwards,   \* messages forwarded to the group so far
  mapping,    \* forwards that Redis still maps
  tickets,    \* forward -> "none", "open", "answered"
  received,   \* forwards whose asker has got an answer
  ticked,     \* forwards whose header shows a check mark
  repeats

supportVars == <<update, forwards, mapping, tickets, received, ticked, repeats>>

Forwards == 1..MaxForwards
Undelivered == [kind |-> "none", fwd |-> 0, at |-> "new"]

SupportInit ==
  /\ update = [x \in Updates |-> Undelivered]
  /\ forwards = 0 /\ mapping = {} /\ received = {} /\ ticked = {} /\ repeats = 0
  /\ tickets = [f \in Forwards |-> "none"]

Moves(x, kind, at) == update[x].kind = kind /\ update[x].at = at
To(x, at) == update' = [update EXCEPT ![x].at = at]

Write(x) ==
  /\ update[x] = Undelivered
  /\ update' = [update EXCEPT ![x].kind = "ask", ![x].at = "work"]
  /\ UNCHANGED <<forwards, mapping, tickets, received, ticked, repeats>>

(* The header and the forward; where the forward fails nothing is kept. *)
Forward(x) ==
  /\ Moves(x, "ask", "work")
  /\ \/ /\ forwards < MaxForwards
        /\ forwards' = forwards + 1
        /\ update' = [update EXCEPT ![x].fwd = forwards + 1, ![x].at = "map"]
     \/ /\ To(x, "done")
        /\ UNCHANGED forwards
  /\ UNCHANGED <<mapping, tickets, received, ticked, repeats>>

MapForward(x) ==
  /\ Moves(x, "ask", "map")
  /\ mapping' = mapping \cup {update[x].fwd}
  /\ To(x, "ticket")
  /\ UNCHANGED <<forwards, tickets, received, ticked, repeats>>

(* The ticket's row, or a database error that is only logged. *)
OpenTicket(x) ==
  /\ Moves(x, "ask", "ticket")
  /\ tickets' \in {tickets, [tickets EXCEPT ![update[x].fwd] = "open"]}
  /\ To(x, "done")
  /\ UNCHANGED <<forwards, mapping, received, ticked, repeats>>

-----------------------------------------------------------------------------

Reply(x, f) ==
  /\ update[x] = Undelivered /\ f \in 1..forwards
  /\ update' = [update EXCEPT ![x] = [kind |-> "reply", fwd |-> f, at |-> "work"]]
  /\ UNCHANGED <<forwards, mapping, tickets, received, ticked, repeats>>

(* copyMessage to the mapped user: without a mapping, or when Telegram refuses
   (the user blocked the bot), the reply goes no further. *)
CopyBack_Unchecked(x) ==
  /\ Moves(x, "reply", "work")
  /\ received' \in {received, received \cup {update[x].fwd}}
  /\ To(x, IF update[x].fwd \in mapping THEN "answer" ELSE "done")
  /\ UNCHANGED <<forwards, mapping, tickets, ticked, repeats>>
CopyBack(x) ==
  /\ Moves(x, "reply", "work")
  /\ \/ /\ update[x].fwd \in mapping
        /\ received' = received \cup {update[x].fwd}
        /\ To(x, "answer")
     \/ /\ To(x, "done")
        /\ UNCHANGED received
  /\ UNCHANGED <<forwards, mapping, tickets, ticked, repeats>>

AnswerTicket(x) ==
  /\ Moves(x, "reply", "answer")
  /\ \/ /\ tickets[update[x].fwd] = "open"
        /\ tickets' = [tickets EXCEPT ![update[x].fwd] = "answered"]
     \/ UNCHANGED tickets
  /\ To(x, "header")
  /\ UNCHANGED <<forwards, mapping, received, ticked, repeats>>

TickHeader(x) ==
  /\ Moves(x, "reply", "header")
  /\ ticked' \in {ticked, ticked \cup {update[x].fwd}}
  /\ To(x, "done")
  /\ UNCHANGED <<forwards, mapping, tickets, received, repeats>>

(* The update comes again: the process died or its answer to Telegram was
   lost, or the message was edited (edited_message takes the same way). *)
Redelivered(x) ==
  /\ update[x].kind # "none" /\ repeats < MaxRepeats
  /\ repeats' = repeats + 1
  /\ To(x, "work")
  /\ UNCHANGED <<forwards, mapping, tickets, received, ticked>>

(* Redis drops the mapping, after thirty days or under pressure. *)
MappingExpires(f) ==
  /\ f \in mapping
  /\ mapping' = mapping \ {f}
  /\ UNCHANGED <<update, forwards, tickets, received, ticked, repeats>>

SupportNext ==
  \/ \E x \in Updates :
       \/ Write(x)
       \/ \E f \in Forwards : Reply(x, f)
       \/ Forward(x) \/ MapForward(x) \/ OpenTicket(x)
       \/ CopyBack(x) \/ AnswerTicket(x) \/ TickHeader(x) \/ Redelivered(x)
  \/ \E f \in Forwards : MappingExpires(f)

SupportSpec == SupportInit /\ [][SupportNext]_supportVars

-----------------------------------------------------------------------------
(* Properties *)

UpdateRecord == [kind: {"none", "ask", "reply"}, fwd: 0..MaxForwards,
                 at: {"new", "work", "map", "ticket", "answer", "header", "done"}]

(* Every variable has its type. *)
SupportTypeOK ==
  /\ update \in [Updates -> UpdateRecord]
  /\ forwards \in 0..MaxForwards
  /\ mapping \subseteq Forwards /\ received \subseteq Forwards /\ ticked \subseteq Forwards
  /\ tickets \in [Forwards -> {"none", "open", "answered"}]
  /\ repeats \in 0..MaxRepeats

(* A ticket marked answered and a header with a check mark mean that the user
   was sent an answer, whatever was repeated, lost or failed on the way.  (The
   converse fails: the ticket of an answered question may stay open.) *)
AnsweredWasSent ==
  \A f \in Forwards : tickets[f] = "answered" \/ f \in ticked => f \in received
=============================================================================
