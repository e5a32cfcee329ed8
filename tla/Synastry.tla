------------------------------ MODULE Synastry ------------------------------
(***************************************************************************)
(* Compatibility invites (api/routes/synastry.py) and the monthly limit on *)
(* their calculation (services/ratelimit.py).                              *)
(*                                                                         *)
(* A buyer creates an invite; whoever opens its link accepts it, which     *)
(* computes the result of the two; a buyer may also enter a partner by     *)
(* hand.  Each handler reads the invite once and commits once, with a      *)
(* calculation and LLM texts in between: what it read may be old by then.  *)
(* The session writes the columns it has changed, not the whole row.       *)
(***************************************************************************)
EXTENDS Integers, FiniteSets

CONSTANTS
  Users,      \* users with a natal chart
  Buyers,     \* those with access to synastry
  Nobody,     \* partner_user_id IS NULL
  Handlers,   \* concurrent requests
  Ids,        \* primary keys of synastry_requests
  Limit,      \* LIMITS["synastry_calc"]
  MaxFaults   \* bound on requests that die

ASSUME SynastryAssumption ==
  /\ Buyers \subseteq Users /\ Nobody \notin Users /\ IsFiniteSet(Handlers)
  /\ Ids \subseteq Nat /\ Limit \in Nat \ {0} /\ MaxFaults \in Nat

VARIABLES
  rows,      \* committed rows of synastry_requests
  expired,   \* ids whose expires_at has passed
  used,      \* user -> the counter of the month in Redis
  req,       \* handler -> its request
  admitted,  \* user -> calculations admitted this month
  told,      \* <<user, id>>: the user was a side of a saved result
  hid,       \* <<user, id>>: the user removed it from the history
  faults

vars == <<rows, expired, used, req, admitted, told, hid, faults>>

NoRow  == [id |-> 0, init |-> Nobody, partner |-> Nobody, status |-> "none",
           result |-> <<>>, hidI |-> FALSE, hidP |-> FALSE]
Idle   == [kind |-> "none", at |-> "idle", user |-> Nobody, row |-> NoRow]

Init ==
  /\ rows = {}
  /\ expired = {}
  /\ used = [u \in Users |-> 0]
  /\ req = [h \in Handlers |-> Idle]
  /\ admitted = [u \in Users |-> 0]
  /\ told = {} /\ hid = {}
  /\ faults = 0

At(h, kind, at) == req[h].kind = kind /\ req[h].at = at
Goto(h, at) == req' = [req EXCEPT ![h].at = at]
Done(h) == req' = [req EXCEPT ![h] = Idle]
Begin(h, kind, at, u, r) ==
  /\ req[h] = Idle
  /\ req' = [req EXCEPT ![h] = [kind |-> kind, at |-> at, user |-> u, row |-> r]]

Current(i) == {r \in rows : r.id = i}
Others(i)  == {r \in rows : r.id # i}
Unused     == {i \in Ids : Current(i) = {} /\ i \notin expired
                           /\ \A p \in told \cup hid : p[2] # i}

(* INSERT of a new row. *)
Insert(u, status, result) ==
  \E i \in Unused :
    /\ \A j \in Unused : i <= j
    /\ rows' = rows \cup {[id |-> i, init |-> u, partner |-> Nobody, status |-> status,
                           result |-> result, hidI |-> FALSE, hidP |-> FALSE]}

(* expires_at of an invite passes. *)
Expire(i) ==
  /\ \E r \in Current(i) : r.status # "COMPLETED" \/ r.partner # Nobody
  /\ i \notin expired
  /\ expired' = expired \cup {i}
  /\ UNCHANGED <<rows, used, req, admitted, told, hid, faults>>

-----------------------------------------------------------------------------
(* POST /request: reuse the caller's open invite or add one *)

Create(h, u) ==
  /\ u \in Buyers
  /\ \A r \in rows : ~(r.init = u /\ r.status = "PENDING" /\ r.id \notin expired)
  /\ Begin(h, "create", "save", u, NoRow)
  /\ UNCHANGED <<rows, expired, used, admitted, told, hid, faults>>

CreateSave(h) ==
  /\ At(h, "create", "save")
  /\ Insert(req[h].user, "PENDING", <<>>)
  /\ Done(h)
  /\ UNCHANGED <<expired, used, admitted, told, hid, faults>>

-----------------------------------------------------------------------------
(* enforce_monthly_limit: count first, give the slot back when over *)

Admit_CheckFirst(h) ==
  /\ req[h].at = "limit"
  /\ LET u == req[h].user
     IN IF used[u] >= Limit THEN Done(h) /\ UNCHANGED <<used, admitted>>
        ELSE /\ Goto(h, "compute") /\ UNCHANGED used
             /\ admitted' = [admitted EXCEPT ![u] = @ + 1]
  /\ UNCHANGED <<rows, expired, told, hid, faults>>
Admit(h) ==
  /\ req[h].at = "limit"
  /\ LET u == req[h].user
     IN /\ used' = [used EXCEPT ![u] = @ + 1]
        /\ IF used[u] + 1 > Limit
           THEN Goto(h, "giveback") /\ UNCHANGED admitted
           ELSE /\ Goto(h, "compute")
                /\ admitted' = [admitted EXCEPT ![u] = @ + 1]
  /\ UNCHANGED <<rows, expired, told, hid, faults>>

GiveBack_Not(h) ==
  /\ req[h].at = "giveback"
  /\ Done(h)
  /\ UNCHANGED <<rows, expired, used, admitted, told, hid, faults>>
GiveBack(h) ==
  /\ req[h].at = "giveback"
  /\ used' = [used EXCEPT ![req[h].user] = @ - 1]
  /\ Done(h)
  /\ UNCHANGED <<rows, expired, admitted, told, hid, faults>>

(* Calculation and texts, or 422. *)
Compute(h) ==
  /\ req[h].at = "compute"
  /\ Goto(h, "save") \/ Done(h)
  /\ UNCHANGED <<rows, expired, used, admitted, told, hid, faults>>

-----------------------------------------------------------------------------
(* POST /accept/{token} *)

(* An invite past its time is marked, whatever its status; a completed one
   is shown; one's own is refused. *)
Accept(h, u, i) ==
  /\ \E r \in Current(i) :
       /\ r.init # u
       /\ \/ /\ i \in expired
             /\ Begin(h, "accept", "expire", u, r)
             /\ UNCHANGED told
          \/ /\ i \notin expired /\ r.status = "COMPLETED"
             /\ req[h] = Idle
             /\ UNCHANGED <<req, told>>
          \/ /\ i \notin expired /\ r.status # "COMPLETED"
             /\ Begin(h, "accept", "limit", u, r)
             /\ UNCHANGED told
  /\ UNCHANGED <<rows, expired, used, admitted, hid, faults>>

(* An UPDATE of a row that is gone raises, and nothing is saved; one that
   was already read as expired is not written. *)
AcceptExpire(h) ==
  /\ At(h, "accept", "expire")
  /\ LET i == req[h].row.id
     IN rows' = IF req[h].row.status = "EXPIRED" THEN rows
                ELSE Others(i) \cup {[r EXCEPT !.status = "EXPIRED"] : r \in Current(i)}
  /\ Done(h)
  /\ UNCHANGED <<expired, used, admitted, told, hid, faults>>

Completed_FirstResult(r, u) ==
  [r EXCEPT !.partner = u, !.status = "COMPLETED",
            !.result = IF r.result = <<>> THEN <<r.init, u>> ELSE r.result]
Completed_WholeRow(r, u) ==
  [r EXCEPT !.partner = u, !.status = "COMPLETED", !.result = <<r.init, u>>,
            !.hidI = FALSE, !.hidP = FALSE]
Completed(r, u) ==
  [r EXCEPT !.partner = u, !.status = "COMPLETED", !.result = <<r.init, u>>]

AcceptSave(h) ==
  /\ At(h, "accept", "save")
  /\ LET i == req[h].row.id
         u == req[h].user
     IN /\ rows' = Others(i) \cup {Completed(r, u) : r \in Current(i)}
        /\ told' = IF Current(i) = {} THEN told
                   ELSE told \cup {<<u, i>>, <<req[h].row.init, i>>}
  /\ Done(h)
  /\ UNCHANGED <<expired, used, admitted, hid, faults>>

-----------------------------------------------------------------------------
(* POST /manual *)

Manual(h, u) ==
  /\ u \in Buyers
  /\ Begin(h, "manual", "limit", u, NoRow)
  /\ UNCHANGED <<rows, expired, used, admitted, told, hid, faults>>

ManualSave(h) ==
  /\ At(h, "manual", "save")
  /\ Insert(req[h].user, "COMPLETED", <<req[h].user, Nobody>>)
  /\ Done(h)
  /\ UNCHANGED <<expired, used, admitted, told, hid, faults>>

-----------------------------------------------------------------------------
(* DELETE /history/{id}: hide for the caller, drop when both sides have *)

Hide(h, u, i) ==
  /\ \E r \in Current(i) : u \in {r.init, r.partner} /\ Begin(h, "hide", "save", u, r)
  /\ UNCHANGED <<rows, expired, used, admitted, told, hid, faults>>

HideSave(h) ==
  LET r == req[h].row
      u == req[h].user
      byI == r.hidI \/ u = r.init
      byP == r.hidP \/ u # r.init
  IN /\ At(h, "hide", "save")
     /\ rows' = IF byI /\ byP THEN Others(r.id)
                ELSE Others(r.id) \cup
                     {[c EXCEPT !.hidI = @ \/ u = r.init, !.hidP = @ \/ u # r.init] :
                        c \in Current(r.id)}
     /\ hid' = hid \cup {<<u, r.id>>}
     /\ Done(h)
     /\ UNCHANGED <<expired, used, admitted, told, faults>>

-----------------------------------------------------------------------------

Dies(h) ==
  /\ req[h] # Idle
  /\ faults < MaxFaults
  /\ faults' = faults + 1
  /\ Done(h)
  /\ UNCHANGED <<rows, expired, used, admitted, told, hid>>

(* The counter's key is of the month: the next month starts at zero for
   requests that come then. *)
NewMonth ==
  /\ \A h \in Handlers : req[h].at \notin {"limit", "giveback"}
  /\ used' = [u \in Users |-> 0]
  /\ admitted' = [u \in Users |-> 0]
  /\ UNCHANGED <<rows, expired, req, told, hid, faults>>

Next ==
  \/ \E h \in Handlers :
       \/ \E u \in Users :
            \/ Create(h, u) \/ Manual(h, u)
            \/ \E i \in Ids : Accept(h, u, i) \/ Hide(h, u, i)
       \/ CreateSave(h) \/ Admit(h) \/ GiveBack(h) \/ Compute(h)
       \/ AcceptExpire(h) \/ AcceptSave(h) \/ ManualSave(h) \/ HideSave(h) \/ Dies(h)
  \/ \E i \in Ids : Expire(i)
  \/ NewMonth

Spec == Init /\ [][Next]_vars

-----------------------------------------------------------------------------
(* Properties *)

Row ==
  [id: Ids, init: Buyers, partner: Users \cup {Nobody},
   status: {"PENDING", "COMPLETED", "EXPIRED"},
   result: {<<>>} \cup (Buyers \X (Users \cup {Nobody})), hidI: BOOLEAN, hidP: BOOLEAN]

Request ==
  [kind: {"none", "create", "accept", "manual", "hide"},
   at: {"idle", "limit", "giveback", "compute", "expire", "save"},
   user: Users \cup {Nobody}, row: Row \cup {NoRow}]

(* Every variable has its type. *)
TypeOK ==
  /\ rows \subseteq Row
  /\ expired \subseteq Ids
  /\ used \in [Users -> Nat] /\ admitted \in [Users -> Nat]
  /\ req \in [Handlers -> Request]
  /\ told \subseteq Users \X Ids /\ hid \subseteq Users \X Ids
  /\ faults \in 0..MaxFaults

(* The result of a completed request is that of the two people the row names,
   however many people accept one invite at a time and in whatever order
   their sessions commit. *)
ResultMatchesPair ==
  \A r \in rows : r.status = "COMPLETED" => r.result = <<r.init, r.partner>>

(* A monthly limit is never exceeded by requests that run at the same time. *)
LimitHolds == \A u \in Users : admitted[u] <= Limit

(* "So a denied request doesn't burn through a slot": what the counter counts
   is admitted work, denials on their way back, and requests that died. *)
SlotsAreReturned ==
  \A u \in Users :
    used[u] <= admitted[u] + faults
               + Cardinality({h \in Handlers : req[h].at = "giveback" /\ req[h].user = u})

(* A request one has removed from the history does not come back, also when
   another session saves the same row later. *)
HideSticks ==
  \A p \in hid, r \in rows :
    r.id = p[2] => (p[1] = r.init => r.hidI) /\ (p[1] = r.partner => r.hidP)

(* "Past completed synastries the user participated in (as either side)": who
   was given the result of a request finds it in the history until they
   remove it. *)
ParticipantsSeeIt ==
  \A p \in told \ hid :
    \E r \in rows : r.id = p[2] /\ r.status = "COMPLETED" /\ p[1] \in {r.init, r.partner}
=============================================================================
