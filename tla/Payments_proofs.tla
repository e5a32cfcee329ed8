-------------------------- MODULE Payments_proofs --------------------------
(***************************************************************************)
(* Proofs about Payments for every set of users, payments and handlers.    *)
(*                                                                         *)
(* AcknowledgedIsRecorded is not inductive: it survives Acknowledge only   *)
(* because a handler that is about to answer has recorded its payment,     *)
(* which holds because a handler that is about to commit holds the row,    *)
(* because a handler that grants was told of a payment that is paid.       *)
(* IInv puts these facts together.                                         *)
(***************************************************************************)
EXTENDS Payments, TLAPS

PaidFor(r) ==
  r.key \in Payments =>
    settled[r.key] = "paid" /\ r.user = Buyer[r.key] /\ r.item = Product[r.key]

Standing(p) ==
  Buyer[p] \notin Strangers \cup Deletable /\ Product[p] \in Catalogue

(* A notification follows the end of its payment; Stars are never canceled. *)
NoticesInv ==
  /\ \A p \in Payments : <<"payment", p>> \in notices => settled[p] # "open"
  /\ \A p \in StarsPayments : settled[p] # "canceled"

(* A payment handler serves a payment that has ended, at "grant" a paid one. *)
GrantInv ==
  \A w \in Workers :
    /\ pc[w] = "grant" => req[w].kind = "payment"
    /\ pc[w] = "revoke" => req[w].kind = "refund"
    /\ pc[w] = "admin" => req[w].kind \notin Webhook
    /\ pc[w] = "insert" => req[w].kind = "reconcile"
    /\ req[w].kind = "reconcile" =>
         /\ req[w].pick \subseteq req[w].todo
         /\ pc[w] # "insert" => req[w].pick = {}
         /\ \A p \in req[w].todo : p \in Payments /\ settled[p] = "paid"
    /\ req[w].kind = "payment" => \A p, q \in req[w].todo : p = q
    /\ \A p \in Payments : req[w].kind = "payment" /\ p \in req[w].todo =>
         /\ settled[p] # "open"
         /\ pc[w] = "grant" => settled[p] = "paid"

(* Rows a session has added and not committed are paid for and have keys of
   their own: a gift's key is made of the user, who is served once; a charge
   is reconciled once. *)
PendingInv ==
  \A w \in Workers :
    /\ \A r \in ins[w] : PaidFor(r)
    /\ \A r, s \in ins[w] : r.key = s.key => r = s
    /\ pc[w] \notin {"admin", "insert", "commit"} => ins[w] = {}
    /\ pc[w] = "admin" /\ req[w].kind # "reconcile" => \A r \in ins[w] :
         r.key = <<r.user, req[w].at>> /\ r.user \notin req[w].todo
    /\ req[w].kind = "reconcile" => \A r \in ins[w] : r.key \notin req[w].todo

UsersInv == Users \ (Strangers \cup Deletable) \subseteq users

(* A handler about to commit holds the row, one about to answer has it
   recorded. *)
AnswerInv ==
  \A w \in Workers, p \in Payments :
    req[w].kind = "payment" /\ p \in req[w].todo /\ settled[p] = "paid" /\ Standing(p) =>
      /\ pc[w] = "commit" => \E r \in ins[w] : r.key = p
      /\ pc[w] = "ack" => Keyed(p) # {}

IInv ==
  /\ TypeOK
  /\ NoticesInv
  /\ GrantInv
  /\ PendingInv
  /\ UsersInv
  /\ AnswerInv
  /\ RowsArePaidFor
  /\ OneRowPerPayment
  /\ AcknowledgedIsRecorded

-----------------------------------------------------------------------------
(* Types *)

(* An UPDATE leaves a row a row, with the same key, owner and product. *)
LEMMA ChangedType ==
  ASSUME NEW r \in Row, NEW C \in SUBSET Change
  PROVE  /\ Changed(r, C) \in Row
         /\ Changed(r, C).id = r.id
         /\ Changed(r, C).key = r.key
         /\ Changed(r, C).user = r.user
         /\ Changed(r, C).item = r.item
<1> DEFINE c == {d \in C : d.id = r.id}
           st == IF \E d \in c : d.status # "keep"
                 THEN (CHOOSE d \in c : d.status # "keep").status ELSE r.status
           ex == IF \E d \in c : d.expires # Keep
                 THEN (CHOOSE d \in c : d.expires # Keep).expires ELSE r.expires
<1>1. Changed(r, C) = [r EXCEPT !.status = st, !.expires = ex]
  BY DEF Changed
<1>2. c \subseteq Change
  OBVIOUS
<1>3. st \in {"COMPLETED", "REFUNDED", "ACTIVE", "CANCELLED"}
  <2>1. CASE \E d \in c : d.status # "keep"
    <3>1. PICK d \in c : d = CHOOSE e \in c : e.status # "keep"
      BY <2>1
    <3>2. d.status # "keep" /\ d \in Change
      BY <2>1, <3>1, <1>2
    <3>3. st = d.status
      BY <2>1, <3>1
    <3> QED BY <3>2, <3>3 DEF Change
  <2>2. CASE ~ \E d \in c : d.status # "keep"
    BY <2>2 DEF Row
  <2> QED BY <2>1, <2>2
<1>4. ex \in Nat
  <2>1. CASE \E d \in c : d.expires # Keep
    <3>1. PICK d \in c : d = CHOOSE e \in c : e.expires # Keep
      BY <2>1
    <3>2. d.expires # Keep /\ d \in Change
      BY <2>1, <3>1, <1>2
    <3>3. ex = d.expires
      BY <2>1, <3>1
    <3> QED BY <3>2, <3>3 DEF Change
  <2>2. CASE ~ \E d \in c : d.expires # Keep
    BY <2>2 DEF Row
  <2> QED BY <2>1, <2>2
<1> HIDE DEF st, ex, c
<1> QED BY <1>1, <1>3, <1>4 DEF Row

LEMMA CutType ==
  ASSUME NEW r \in Row, NEW now \in 0..MaxClock
  PROVE  Cut(r, now) \in Change
BY PaymentsAssumption DEF Cut, Row, Change, Keep

LEMMA GrantType ==
  ASSUME TypeOK, NEW p \in Payments, NEW i \in RowIds, Product[p] \in Catalogue
  PROVE  Grant(i, p) \in Row
<1>1. Buyer[p] \in Users
  BY PaymentsAssumption
<1>2. Product[p] \in Plans => clock + Days[Product[p]] \in Nat
  BY PaymentsAssumption DEF TypeOK
<1> QED BY <1>1, <1>2 DEF Grant, Row

LEMMA ProcessedType ==
  ASSUME TypeOK, NEW w \in Workers, NEW key, Processed(w, key)
  PROVE  /\ req' \in [Workers -> Request]
         /\ pc' \in [Workers -> {"idle", "grant", "revoke", "admin", "insert", "commit", "ack"}]
<1>1. [req[w] EXCEPT !.todo = @ \ {key}] \in Request
  BY DEF TypeOK, Request
<1>2. req' = [req EXCEPT ![w] = [req[w] EXCEPT !.todo = @ \ {key}]]
  BY DEF Processed
<1>3. req' \in [Workers -> Request]
  BY <1>1, <1>2 DEF TypeOK
<1>4. pc' \in [Workers -> {"idle", "grant", "revoke", "admin", "insert", "commit", "ack"}]
  BY DEF Processed, TypeOK
<1> QED BY <1>3, <1>4

THEOREM TypeInit == Init => TypeOK
BY PaymentsAssumption DEF Init, TypeOK, NoRequest, Request

LEMMA TypeStep == TypeOK /\ [Next]_vars => TypeOK'
<1> SUFFICES ASSUME TypeOK, [Next]_vars PROVE TypeOK'
  OBVIOUS
<1> USE PaymentsAssumption
<1>1. ASSUME NEW p \in Payments, NEW how \in {"paid", "canceled"}, Settle(p, how)
      PROVE  TypeOK'
  BY <1>1 DEF TypeOK, Settle, database, session
<1>2. ASSUME NEW p \in Payments, CabinetRefund(p)
      PROVE  TypeOK'
  BY <1>2 DEF TypeOK, CabinetRefund, database, session, Payments
<1>3. ASSUME NEW u \in Users, UpsertMe(u) \/ DeleteUser(u)
      PROVE  TypeOK'
  BY <1>3 DEF TypeOK, UpsertMe, DeleteUser, provider, session
<1>4. CASE Tick
  BY <1>4 DEF TypeOK, Tick, database, provider, session
<1>5. ASSUME NEW w \in Workers, NEW p \in Payments,
             TelegramWebhook(w, p) \/ YukassaWebhook(w, p) \/ RefundWebhook(w, p)
      PROVE  TypeOK'
  <2>1. \E kind \in {"payment", "refund"} :
          req' = [req EXCEPT ![w] = [kind |-> kind, todo |-> {p}, at |-> clock,
                                        pick |-> {}, told |-> {}]]
    BY <1>5 DEF TelegramWebhook, YukassaWebhook, RefundWebhook, Begin
  <2>2. req' \in [Workers -> Request]
    BY <2>1 DEF TypeOK, Request
  <2>3. pc' \in [Workers -> {"idle", "grant", "revoke", "admin", "insert", "commit", "ack"}]
    BY <1>5 DEF TypeOK, TelegramWebhook, YukassaWebhook, RefundWebhook, Begin
  <2> QED
    BY <1>5, <2>2, <2>3 DEF TypeOK, TelegramWebhook, YukassaWebhook, RefundWebhook,
                            database, provider, session
<1>6. ASSUME NEW w \in Workers, Operator(w)
      PROVE  TypeOK'
  <2>1. PICK kind \in {"admin_refund", "grant_year", "revoke", "reconcile"},
             S \in SUBSET (Payments \cup RowIds \cup Users) : AdminStart(w, kind, S)
    BY <1>6 DEF Operator, TypeOK, Row, Charged, Payments
  <2> QED BY <2>1 DEF TypeOK, AdminStart, Begin, Request, database, provider, session
<1>7. ASSUME NEW w \in Workers, NEW p \in Payments, GrantFlush(w, p)
      PROVE  TypeOK'
  <2>1. ins' \in [Workers -> SUBSET Row]
    <3>1. CASE UNCHANGED ins
      BY <3>1 DEF TypeOK
    <3>2. CASE /\ Product[p] \in Catalogue
               /\ \E i \in RowIds : ins' = [ins EXCEPT ![w] = {Grant(i, p)}]
      BY <3>2, GrantType DEF TypeOK
    <3> QED BY <1>7, <3>1, <3>2 DEF GrantFlush
  <2>2. pc' \in [Workers -> {"idle", "grant", "revoke", "admin", "insert", "commit", "ack"}]
    BY <1>7 DEF GrantFlush, TypeOK
  <2> QED BY <1>7, <2>1, <2>2 DEF TypeOK, GrantFlush, database, provider
<1>8. ASSUME NEW w \in Workers, NEW p \in Payments, RefundSelect(w, p)
      PROVE  TypeOK'
  <2>1. {Cut(r, clock) : r \in {s \in Keyed(p) : Live(s)}} \subseteq Change
    BY CutType DEF TypeOK, Keyed
  <2> QED BY <1>8, <2>1 DEF TypeOK, RefundSelect, database, provider
<1>9. ASSUME NEW w \in Workers, NEW i \in RowIds, AdminRefundRow(w, i)
      PROVE  TypeOK'
  <2>1. /\ req' \in [Workers -> Request]
        /\ pc' \in [Workers -> {"idle", "grant", "revoke", "admin", "insert", "commit", "ack"}]
    BY <1>9, ProcessedType DEF AdminRefundRow
  <2>2. req[w].at \in 0..MaxClock
    BY DEF TypeOK, Request
  <2>3. /\ refunded' \subseteq YukassaPayments
        /\ notices' \subseteq {"payment", "refund"} \X Payments
        /\ upd' \in [Workers -> SUBSET Change]
    BY <1>9, <2>2, CutType DEF AdminRefundRow, TypeOK, Payments
  <2> QED BY <1>9, <2>1, <2>3 DEF TypeOK, AdminRefundRow, database
<1>10. ASSUME NEW w \in Workers, NEW u \in Users, AdminGrantUser(w, u)
       PROVE  TypeOK'
  <2>1. /\ req' \in [Workers -> Request]
        /\ pc' \in [Workers -> {"idle", "grant", "revoke", "admin", "insert", "commit", "ack"}]
    BY <1>10, ProcessedType DEF AdminGrantUser
  <2>2. req[w].at \in 0..MaxClock /\ Days[YearPlan] \in Nat
    BY DEF TypeOK, Request
  <2>3. \A r \in rows : Extend(r) \in Change
    BY <2>2 DEF TypeOK, Row, Change, Extend
  <2>4. \A i \in RowIds :
          [id |-> i, key |-> <<u, req[w].at>>, user |-> u, item |-> YearPlan,
           status |-> "ACTIVE", expires |-> req[w].at + Days[YearPlan]] \in Row
    BY <2>2 DEF Row, GiftKeys, Catalogue
  <2>5. upd' \in [Workers -> SUBSET Change] /\ ins' \in [Workers -> SUBSET Row]
    BY <1>10, <2>3, <2>4 DEF AdminGrantUser, TypeOK
  <2> QED BY <1>10, <2>1, <2>5 DEF TypeOK, AdminGrantUser, database, provider
<1>11. ASSUME NEW w \in Workers, NEW u \in Users, AdminRevokeUser(w, u)
       PROVE  TypeOK'
  <2>1. /\ req' \in [Workers -> Request]
        /\ pc' \in [Workers -> {"idle", "grant", "revoke", "admin", "insert", "commit", "ack"}]
    BY <1>11, ProcessedType DEF AdminRevokeUser
  <2>2. \A r \in rows : [id |-> r.id, status |-> "CANCELLED", expires |-> Keep] \in Change
    BY DEF TypeOK, Row, Change
  <2>3. upd' \in [Workers -> SUBSET Change]
    BY <1>11, <2>2 DEF AdminRevokeUser, TypeOK
  <2> QED BY <1>11, <2>1, <2>3 DEF TypeOK, AdminRevokeUser, database, provider
<1>12. ASSUME NEW w \in Workers, Commit(w)
       PROVE  TypeOK'
  <2>1. rows' \subseteq Row
    BY <1>12, ChangedType DEF Commit, TypeOK
  <2>2. NoRequest \in Request
    BY DEF NoRequest, Request
  <2>3. /\ req' \in [Workers -> Request]
        /\ pc' \in [Workers -> {"idle", "grant", "revoke", "admin", "insert", "commit", "ack"}]
    BY <1>12, <2>2 DEF Commit, Return, TypeOK
  <2>4. /\ ins' \in [Workers -> SUBSET Row]
        /\ upd' \in [Workers -> SUBSET Change]
    BY <1>12 DEF Commit, EndSession, TypeOK
  <2> QED BY <1>12, <2>1, <2>3, <2>4 DEF TypeOK, Commit, provider
<1>13. ASSUME NEW w \in Workers,
              CommitFails(w) \/ Acknowledge(w) \/ AnswerLost(w) \/ Crash(w)
       PROVE  TypeOK'
  <2>1. NoRequest \in Request
    BY DEF NoRequest, Request
  <2>2. /\ req' \in [Workers -> Request]
        /\ pc' \in [Workers -> {"idle", "grant", "revoke", "admin", "insert", "commit", "ack"}]
    BY <1>13, <2>1 DEF TypeOK, CommitFails, Acknowledge, AnswerLost, Crash, Return
  <2>3. /\ ins' \in [Workers -> SUBSET Row]
        /\ upd' \in [Workers -> SUBSET Change]
    BY <1>13 DEF TypeOK, CommitFails, Acknowledge, AnswerLost, Crash, EndSession, session
  <2> QED
    BY <1>13, <2>2, <2>3 DEF TypeOK, CommitFails, Acknowledge, AnswerLost, Crash,
                             database, provider
<1>14. ASSUME NEW w \in Workers, NEW p \in Payments, ReconcileSelect(w, p)
       PROVE  TypeOK'
  <2>1. /\ req' \in [Workers -> Request]
        /\ pc' \in [Workers -> {"idle", "grant", "revoke", "admin", "insert", "commit", "ack"}]
    <3>1. CASE Processed(w, p)
      BY <3>1, ProcessedType
    <3>2. CASE /\ Product[p] \in Catalogue /\ pc' = [pc EXCEPT ![w] = "insert"]
               /\ req' = [req EXCEPT ![w].pick = {p}]
      <4>1. [req[w] EXCEPT !.pick = {p}] \in Request
        BY <3>2 DEF TypeOK, Request
      <4> QED BY <3>2, <4>1 DEF TypeOK
    <3> QED BY <1>14, <3>1, <3>2 DEF ReconcileSelect
  <2> QED BY <1>14, <2>1 DEF TypeOK, ReconcileSelect, database, provider, session
<1>15. ASSUME NEW w \in Workers, NEW p \in Payments, ReconcileInsert(w, p)
       PROVE  TypeOK'
  <2>1. Product[p] \in Catalogue
    BY <1>15 DEF ReconcileInsert, TypeOK, Request
  <2>2. ins' \in [Workers -> SUBSET Row]
    <3>1. \A i \in RowIds : Grant(i, p) \in Row
      BY <2>1, GrantType
    <3> QED BY <1>15, <3>1 DEF ReconcileInsert, TypeOK
  <2>3. req' \in [Workers -> Request]
    <3>1. /\ [req[w] EXCEPT !.todo = @ \ {p}, !.pick = {}] \in Request
          /\ [req[w] EXCEPT !.todo = @ \ {p}, !.pick = {}, !.told = @ \cup {p}] \in Request
      BY DEF TypeOK, Request
    <3>2. \/ req' = [req EXCEPT ![w] = [req[w] EXCEPT !.todo = @ \ {p}, !.pick = {}]]
          \/ req' = [req EXCEPT ![w] = [req[w] EXCEPT !.todo = @ \ {p}, !.pick = {},
                                                     !.told = @ \cup {p}]]
      BY <1>15 DEF ReconcileInsert, TypeOK, Request
    <3> QED BY <3>1, <3>2 DEF TypeOK
  <2>4. pc' \in [Workers -> {"idle", "grant", "revoke", "admin", "insert", "commit", "ack"}]
    BY <1>15 DEF ReconcileInsert, TypeOK
  <2> QED BY <1>15, <2>2, <2>3, <2>4 DEF TypeOK, ReconcileInsert, database, provider
<1>16. CASE UNCHANGED vars
  BY <1>16 DEF TypeOK, vars
<1> QED
  BY <1>1, <1>2, <1>3, <1>4, <1>5, <1>6, <1>7, <1>8, <1>9, <1>10, <1>11, <1>12,
     <1>13, <1>14, <1>15, <1>16
  DEF Next, Provider, Accounts, Deliver, DeliverRefund, Proceed, Failure

(* The state of the money path keeps its type. *)
THEOREM TypeCorrect == Spec => []TypeOK
BY TypeInit, TypeStep, PTL DEF Spec

-----------------------------------------------------------------------------
(* The inductive invariant *)

(* The parts of IInv that speak of the tables and the provider only. *)
TableInv ==
  /\ NoticesInv
  /\ UsersInv
  /\ RowsArePaidFor
  /\ OneRowPerPayment
  /\ AcknowledgedIsRecorded

(* The parts that speak of what a handler is doing. *)
HandlerInv == GrantInv /\ PendingInv /\ AnswerInv

LEMMA TableFrame ==
  ASSUME TableInv, UNCHANGED <<users, rows, settled>>, notices' = notices
  PROVE  TableInv'
BY DEF TableInv, NoticesInv, UsersInv, RowsArePaidFor, OneRowPerPayment,
       AcknowledgedIsRecorded, Keyed

LEMMA HandlerFrame ==
  ASSUME HandlerInv, UNCHANGED <<pc, req, ins>>,
         \A p \in Payments : settled[p] # "open" => settled'[p] = settled[p],
         \A p \in Payments : Keyed(p) # {} /\ Standing(p) => Keyed(p)' # {}
  PROVE  HandlerInv'
<1>1. GrantInv'
  BY DEF HandlerInv, GrantInv
<1>2. PendingInv'
  BY DEF HandlerInv, PendingInv, PaidFor
<1>3. AnswerInv'
  BY DEF HandlerInv, GrantInv, AnswerInv, Standing
<1> QED BY <1>1, <1>2, <1>3 DEF HandlerInv

THEOREM InvInit == Init => IInv
BY TypeInit, PaymentsAssumption
DEF Init, IInv, NoticesInv, GrantInv, PendingInv, UsersInv, AnswerInv, NoRequest,
    RowsArePaidFor, OneRowPerPayment, AcknowledgedIsRecorded, Payments

LEMMA InvStep == IInv /\ [Next]_vars => IInv'
<1> SUFFICES ASSUME IInv, [Next]_vars PROVE TableInv' /\ HandlerInv'
  BY TypeStep DEF IInv, TableInv, HandlerInv
<1> USE PaymentsAssumption
<1>t. TypeOK /\ TypeOK' /\ TableInv /\ HandlerInv
  BY TypeStep DEF IInv, TableInv, HandlerInv
<1>k. ASSUME rows' = rows PROVE \A p : Keyed(p)' = Keyed(p)
  BY <1>k DEF Keyed
<1>1. ASSUME NEW p \in Payments, NEW how \in {"paid", "canceled"}, Settle(p, how)
      PROVE  TableInv' /\ HandlerInv'
  <2>1. /\ settled[p] = "open" /\ settled' = [settled EXCEPT ![p] = how]
        /\ notices' = notices \cup {<<"payment", p>>}
        /\ UNCHANGED <<users, rows, pc, req, ins, upd>>
        /\ how = "canceled" => p \notin StarsPayments
    BY <1>1 DEF Settle, database, session
  <2>2. NoticesInv'
    BY <2>1, <1>t DEF TableInv, NoticesInv, TypeOK, Payments
  <2>3. UsersInv' /\ OneRowPerPayment'
    BY <2>1, <1>t DEF TableInv, UsersInv, OneRowPerPayment
  <2>4. RowsArePaidFor'
    BY <2>1, <1>t DEF TableInv, RowsArePaidFor, TypeOK
  <2>5. AcknowledgedIsRecorded'
    BY <2>1, <1>t, <1>k DEF TableInv, AcknowledgedIsRecorded, TypeOK
  <2>6. HandlerInv'
    BY <2>1, <1>t, <1>k, HandlerFrame DEF TypeOK
  <2> QED BY <2>2, <2>3, <2>4, <2>5, <2>6 DEF TableInv
<1>2. ASSUME NEW p \in Payments, CabinetRefund(p)
      PROVE  TableInv' /\ HandlerInv'
  <2>1. /\ notices' = notices \cup {<<"refund", p>>}
        /\ UNCHANGED <<users, rows, settled, pc, req, ins, upd>>
    BY <1>2 DEF CabinetRefund, database, session
  <2>2. TableInv'
    BY <2>1, <1>t DEF TableInv, NoticesInv, UsersInv, RowsArePaidFor, OneRowPerPayment,
                      AcknowledgedIsRecorded, Keyed
  <2>3. HandlerInv'
    BY <2>1, <1>t, <1>k, HandlerFrame
  <2> QED BY <2>2, <2>3
<1>3. ASSUME NEW u \in Users, UpsertMe(u)
      PROVE  TableInv' /\ HandlerInv'
  <2>1. users' = users \cup {u} /\ UNCHANGED <<rows, settled, notices, pc, req, ins, upd>>
    BY <1>3 DEF UpsertMe, provider, session
  <2>2. TableInv'
    BY <2>1, <1>t DEF TableInv, NoticesInv, UsersInv, RowsArePaidFor, OneRowPerPayment,
                      AcknowledgedIsRecorded, Keyed
  <2>3. HandlerInv'
    BY <2>1, <1>t, <1>k, HandlerFrame
  <2> QED BY <2>2, <2>3
<1>4. ASSUME NEW u \in Users, DeleteUser(u)
      PROVE  TableInv' /\ HandlerInv'
  <2>1. /\ u \in Deletable /\ users' = users \ {u}
        /\ rows' = {r \in rows : r.user # u}
        /\ UNCHANGED <<settled, notices, pc, req, ins, upd>>
    BY <1>4 DEF DeleteUser, provider, session
  <2>2. \A p \in Payments : Keyed(p) # {} /\ Standing(p) => Keyed(p)' # {}
    BY <2>1, <1>t DEF TableInv, RowsArePaidFor, Keyed, Standing
  <2>3. NoticesInv' /\ UsersInv' /\ RowsArePaidFor' /\ OneRowPerPayment'
    BY <2>1, <1>t DEF TableInv, NoticesInv, UsersInv, RowsArePaidFor, OneRowPerPayment
  <2>4. AcknowledgedIsRecorded'
    BY <2>1, <2>2, <1>t DEF TableInv, AcknowledgedIsRecorded, Standing
  <2>5. HandlerInv'
    BY <2>1, <2>2, <1>t, HandlerFrame
  <2> QED BY <2>3, <2>4, <2>5 DEF TableInv
<1>5. CASE Tick
  <2>1. UNCHANGED <<users, rows, settled, notices, pc, req, ins, upd>>
    BY <1>5 DEF Tick, database, provider, session
  <2> QED BY <2>1, <1>t, <1>k, TableFrame, HandlerFrame
<1>6. ASSUME NEW w \in Workers, NEW p \in Payments,
             TelegramWebhook(w, p) \/ YukassaWebhook(w, p) \/ RefundWebhook(w, p)
      PROVE  TableInv' /\ HandlerInv'
  <2>1. UNCHANGED <<users, rows, settled, notices, ins, upd>> /\ pc[w] = "idle"
    BY <1>6 DEF TelegramWebhook, YukassaWebhook, RefundWebhook, Begin, database,
                provider, session
  <2>2. PICK kind \in {"payment", "refund"}, at \in {"grant", "revoke", "ack"} :
          /\ req' = [req EXCEPT ![w] = [kind |-> kind, todo |-> {p}, at |-> clock,
                                        pick |-> {}, told |-> {}]]
          /\ pc' = [pc EXCEPT ![w] = at]
          /\ kind = "payment" => /\ settled[p] # "open"
                                 /\ at = "grant" => settled[p] = "paid"
                                 /\ at = "ack" => settled[p] # "paid"
                                 /\ at # "revoke"
          /\ kind = "refund" => at = "revoke"
    BY <1>6, <1>t DEF TelegramWebhook, YukassaWebhook, RefundWebhook, Begin, TableInv,
                      NoticesInv, TypeOK
  <2>3. TableInv'
    BY <2>1, <1>t, TableFrame
  <2>4. GrantInv'
    BY <2>1, <2>2, <1>t DEF HandlerInv, GrantInv, TypeOK, Webhook
  <2>5. PendingInv'
    BY <2>1, <2>2, <1>t DEF HandlerInv, PendingInv, PaidFor, TypeOK
  <2>6. AnswerInv'
    BY <2>1, <2>2, <1>t, <1>k DEF HandlerInv, AnswerInv, Standing, TypeOK
  <2> QED BY <2>3, <2>4, <2>5, <2>6 DEF HandlerInv
<1>7. ASSUME NEW w \in Workers, Operator(w)
      PROVE  TableInv' /\ HandlerInv'
  <2>1. PICK kind \in {"admin_refund", "grant_year", "revoke", "reconcile"},
             S \in SUBSET (Payments \cup RowIds \cup Users) :
          /\ AdminStart(w, kind, S)
          /\ kind = "reconcile" => S \subseteq Charged
    BY <1>7, <1>t DEF Operator, TypeOK, Row, Charged, Payments
  <2>2. /\ UNCHANGED <<users, rows, settled, notices, ins, upd>> /\ pc[w] = "idle"
        /\ req' = [req EXCEPT ![w] = [kind |-> kind, todo |-> S, at |-> clock,
                                      pick |-> {}, told |-> {}]]
        /\ pc' = [pc EXCEPT ![w] = "admin"]
    BY <2>1 DEF AdminStart, Begin, database, provider, session
  <2>3. TableInv'
    BY <2>2, <1>t, TableFrame
  <2>4. GrantInv'
    BY <2>1, <2>2, <1>t DEF HandlerInv, GrantInv, TypeOK, Webhook, Charged, Payments
  <2>5. PendingInv'
    BY <2>2, <1>t DEF HandlerInv, PendingInv, PaidFor, TypeOK
  <2>6. AnswerInv'
    BY <2>2, <1>t, <1>k DEF HandlerInv, AnswerInv, Standing, TypeOK
  <2> QED BY <2>3, <2>4, <2>5, <2>6 DEF HandlerInv
<1>8. ASSUME NEW w \in Workers, NEW p \in Payments, GrantFlush(w, p)
      PROVE  TableInv' /\ HandlerInv'
  <2>1. /\ UNCHANGED <<users, rows, settled, notices, req, upd>>
        /\ pc[w] = "grant" /\ p \in req[w].todo
    BY <1>8 DEF GrantFlush, database, provider
  <2>2. req[w].kind = "payment" /\ settled[p] = "paid" /\ ins[w] = {}
    BY <2>1, <1>t DEF HandlerInv, GrantInv, PendingInv
  <2>3. TableInv'
    BY <2>1, <1>t, TableFrame
  <2>4. CASE /\ Product[p] \in Catalogue
             /\ pc' = [pc EXCEPT ![w] = "commit"]
             /\ \E i \in RowIds : ins' = [ins EXCEPT ![w] = {Grant(i, p)}]
    <3>1. PICK i \in RowIds : ins' = [ins EXCEPT ![w] = {Grant(i, p)}]
      BY <2>4
    <3>2. Grant(i, p).key = p /\ PaidFor(Grant(i, p))
      BY <2>2 DEF Grant, PaidFor
    <3>3. ASSUME NEW r, r = Grant(i, p) PROVE PaidFor(r)'
      BY <3>2, <3>3, <2>1 DEF PaidFor
    <3>4. GrantInv'
      BY <2>1, <2>2, <2>4, <1>t DEF HandlerInv, GrantInv, TypeOK
    <3>5. PendingInv'
      <4>1. ASSUME NEW v \in Workers, v # w
            PROVE  /\ \A r \in ins'[v] : PaidFor(r)'
                   /\ ins'[v] = ins[v] /\ pc'[v] = pc[v]
        BY <4>1, <3>1, <2>1, <2>4, <1>t DEF HandlerInv, PendingInv, PaidFor, TypeOK
      <4>2. ins'[w] = {Grant(i, p)} /\ pc'[w] = "commit"
        BY <3>1, <2>4, <1>t DEF TypeOK
      <4>3. /\ \A r \in ins'[w] : PaidFor(r)'
            /\ \A r, s \in ins'[w] : r = s
        BY <4>2, <3>3
      <4>4. \A v \in Workers \ {w} :
              /\ \A r, s \in ins[v] : r.key = s.key => r = s
              /\ pc[v] \notin {"admin", "insert", "commit"} => ins[v] = {}
              /\ pc[v] = "admin" /\ req[v].kind # "reconcile" => \A r \in ins[v] :
                   r.key = <<r.user, req[v].at>> /\ r.user \notin req[v].todo
              /\ req[v].kind = "reconcile" => \A r \in ins[v] : r.key \notin req[v].todo
        BY <1>t DEF HandlerInv, PendingInv
      <4> QED BY <4>1, <4>2, <4>3, <4>4, <2>1, <2>2 DEF PendingInv
    <3>6. AnswerInv'
      <4>1. \A q \in Payments : q \in req[w].todo /\ req[w].kind = "payment" => q = p
        BY <2>1, <2>2, <1>t DEF HandlerInv, GrantInv
      <4> QED BY <4>1, <3>1, <3>2, <2>1, <2>4, <1>t, <1>k DEF HandlerInv, AnswerInv, Standing, TypeOK
    <3> QED BY <2>3, <3>4, <3>5, <3>6 DEF HandlerInv
  <2>5. CASE /\ (Product[p] \notin Catalogue \/ Buyer[p] \notin users \/ ~Free(p))
             /\ \/ /\ Product[p] \notin Catalogue
                   /\ pc' = [pc EXCEPT ![w] = "commit"]
                \/ pc' = [pc EXCEPT ![w] = "ack"]
             /\ ins' = ins
    <3>1. GrantInv'
      BY <2>1, <2>2, <2>5, <1>t DEF HandlerInv, GrantInv, TypeOK
    <3>2. PendingInv'
      BY <2>1, <2>2, <2>5, <1>t DEF HandlerInv, PendingInv, PaidFor, TypeOK
    <3>3. Standing(p) => Keyed(p) # {} /\ pc' = [pc EXCEPT ![w] = "ack"]
      BY <2>5, <1>t DEF TableInv, UsersInv, Standing, Free
    <3>4. \A q \in Payments : q \in req[w].todo => q = p
      BY <2>1, <2>2, <1>t DEF HandlerInv, GrantInv
    <3>5. \A v \in Workers \ {w} : pc'[v] = pc[v]
      BY <2>5, <1>t DEF TypeOK
    <3>6. pc'[w] \in {"commit", "ack"} /\ (Standing(p) => pc'[w] = "ack")
      BY <2>5, <3>3, <1>t DEF TypeOK
    <3>7. AnswerInv'
      BY <3>3, <3>4, <3>5, <3>6, <2>1, <2>5, <1>t, <1>k DEF HandlerInv, AnswerInv, Standing
    <3> QED BY <2>3, <3>1, <3>2, <3>7 DEF HandlerInv
  <2> QED BY <1>8, <2>4, <2>5 DEF GrantFlush
<1>9. ASSUME NEW w \in Workers, NEW p \in Payments, RefundSelect(w, p)
      PROVE  TableInv' /\ HandlerInv'
  <2>1. /\ UNCHANGED <<users, rows, settled, notices, req, ins>>
        /\ pc[w] = "revoke" /\ pc' = [pc EXCEPT ![w] = "commit"]
    BY <1>9 DEF RefundSelect, database, provider
  <2>2. req[w].kind = "refund"
    BY <2>1, <1>t DEF HandlerInv, GrantInv
  <2>3. TableInv'
    BY <2>1, <1>t, TableFrame
  <2>4. GrantInv'
    BY <2>1, <1>t DEF HandlerInv, GrantInv, TypeOK
  <2>5. PendingInv'
    BY <2>1, <1>t DEF HandlerInv, PendingInv, PaidFor, TypeOK
  <2>6. AnswerInv'
    BY <2>1, <2>2, <1>t, <1>k DEF HandlerInv, AnswerInv, Standing, TypeOK
  <2> QED BY <2>3, <2>4, <2>5, <2>6 DEF HandlerInv
<1>10. ASSUME NEW w \in Workers, NEW i \in RowIds, AdminRefundRow(w, i)
       PROVE  TableInv' /\ HandlerInv'
  <2>1. /\ UNCHANGED <<users, rows, settled, ins>>
        /\ pc[w] = "admin" /\ req[w].kind = "admin_refund"
        /\ req' = [req EXCEPT ![w].todo = @ \ {i}]
        /\ pc' \in {pc, [pc EXCEPT ![w] = "commit"]}
    BY <1>10, <1>t DEF AdminRefundRow, Processed, database, TypeOK
  <2>2. \A p \in Payments : <<"payment", p>> \in notices' <=> <<"payment", p>> \in notices
    BY <1>10 DEF AdminRefundRow
  <2>3. TableInv'
    BY <2>1, <2>2, <1>t, <1>k DEF TableInv, NoticesInv, UsersInv, RowsArePaidFor,
                                  OneRowPerPayment, AcknowledgedIsRecorded
  <2>4. /\ \A v \in Workers \ {w} : req'[v] = req[v] /\ pc'[v] = pc[v]
        /\ req'[w].kind = "admin_refund" /\ req'[w].at = req[w].at
        /\ req'[w].todo \subseteq req[w].todo /\ pc'[w] \in {"admin", "commit"}
    BY <2>1, <1>t DEF TypeOK, Request
  <2>5. GrantInv'
    BY <2>1, <2>4, <1>t DEF HandlerInv, GrantInv, Webhook
  <2>6. PendingInv'
    BY <2>1, <2>4, <1>t DEF HandlerInv, PendingInv, PaidFor
  <2>7. AnswerInv'
    BY <2>1, <2>4, <1>t, <1>k DEF HandlerInv, AnswerInv, Standing
  <2> QED BY <2>3, <2>5, <2>6, <2>7 DEF HandlerInv
<1>11. ASSUME NEW w \in Workers, NEW u \in Users, AdminRevokeUser(w, u)
       PROVE  TableInv' /\ HandlerInv'
  <2>1. /\ UNCHANGED <<users, rows, settled, notices, ins>>
        /\ pc[w] = "admin" /\ req[w].kind = "revoke"
        /\ req' = [req EXCEPT ![w].todo = @ \ {u}]
        /\ pc' \in {pc, [pc EXCEPT ![w] = "commit"]}
    BY <1>11, <1>t DEF AdminRevokeUser, Processed, database, provider, TypeOK
  <2>2. TableInv'
    BY <2>1, <1>t, TableFrame
  <2>3. /\ \A v \in Workers \ {w} : req'[v] = req[v] /\ pc'[v] = pc[v]
        /\ req'[w].kind = "revoke" /\ req'[w].at = req[w].at
        /\ req'[w].todo \subseteq req[w].todo /\ pc'[w] \in {"admin", "commit"}
    BY <2>1, <1>t DEF TypeOK, Request
  <2>4. GrantInv'
    BY <2>1, <2>3, <1>t DEF HandlerInv, GrantInv, Webhook
  <2>5. PendingInv'
    BY <2>1, <2>3, <1>t DEF HandlerInv, PendingInv, PaidFor
  <2>6. AnswerInv'
    BY <2>1, <2>3, <1>t, <1>k DEF HandlerInv, AnswerInv, Standing
  <2> QED BY <2>2, <2>4, <2>5, <2>6 DEF HandlerInv
<1>12. ASSUME NEW w \in Workers, NEW u \in Users, AdminGrantUser(w, u)
       PROVE  TableInv' /\ HandlerInv'
  <2>1. /\ UNCHANGED <<users, rows, settled, notices>>
        /\ pc[w] = "admin" /\ req[w].kind = "grant_year" /\ u \in req[w].todo
        /\ req' = [req EXCEPT ![w].todo = @ \ {u}]
        /\ pc' \in {pc, [pc EXCEPT ![w] = "commit"]}
    BY <1>12, <1>t DEF AdminGrantUser, Processed, database, provider, TypeOK
  <2>2. TableInv'
    BY <2>1, <1>t, TableFrame
  <2>3. /\ \A v \in Workers \ {w} : req'[v] = req[v] /\ pc'[v] = pc[v]
        /\ req'[w].kind = "grant_year" /\ req'[w].at = req[w].at
        /\ req'[w].todo = req[w].todo \ {u} /\ pc'[w] \in {"admin", "commit"}
    BY <2>1, <1>t DEF TypeOK, Request
  <2>4. /\ \A v \in Workers \ {w} : ins'[v] = ins[v]
        /\ \A r \in ins'[w] \ ins[w] : r.key = <<u, req[w].at>> /\ r.user = u
        /\ \A r, s \in ins'[w] \ ins[w] : r = s
    BY <1>12, <1>t DEF AdminGrantUser, TypeOK
  <2>5. <<u, req[w].at>> \notin Payments
    BY <1>t DEF TypeOK, Request, GiftKeys
  <2>6. GrantInv'
    BY <2>1, <2>3, <1>t DEF HandlerInv, GrantInv, Webhook
  <2>7. PendingInv'
    <3>1. ASSUME NEW v \in Workers \ {w}
          PROVE  /\ \A r \in ins'[v] : PaidFor(r)'
                 /\ \A r, s \in ins'[v] : r.key = s.key => r = s
                 /\ pc'[v] \notin {"admin", "insert", "commit"} => ins'[v] = {}
                 /\ pc'[v] = "admin" /\ req'[v].kind # "reconcile" => \A r \in ins'[v] :
                      r.key = <<r.user, req'[v].at>> /\ r.user \notin req'[v].todo
                 /\ req'[v].kind = "reconcile" =>
                      \A r \in ins'[v] : r.key \notin req'[v].todo
      BY <2>1, <2>3, <2>4, <1>t DEF HandlerInv, PendingInv, PaidFor
    <3>2. \A r \in ins[w] : r.key = <<r.user, req[w].at>> /\ r.user \notin req[w].todo
      BY <2>1, <1>t DEF HandlerInv, PendingInv
    <3>3. \A r \in ins'[w] : PaidFor(r)'
      BY <2>1, <2>4, <2>5, <1>t DEF HandlerInv, PendingInv, PaidFor
    <3>4. \A r, s \in ins'[w] : r.key = s.key => r = s
      <4>1. ASSUME NEW r \in ins[w], NEW s \in ins'[w] \ ins[w], r.key = s.key
            PROVE  FALSE
        BY <4>1, <3>2, <2>4, <2>1
      <4> QED BY <4>1, <2>4, <1>t DEF HandlerInv, PendingInv
    <3>5. \A r \in ins'[w] : r.key = <<r.user, req'[w].at>> /\ r.user \notin req'[w].todo
      BY <3>2, <2>3, <2>4
    <3> QED BY <3>1, <3>3, <3>4, <3>5, <2>3 DEF PendingInv
  <2>8. AnswerInv'
    BY <2>1, <2>3, <2>4, <1>t, <1>k DEF HandlerInv, AnswerInv, Standing
  <2> QED BY <2>2, <2>6, <2>7, <2>8 DEF HandlerInv
<1>13. ASSUME NEW w \in Workers, Commit(w)
       PROVE  TableInv' /\ HandlerInv'
  <2>1. /\ UNCHANGED <<users, settled, notices>>
        /\ pc[w] = "commit" /\ CanCommit(w)
        /\ rows' = {Changed(r, upd[w]) : r \in rows} \cup ins[w]
        /\ ins' = [ins EXCEPT ![w] = {}]
        /\ \/ pc' = [pc EXCEPT ![w] = "ack"] /\ req' = req
           \/ /\ req[w].kind \notin Webhook
              /\ pc' = [pc EXCEPT ![w] = "idle"]
              /\ req' = [req EXCEPT ![w] = NoRequest]
    BY <1>13 DEF Commit, EndSession, Return, provider
  <2>2. \A r \in rows : LET c == Changed(r, upd[w])
                        IN c.key = r.key /\ c.user = r.user /\ c.item = r.item
    BY <1>t, ChangedType DEF TypeOK
  <2>3. \A r \in ins[w] : Keyed(r.key) = {}
    BY <2>1 DEF CanCommit, Free
  <2>4. RowsArePaidFor'
    BY <2>1, <2>2, <1>t DEF TableInv, HandlerInv, RowsArePaidFor, PendingInv, PaidFor
  <2>5. OneRowPerPayment'
    <3>1. ASSUME NEW r \in ins[w], NEW s \in rows PROVE r.key # Changed(s, upd[w]).key
      BY <2>2, <2>3 DEF Keyed
    <3>2. \A r, s \in ins[w] : r.key = s.key => r = s
      BY <1>t DEF HandlerInv, PendingInv
    <3>3. \A r, s \in rows : Changed(r, upd[w]).key = Changed(s, upd[w]).key => r = s
      BY <2>2, <1>t DEF TableInv, OneRowPerPayment
    <3> QED BY <2>1, <3>1, <3>2, <3>3 DEF OneRowPerPayment
  <2>6. \A k : Keyed(k) # {} => Keyed(k)' # {}
    BY <2>1, <2>2 DEF Keyed
  <2>7. TableInv'
    BY <2>1, <2>4, <2>5, <2>6, <1>t DEF TableInv, NoticesInv, UsersInv, AcknowledgedIsRecorded
  <2>8. /\ \A v \in Workers \ {w} : req'[v] = req[v] /\ pc'[v] = pc[v] /\ ins'[v] = ins[v]
        /\ ins'[w] = {}
        /\ \/ pc'[w] = "ack" /\ req'[w] = req[w]
           \/ pc'[w] = "idle" /\ req'[w] = NoRequest
    BY <2>1, <1>t DEF TypeOK
  <2>9. GrantInv'
    BY <2>1, <2>8, <1>t DEF HandlerInv, GrantInv, NoRequest
  <2>10. PendingInv'
    BY <2>1, <2>8, <1>t DEF HandlerInv, PendingInv, PaidFor
  <2>11. AnswerInv'
    <3>1. \A k : (\E r \in ins[w] : r.key = k) => Keyed(k)' # {}
      BY <2>1 DEF Keyed
    <3> QED BY <3>1, <2>1, <2>6, <2>8, <1>t DEF HandlerInv, AnswerInv, Standing, NoRequest
  <2> QED BY <2>7, <2>9, <2>10, <2>11 DEF HandlerInv
<1>14. ASSUME NEW w \in Workers,
              CommitFails(w) \/ Acknowledge(w) \/ AnswerLost(w) \/ Crash(w)
       PROVE  TableInv' /\ HandlerInv'
  <2>1. /\ UNCHANGED <<users, rows, settled>>
        /\ notices' = notices \/ (pc[w] = "ack" /\ notices' = notices \ ({req[w].kind} \X req[w].todo))
        /\ pc' = [pc EXCEPT ![w] = "idle"]
        /\ req' = [req EXCEPT ![w] = NoRequest]
        /\ ins' = [ins EXCEPT ![w] = {}] \/ (ins' = ins /\ pc[w] = "ack")
    BY <1>14 DEF CommitFails, Acknowledge, AnswerLost, Crash, EndSession, Return,
                 database, provider, session
  <2>2. /\ \A v \in Workers \ {w} : req'[v] = req[v] /\ pc'[v] = pc[v] /\ ins'[v] = ins[v]
        /\ ins'[w] = {} /\ pc'[w] = "idle" /\ req'[w] = NoRequest
    BY <2>1, <1>t DEF TypeOK, HandlerInv, PendingInv
  <2>3. NoticesInv' /\ UsersInv' /\ RowsArePaidFor' /\ OneRowPerPayment'
    BY <2>1, <1>t DEF TableInv, NoticesInv, UsersInv, RowsArePaidFor, OneRowPerPayment
  <2>4. AcknowledgedIsRecorded'
    BY <2>1, <1>t, <1>k DEF TableInv, AcknowledgedIsRecorded, HandlerInv, AnswerInv, Standing
  <2>5. GrantInv'
    BY <2>1, <2>2, <1>t DEF HandlerInv, GrantInv, NoRequest
  <2>6. PendingInv'
    BY <2>1, <2>2, <1>t DEF HandlerInv, PendingInv, PaidFor
  <2>7. AnswerInv'
    BY <2>1, <2>2, <1>t, <1>k DEF HandlerInv, AnswerInv, Standing, NoRequest
  <2> QED BY <2>3, <2>4, <2>5, <2>6, <2>7 DEF TableInv, HandlerInv
<1>15. ASSUME NEW w \in Workers, NEW p \in Payments, ReconcileSelect(w, p)
       PROVE  TableInv' /\ HandlerInv'
  <2>1. /\ UNCHANGED <<users, rows, settled, notices, ins>>
        /\ pc[w] = "admin" /\ req[w].kind = "reconcile" /\ p \in req[w].todo
        /\ \A v \in Workers \ {w} : req'[v] = req[v] /\ pc'[v] = pc[v]
        /\ req'[w].kind = "reconcile" /\ pc'[w] \in {"admin", "insert", "commit"}
    BY <1>15, <1>t DEF ReconcileSelect, Processed, database, provider, session, TypeOK, Request
  <2>2. \/ req'[w].todo = req[w].todo \ {p} /\ req'[w].pick = req[w].pick
           /\ pc'[w] \in {"admin", "commit"}
        \/ req'[w].todo = req[w].todo /\ req'[w].pick = {p} /\ pc'[w] = "insert"
    BY <1>15, <1>t DEF ReconcileSelect, Processed, TypeOK, Request
  <2>3. TableInv'
    BY <2>1, <1>t, TableFrame
  <2>4. GrantInv'
    BY <2>1, <2>2, <1>t DEF HandlerInv, GrantInv, Webhook
  <2>5. PendingInv'
    BY <2>1, <2>2, <1>t DEF HandlerInv, PendingInv, PaidFor
  <2>6. AnswerInv'
    BY <2>1, <1>t, <1>k DEF HandlerInv, AnswerInv, Standing
  <2> QED BY <2>3, <2>4, <2>5, <2>6 DEF HandlerInv
<1>16. ASSUME NEW w \in Workers, NEW p \in Payments, ReconcileInsert(w, p)
       PROVE  TableInv' /\ HandlerInv'
  <2>1. /\ UNCHANGED <<users, rows, settled, notices>>
        /\ pc[w] = "insert" /\ p \in req[w].pick
        /\ pc' \in {[pc EXCEPT ![w] = "commit"], [pc EXCEPT ![w] = "admin"]}
    BY <1>16 DEF ReconcileInsert, database, provider
  <2>2. req[w].kind = "reconcile" /\ p \in req[w].todo /\ settled[p] = "paid"
    BY <2>1, <1>t DEF HandlerInv, GrantInv
  <2>3. /\ \A v \in Workers \ {w} : req'[v] = req[v] /\ pc'[v] = pc[v]
        /\ req'[w].kind = "reconcile" /\ req'[w].pick = {}
        /\ req'[w].todo = req[w].todo \ {p} /\ pc'[w] \in {"admin", "commit"}
    BY <1>16, <2>1, <2>2, <1>t DEF ReconcileInsert, TypeOK, Request
  <2>4. /\ \A v \in Workers \ {w} : ins'[v] = ins[v]
        /\ \A r \in ins'[w] \ ins[w] : r.key = p /\ PaidFor(r)
        /\ \A r, s \in ins'[w] \ ins[w] : r = s
    <3>1. CASE ins' = [ins EXCEPT ![w] = {}]
      BY <3>1, <1>t DEF TypeOK
    <3>2. ASSUME NEW i \in RowIds, ins' = [ins EXCEPT ![w] = @ \cup {Grant(i, p)}]
          PROVE  /\ \A v \in Workers \ {w} : ins'[v] = ins[v]
                 /\ ins'[w] \ ins[w] \subseteq {Grant(i, p)}
      BY <3>2, <1>t DEF TypeOK
    <3>3. \A i \in RowIds : Grant(i, p).key = p /\ PaidFor(Grant(i, p))
      BY <2>2 DEF Grant, PaidFor
    <3>4. CASE \E i \in RowIds : ins' = [ins EXCEPT ![w] = @ \cup {Grant(i, p)}]
      <4>1. PICK i \in RowIds : ins' = [ins EXCEPT ![w] = @ \cup {Grant(i, p)}]
        BY <3>4
      <4> QED BY <4>1, <3>2, <3>3
    <3> QED BY <1>16, <3>1, <3>4 DEF ReconcileInsert
  <2>5. TableInv'
    BY <2>1, <1>t, TableFrame
  <2>6. GrantInv'
    BY <2>1, <2>2, <2>3, <1>t DEF HandlerInv, GrantInv, Webhook
  <2>7. \A r \in ins[w] : r.key \notin req[w].todo
    BY <2>2, <1>t DEF HandlerInv, PendingInv
  <2>8. PendingInv'
    <3>1. \A v \in Workers : \A r \in ins'[v] : PaidFor(r)'
      BY <2>1, <2>4, <1>t DEF HandlerInv, PendingInv, PaidFor
    <3>2. \A r, s \in ins'[w] : r.key = s.key => r = s
      BY <2>2, <2>4, <2>7, <1>t DEF HandlerInv, PendingInv
    <3>3. \A r \in ins'[w] : r.key \notin req'[w].todo
      BY <2>3, <2>4, <2>7
    <3> QED BY <3>1, <3>2, <3>3, <2>3, <2>4, <1>t DEF HandlerInv, PendingInv
  <2>9. AnswerInv'
    BY <2>1, <2>3, <2>4, <1>t, <1>k DEF HandlerInv, AnswerInv, Standing
  <2> QED BY <2>5, <2>6, <2>8, <2>9 DEF HandlerInv
<1>17. CASE UNCHANGED vars
  <2>1. UNCHANGED <<users, rows, settled, notices, pc, req, ins, upd>>
    BY <1>17 DEF vars
  <2> QED BY <2>1, <1>t, <1>k, TableFrame, HandlerFrame
<1> QED
  BY <1>1, <1>2, <1>3, <1>4, <1>5, <1>6, <1>7, <1>8, <1>9, <1>10, <1>11, <1>12,
     <1>13, <1>14, <1>15, <1>16, <1>17
  DEF Next, Provider, Accounts, Deliver, DeliverRefund, Proceed, Failure

THEOREM Invariance == Spec => []IInv
BY InvInit, InvStep, PTL DEF Spec

(* A 200 is sent for recorded payments only: for any number of handlers,
   payments and crashes. *)
THEOREM WebhooksAreSound == Spec => []AcknowledgedIsRecorded
<1>1. IInv => AcknowledgedIsRecorded
  BY DEF IInv
<1> QED BY <1>1, Invariance, PTL

(* Every row granted for a payment is paid for, by the account it is given
   to and for the product it names. *)
THEOREM GrantsArePaidFor == Spec => []RowsArePaidFor
<1>1. IInv => RowsArePaidFor
  BY DEF IInv
<1> QED BY <1>1, Invariance, PTL

(* However often and concurrently a payment is notified, it has one row. *)
THEOREM GrantedOnce == Spec => []OneRowPerPayment
<1>1. IInv => OneRowPerPayment
  BY DEF IInv
<1> QED BY <1>1, Invariance, PTL

-----------------------------------------------------------------------------
(* What has ended stays ended *)

(* No UPDATE of any session brings a row back, and one that changes the
   status ends it. *)
LEMMA ChangedEnds ==
  ASSUME NEW r \in Row, NEW C \in SUBSET Change,
         ~Live(r) \/ \E d \in C : d.id = r.id /\ d.status # "keep"
  PROVE  ~Live(Changed(r, C))
<1> DEFINE c == {d \in C : d.id = r.id}
           st == IF \E d \in c : d.status # "keep"
                 THEN (CHOOSE d \in c : d.status # "keep").status ELSE r.status
           ex == IF \E d \in c : d.expires # Keep
                 THEN (CHOOSE d \in c : d.expires # Keep).expires ELSE r.expires
<1>1. Changed(r, C) = [r EXCEPT !.status = st, !.expires = ex]
  BY DEF Changed
<1>2. Changed(r, C).status = st
  <2> HIDE DEF st, ex
  <2> QED BY <1>1 DEF Row
<1>3. CASE \E d \in c : d.status # "keep"
  <2>1. PICK d \in c : d = CHOOSE e \in c : e.status # "keep"
    BY <1>3
  <2>2. d.status # "keep" /\ d \in Change
    BY <1>3, <2>1
  <2>3. d.status \in {"REFUNDED", "CANCELLED"}
    BY <2>2 DEF Change
  <2>4. st = d.status
    BY <1>3, <2>1
  <2> QED BY <1>2, <2>3, <2>4 DEF Live
<1>4. CASE ~ \E d \in c : d.status # "keep"
  BY <1>2, <1>4 DEF Live
<1> QED BY <1>3, <1>4

(* The table after a step: what was there before, less some rows, or what a
   commit makes of it. *)
LEMMA RowsStep ==
  ASSUME TypeOK, [Next]_vars
  PROVE  \/ rows' \subseteq rows
         \/ \E w \in Workers : Commit(w)
<1> SUFFICES ASSUME \A w \in Workers : ~Commit(w) PROVE rows' \subseteq rows
  OBVIOUS
<1>1. ASSUME NEW u \in Users, DeleteUser(u) PROVE rows' \subseteq rows
  BY <1>1 DEF DeleteUser
<1>2. CASE UNCHANGED vars
  BY <1>2 DEF vars
<1>3. CASE \E w \in Workers : Operator(w)
  BY <1>3 DEF Operator, AdminStart, database
<1>4. ASSUME NEW w \in Workers, Proceed(w) PROVE rows' = rows
  BY <1>4 DEF Proceed, GrantFlush, RefundSelect, ReconcileSelect, ReconcileInsert,
              AdminRefundRow, AdminGrantUser, AdminRevokeUser, CommitFails, Acknowledge, database
<1>5. ASSUME NEW w \in Workers, Failure(w) PROVE rows' = rows
  BY <1>5 DEF Failure, AnswerLost, Crash, database
<1>6. ASSUME NEW p \in Payments, Deliver(p) \/ DeliverRefund(p) PROVE rows' = rows
  BY <1>6 DEF Deliver, DeliverRefund, TelegramWebhook, YukassaWebhook, RefundWebhook, database
<1>7. CASE Provider
  BY <1>7 DEF Provider, Settle, CabinetRefund, database
<1>8. CASE Tick
  BY <1>8 DEF Tick, database
<1>9. ASSUME NEW u \in Users, UpsertMe(u) PROVE rows' = rows
  BY <1>9 DEF UpsertMe
<1> QED BY <1>1, <1>2, <1>3, <1>4, <1>5, <1>6, <1>7, <1>8, <1>9 DEF Next, Accounts

LEMMA EndedStep ==
  ASSUME IInv, [Next]_vars, NEW r \in rows, NEW s \in rows', r.key = s.key, ~Live(r)
  PROVE  ~Live(s)
<1>1. TypeOK /\ OneRowPerPayment
  BY DEF IInv
<1>2. CASE rows' \subseteq rows
  BY <1>1, <1>2 DEF OneRowPerPayment
<1>3. ASSUME NEW w \in Workers, Commit(w) PROVE ~Live(s)
  <2>1. s \in {Changed(t, upd[w]) : t \in rows} \cup ins[w]
    BY <1>3 DEF Commit
  <2>2. s \notin ins[w]
    BY <1>3 DEF Commit, CanCommit, Free, Keyed
  <2>3. PICK t \in rows : s = Changed(t, upd[w])
    BY <2>1, <2>2
  <2>4. t \in Row /\ upd[w] \in SUBSET Change
    BY <1>1 DEF TypeOK
  <2>5. t.key = r.key
    BY <2>3, <2>4, ChangedType
  <2>6. t = r
    BY <2>5, <1>1 DEF OneRowPerPayment
  <2> QED BY <2>3, <2>4, <2>6, ChangedEnds
<1> QED BY <1>1, <1>2, <1>3, RowsStep

(* No webhook, extension or stale session revives a row that has ended or
   adds a live one for the same payment, whatever the number of sessions. *)
THEOREM EndIsFinal == Spec => EndedStaysEnded
<1>1. IInv /\ [Next]_vars =>
        [\A r \in rows, s \in rows' : r.key = s.key /\ ~Live(r) => ~Live(s)]_vars
  BY EndedStep
<1> QED BY <1>1, Invariance, PTL DEF Spec, EndedStaysEnded

-----------------------------------------------------------------------------
(* The refinement of Access *)

PaidSet  == {p \in Payments : settled[p] = "paid"}
LiveSet  == {p \in Payments : \E r \in Keyed(p) : Live(r)}
EndedSet == {p \in Payments : \E r \in Keyed(p) : ~Live(r)}

(* A session either adds rows of payments or changes rows, and what it adds
   is live: no commit opens one payment and closes another. *)
SessionInv ==
  \A w \in Workers :
    /\ upd[w] # {} =>
         /\ pc[w] \in {"admin", "commit"}
         /\ req[w].kind \in {"refund", "admin_refund", "grant_year", "revoke"}
    /\ \A r \in ins[w] :
         Live(r) /\ (r.key \in Payments => req[w].kind \in {"payment", "reconcile"})

LEMMA SessionInit == Init => SessionInv
BY DEF Init, SessionInv

(* The session of one handler; the others keep theirs. *)
LEMMA SessionFrame ==
  ASSUME TypeOK, SessionInv, NEW w \in Workers,
         \A v \in Workers \ {w} :
           pc'[v] = pc[v] /\ req'[v] = req[v] /\ upd'[v] = upd[v] /\ ins'[v] = ins[v],
         upd'[w] # {} =>
           /\ pc'[w] \in {"admin", "commit"}
           /\ req'[w].kind \in {"refund", "admin_refund", "grant_year", "revoke"},
         \A r \in ins'[w] :
           Live(r) /\ (r.key \in Payments => req'[w].kind \in {"payment", "reconcile"})
  PROVE  SessionInv'
BY DEF SessionInv, Live

(* What a grant adds is live. *)
LEMMA GrantLive ==
  ASSUME NEW p, NEW i
  PROVE  Live(Grant(i, p)) /\ Grant(i, p).key = p
BY DEF Grant, Live

LEMMA SessionStep ==
  ASSUME IInv, SessionInv, [Next]_vars
  PROVE  SessionInv'
<1>t. TypeOK /\ PendingInv /\ GrantInv
  BY DEF IInv
<1>1. ASSUME UNCHANGED <<pc, req, ins, upd>> PROVE SessionInv'
  BY <1>1 DEF SessionInv, Live
<1>2. CASE Provider \/ Accounts \/ Tick \/ UNCHANGED vars
  BY <1>1, <1>2 DEF Provider, Settle, CabinetRefund, Accounts, UpsertMe, DeleteUser, Tick,
                    session, vars
<1>3. ASSUME NEW w \in Workers, NEW kind, NEW todo, NEW at,
             Begin(w, kind, todo, at), UNCHANGED session
      PROVE  SessionInv'
  <2>1. upd[w] = {} /\ ins[w] = {}
    BY <1>3, <1>t DEF Begin, SessionInv, PendingInv
  <2>2. \A v \in Workers \ {w} : pc'[v] = pc[v] /\ req'[v] = req[v]
    BY <1>3, <1>t DEF Begin, TypeOK
  <2> QED BY <1>3, <1>t, <2>1, <2>2, SessionFrame DEF session
<1>4. ASSUME NEW p \in Payments, Deliver(p) \/ DeliverRefund(p) PROVE SessionInv'
  BY <1>3, <1>4 DEF Deliver, DeliverRefund, TelegramWebhook, YukassaWebhook, RefundWebhook
<1>5. ASSUME NEW w \in Workers, Operator(w) PROVE SessionInv'
  BY <1>3, <1>5 DEF Operator, AdminStart
<1>6. ASSUME NEW w \in Workers, NEW p \in Payments, GrantFlush(w, p) PROVE SessionInv'
  <2>1. pc[w] = "grant" /\ req[w].kind = "payment" /\ UNCHANGED <<req, upd>>
    BY <1>6, <1>t DEF GrantFlush, GrantInv
  <2>2. upd'[w] = {} /\ ins[w] = {}
    BY <2>1, <1>t DEF SessionInv, PendingInv
  <2>3. \A v \in Workers \ {w} : pc'[v] = pc[v] /\ ins'[v] = ins[v]
    BY <1>6, <1>t DEF GrantFlush, TypeOK
  <2>4. \A r \in ins'[w] : \E i \in RowIds : r = Grant(i, p)
    BY <1>6, <1>t, <2>2 DEF GrantFlush, TypeOK
  <2> QED BY <1>t, <2>1, <2>2, <2>3, <2>4, GrantLive, SessionFrame
<1>7. ASSUME NEW w \in Workers, NEW p \in Payments, RefundSelect(w, p) PROVE SessionInv'
  <2>1. pc[w] = "revoke" /\ req[w].kind = "refund" /\ UNCHANGED <<req, ins>> /\ pc'[w] = "commit"
    BY <1>7, <1>t DEF RefundSelect, GrantInv, TypeOK
  <2>2. ins'[w] = {}
    BY <2>1, <1>t DEF PendingInv
  <2>3. \A v \in Workers \ {w} : pc'[v] = pc[v] /\ upd'[v] = upd[v]
    BY <1>7, <1>t DEF RefundSelect, TypeOK
  <2> QED BY <1>t, <2>1, <2>2, <2>3, SessionFrame
<1>8. ASSUME NEW w \in Workers, NEW key, Processed(w, key)
      PROVE  /\ pc[w] = "admin" /\ pc'[w] \in {"admin", "commit"} /\ req'[w].kind = req[w].kind
             /\ \A v \in Workers \ {w} : pc'[v] = pc[v] /\ req'[v] = req[v]
  BY <1>8, <1>t DEF Processed, TypeOK, Request
<1>9. ASSUME NEW w \in Workers, NEW i \in RowIds, AdminRefundRow(w, i) PROVE SessionInv'
  <2>1. /\ Processed(w, i) /\ req[w].kind = "admin_refund" /\ UNCHANGED ins
        /\ \A v \in Workers \ {w} : upd'[v] = upd[v]
    BY <1>9, <1>t DEF AdminRefundRow, TypeOK
  <2> QED BY <1>t, <1>8, <2>1, SessionFrame DEF SessionInv
<1>10. ASSUME NEW w \in Workers, NEW u \in Users, AdminGrantUser(w, u) PROVE SessionInv'
  <2>1. /\ Processed(w, u) /\ req[w].kind = "grant_year"
        /\ \A v \in Workers \ {w} : upd'[v] = upd[v] /\ ins'[v] = ins[v]
    BY <1>10, <1>t DEF AdminGrantUser, TypeOK
  <2>2. \A r \in ins'[w] : r \in ins[w] \/ (r.key \in GiftKeys /\ r.status = "ACTIVE")
    <3>1. <<u, req[w].at>> \in GiftKeys
      BY <1>t DEF GiftKeys, TypeOK, Request
    <3> QED BY <1>10, <1>t, <3>1 DEF AdminGrantUser, TypeOK
  <2>3. \A r \in ins'[w] : Live(r) /\ r.key \notin Payments
    BY <2>1, <2>2, PaymentsAssumption DEF SessionInv, Live
  <2> QED BY <1>t, <1>8, <2>1, <2>3, SessionFrame
<1>11. ASSUME NEW w \in Workers, NEW u \in Users, AdminRevokeUser(w, u) PROVE SessionInv'
  <2>1. /\ Processed(w, u) /\ req[w].kind = "revoke" /\ UNCHANGED ins
        /\ \A v \in Workers \ {w} : upd'[v] = upd[v]
    BY <1>11, <1>t DEF AdminRevokeUser, TypeOK
  <2> QED BY <1>t, <1>8, <2>1, SessionFrame DEF SessionInv
<1>12. ASSUME NEW w \in Workers, NEW p \in Payments, ReconcileSelect(w, p) PROVE SessionInv'
  <2>1. req[w].kind = "reconcile" /\ UNCHANGED session
    BY <1>12 DEF ReconcileSelect
  <2>2. upd'[w] = {} /\ \A r \in ins'[w] : Live(r)
    BY <2>1 DEF session, SessionInv
  <2>3. CASE Processed(w, p)
    BY <1>t, <1>8, <2>1, <2>2, <2>3, SessionFrame DEF session
  <2>4. CASE ~Processed(w, p)
    <3>1. req' = [req EXCEPT ![w].pick = {p}] /\ pc' = [pc EXCEPT ![w] = "insert"]
      BY <1>12, <2>4 DEF ReconcileSelect
    <3>2. /\ req'[w].kind = "reconcile"
          /\ \A v \in Workers \ {w} : pc'[v] = pc[v] /\ req'[v] = req[v]
      BY <1>t, <2>1, <3>1 DEF TypeOK, Request
    <3> QED BY <1>t, <2>1, <2>2, <3>2, SessionFrame DEF session
  <2> QED BY <2>3, <2>4
<1>13. ASSUME NEW w \in Workers, NEW p \in Payments, ReconcileInsert(w, p) PROVE SessionInv'
  <2>1. pc[w] = "insert" /\ req[w].kind = "reconcile" /\ UNCHANGED upd
    BY <1>13, <1>t DEF ReconcileInsert, GrantInv
  <2>2. upd'[w] = {}
    BY <2>1 DEF SessionInv
  <2>3. /\ req'[w].kind = "reconcile"
        /\ \A v \in Workers \ {w} : pc'[v] = pc[v] /\ req'[v] = req[v] /\ ins'[v] = ins[v]
    BY <1>13, <1>t, <2>1 DEF ReconcileInsert, TypeOK, Request
  <2>4. \A r \in ins'[w] : r \in ins[w] \/ \E i \in RowIds : r = Grant(i, p)
    BY <1>13, <1>t DEF ReconcileInsert, TypeOK
  <2>5. \A r \in ins'[w] : Live(r)
    BY <2>4, GrantLive DEF SessionInv
  <2> QED BY <1>t, <2>1, <2>2, <2>3, <2>5, SessionFrame
<1>14. ASSUME NEW w \in Workers, Commit(w) \/ CommitFails(w) \/ Crash(w) PROVE SessionInv'
  <2>1. /\ ins'[w] = {} /\ upd'[w] = {}
        /\ \A v \in Workers \ {w} :
             pc'[v] = pc[v] /\ req'[v] = req[v] /\ upd'[v] = upd[v] /\ ins'[v] = ins[v]
    BY <1>14, <1>t DEF Commit, CommitFails, Crash, EndSession, Return, TypeOK
  <2> QED BY <1>t, <2>1, SessionFrame
<1>15. ASSUME NEW w \in Workers, Acknowledge(w) \/ AnswerLost(w) PROVE SessionInv'
  <2>1. /\ pc[w] = "ack" /\ UNCHANGED session
        /\ \A v \in Workers \ {w} : pc'[v] = pc[v] /\ req'[v] = req[v]
    BY <1>15, <1>t DEF Acknowledge, AnswerLost, Return, TypeOK
  <2>2. ins'[w] = {} /\ upd'[w] = {}
    BY <1>t, <2>1 DEF session, SessionInv, PendingInv
  <2> QED BY <1>t, <2>1, <2>2, SessionFrame DEF session
<1> QED
  BY <1>2, <1>4, <1>5, <1>6, <1>7, <1>9, <1>10, <1>11, <1>12, <1>13, <1>14, <1>15
  DEF Next, Proceed, Failure

(* An UPDATE that changes nothing. *)
LEMMA ChangedByNothing ==
  ASSUME NEW r \in Row
  PROVE  Changed(r, {}) = r
<1>1. Changed(r, {}) = [r EXCEPT !.status = r.status, !.expires = r.expires]
  BY DEF Changed
<1> QED BY <1>1 DEF Row

LEMMA AccessInit == Init => Access!Init
BY DEF Init, Access!Init, Keyed

(* Access moves with the rows and the provider's payments only. *)
LEMMA AccessFrame ==
  ASSUME UNCHANGED <<rows, settled>>
  PROVE  UNCHANGED Access!vars
BY DEF Access!vars, Keyed, Live

(* Deleting a user forgets the payments that have rows of that user. *)
LEMMA AccessForget ==
  ASSUME IInv, NEW u \in Users, DeleteUser(u)
  PROVE  Access!Forget \/ UNCHANGED Access!vars
<1> DEFINE S == {p \in Payments : \E r \in Keyed(p) : r.user = u}
<1>1. rows' = {r \in rows : r.user # u} /\ UNCHANGED settled
  BY DEF DeleteUser, provider
<1>2. S \subseteq LiveSet \cup EndedSet
  BY DEF LiveSet, EndedSet
<1>3. LiveSet' = LiveSet \ S /\ EndedSet' = EndedSet \ S
  BY <1>1 DEF IInv, OneRowPerPayment, Keyed, LiveSet, EndedSet, Live
<1>4. PaidSet' = PaidSet
  BY <1>1 DEF PaidSet
<1> HIDE DEF S
<1>5. CASE S = {}
  BY <1>3, <1>4, <1>5 DEF Access!vars, PaidSet, LiveSet, EndedSet
<1>6. CASE S # {}
  <2>1. S \in (SUBSET (LiveSet \cup EndedSet)) \ {{}}
    BY <1>2, <1>6
  <2> QED BY <2>1, <1>3, <1>4 DEF Access!Forget, PaidSet, LiveSet, EndedSet
<1> QED BY <1>5, <1>6

(* A commit without changes opens the payments its new rows are for. *)
LEMMA AccessOpen ==
  ASSUME IInv, SessionInv, NEW w \in Workers, Commit(w), upd[w] = {}
  PROVE  Access!Open \/ UNCHANGED Access!vars
<1> DEFINE S == {p \in Payments : \E r \in ins[w] : r.key = p}
<1>t. TypeOK /\ PendingInv
  BY DEF IInv
<1>1. rows' = rows \cup ins[w] /\ UNCHANGED settled
  <2>1. {Changed(r, {}) : r \in rows} = rows
    BY <1>t, ChangedByNothing DEF TypeOK
  <2> QED BY <2>1 DEF Commit, provider
<1>2. \A r \in ins[w] : Live(r) /\ Keyed(r.key) = {}
  BY DEF SessionInv, Commit, CanCommit, Free
<1>3. S \subseteq PaidSet \ (LiveSet \cup EndedSet)
  BY <1>t, <1>2 DEF PendingInv, PaidFor, PaidSet, LiveSet, EndedSet
<1>4. LiveSet' = LiveSet \cup S
  BY <1>1, <1>2 DEF Keyed, LiveSet, Live
<1>5. EndedSet' = EndedSet
  BY <1>1, <1>2 DEF Keyed, EndedSet, Live
<1>6. PaidSet' = PaidSet
  BY <1>1 DEF PaidSet
<1> HIDE DEF S
<1>7. CASE S = {}
  BY <1>4, <1>5, <1>6, <1>7 DEF Access!vars, PaidSet, LiveSet, EndedSet
<1>8. CASE S # {}
  <2>1. S \in (SUBSET (PaidSet \ (LiveSet \cup EndedSet))) \ {{}}
    BY <1>3, <1>8
  <2> QED BY <2>1, <1>4, <1>5, <1>6 DEF Access!Open, PaidSet, LiveSet, EndedSet
<1> QED BY <1>7, <1>8

(* A commit with changes adds no row of a payment, and closes the payments
   whose row it ends. *)
LEMMA AccessClose ==
  ASSUME IInv, SessionInv, NEW w \in Workers, Commit(w), upd[w] # {}
  PROVE  Access!Close \/ UNCHANGED Access!vars
<1> DEFINE after(r) == Changed(r, upd[w])
           S == {p \in Payments : \E r \in Keyed(p) : Live(r) /\ ~Live(after(r))}
<1>t. TypeOK /\ OneRowPerPayment
  BY DEF IInv
<1>1. rows' = {after(r) : r \in rows} \cup ins[w] /\ UNCHANGED settled
  BY DEF Commit, provider
<1>2. \A r \in ins[w] : r.key \notin Payments
  BY DEF SessionInv
<1>3. \A r \in rows : after(r).key = r.key /\ (~Live(r) => ~Live(after(r)))
  <2>1. \A r \in rows : r \in Row
    BY <1>t DEF TypeOK
  <2>2. upd[w] \in SUBSET Change
    BY <1>t DEF TypeOK
  <2> QED BY <2>1, <2>2, ChangedType, ChangedEnds
<1> HIDE DEF after
<1>4. \A p \in Payments : Keyed(p)' = {after(r) : r \in Keyed(p)}
  BY <1>1, <1>2, <1>3 DEF Keyed
<1>5. \A p \in Payments : \A r, s \in Keyed(p) : r = s
  BY <1>t DEF OneRowPerPayment, Keyed
<1>6. S \subseteq LiveSet
  BY DEF LiveSet
<1>7. LiveSet' = LiveSet \ S
  <2>1. LiveSet' = {p \in Payments : \E s \in Keyed(p)' : Live(s)}
    BY DEF LiveSet, Live
  <2>2. \A r \in rows : Live(after(r)) => Live(r)
    BY <1>3
  <2>3. \A p \in Payments : \A r \in Keyed(p) : r \in rows
    BY DEF Keyed
  <2>4. \A p \in Payments :
          (\E s \in Keyed(p)' : Live(s)) <=> \E r \in Keyed(p) : Live(after(r))
    BY <1>4
  <2> QED BY <1>5, <2>1, <2>2, <2>3, <2>4 DEF LiveSet
<1>8. EndedSet' = EndedSet \cup S
  <2>1. EndedSet' = {p \in Payments : \E s \in Keyed(p)' : ~Live(s)}
    BY DEF EndedSet, Live
  <2>2. \A p \in Payments : \A r \in Keyed(p) : r \in rows
    BY DEF Keyed
  <2>3. \A p \in Payments :
          (\E s \in Keyed(p)' : ~Live(s)) <=> \E r \in Keyed(p) : ~Live(after(r))
    BY <1>4
  <2> QED BY <1>3, <2>1, <2>2, <2>3 DEF EndedSet
<1>9. PaidSet' = PaidSet
  BY <1>1 DEF PaidSet
<1> HIDE DEF S
<1>10. CASE S = {}
  BY <1>7, <1>8, <1>9, <1>10 DEF Access!vars, PaidSet, LiveSet, EndedSet
<1>11. CASE S # {}
  <2>1. S \in (SUBSET LiveSet) \ {{}}
    BY <1>6, <1>11
  <2> QED BY <2>1, <1>7, <1>8, <1>9 DEF Access!Close, PaidSet, LiveSet, EndedSet
<1> QED BY <1>10, <1>11

(* Every step of the money path is a step of Access or none. *)
LEMMA AccessStep ==
  ASSUME IInv, SessionInv, [Next]_vars
  PROVE  [Access!Next]_(Access!vars)
<1>1. ASSUME NEW p \in Payments, NEW how \in {"paid", "canceled"}, Settle(p, how)
      PROVE  [Access!Next]_(Access!vars)
  <2>1. settled[p] = "open" /\ settled' = [settled EXCEPT ![p] = how] /\ rows' = rows
    BY <1>1 DEF Settle, database
  <2>2. settled \in [Payments -> {"open", "paid", "canceled"}]
    BY DEF IInv, TypeOK
  <2>3. LiveSet' = LiveSet /\ EndedSet' = EndedSet
    BY <2>1 DEF LiveSet, EndedSet, Keyed, Live
  <2>4. CASE how = "paid"
    <3>1. PaidSet' = PaidSet \cup {p} /\ p \in Payments \ PaidSet
      BY <2>1, <2>2, <2>4 DEF PaidSet
    <3> QED BY <2>3, <3>1 DEF Access!Next, Access!Pay, PaidSet, LiveSet, EndedSet
  <2>5. CASE how = "canceled"
    <3>1. PaidSet' = PaidSet
      BY <2>1, <2>2, <2>5 DEF PaidSet
    <3> QED BY <2>3, <3>1 DEF Access!vars, PaidSet, LiveSet, EndedSet
  <2> QED BY <2>4, <2>5
<1>2. ASSUME NEW u \in Users, DeleteUser(u) PROVE [Access!Next]_(Access!vars)
  BY <1>2, AccessForget DEF Access!Next
<1>3. ASSUME NEW w \in Workers, Commit(w) PROVE [Access!Next]_(Access!vars)
  BY <1>3, AccessOpen, AccessClose DEF Access!Next
<1>4. CASE UNCHANGED vars
  BY <1>4, AccessFrame DEF vars
<1>5. ASSUME NEW p \in Payments, CabinetRefund(p) \/ Deliver(p) \/ DeliverRefund(p)
      PROVE  UNCHANGED Access!vars
  BY <1>5, AccessFrame DEF CabinetRefund, Deliver, DeliverRefund, TelegramWebhook, YukassaWebhook,
                           RefundWebhook, database, provider
<1>6. ASSUME Tick \/ \E u \in Users : UpsertMe(u) PROVE UNCHANGED Access!vars
  BY <1>6, AccessFrame DEF Tick, UpsertMe, database, provider
<1>7. ASSUME NEW w \in Workers, Operator(w) \/ Failure(w) PROVE UNCHANGED Access!vars
  BY <1>7, AccessFrame DEF Operator, AdminStart, Failure, AnswerLost, Crash, database, provider
<1>8. ASSUME NEW w \in Workers, Proceed(w), ~Commit(w) PROVE UNCHANGED Access!vars
  BY <1>8, AccessFrame
  DEF Proceed, GrantFlush, RefundSelect, ReconcileSelect, ReconcileInsert, AdminRefundRow,
      AdminGrantUser, AdminRevokeUser, CommitFails, Acknowledge, database, provider
<1> QED BY <1>1, <1>2, <1>3, <1>4, <1>5, <1>6, <1>7, <1>8 DEF Next, Provider, Accounts

(* The handlers, sessions and notices implement Access: access opens after
   the payment, once, and what a refund or an operator closes stays closed. *)
THEOREM ImplementsAccess == Spec => AccessSpec
<1>1. Init => Access!Init /\ SessionInv
  BY AccessInit, SessionInit
<1>2. IInv /\ SessionInv /\ [Next]_vars => SessionInv' /\ [Access!Next]_(Access!vars)
  BY SessionStep, AccessStep
<1> QED BY <1>1, <1>2, Invariance, PTL DEF Spec, AccessSpec, Access!Spec

-----------------------------------------------------------------------------
(* Refunds.  A refund asked for in the cabinet may overtake the grant of its
   payment, and a deleted buyer loses the row that keeps a repeated
   notification out; without either, an answered refund has been applied. *)

RefundsAreOurs ==
  /\ CabinetRefunds = {}
  /\ \A p \in YukassaPayments : Buyer[p] \notin Deletable

(* Money goes back for a payment that has its row, and the row stays.  A
   handler about to commit a refund holds an end for each live row, one about
   to answer has none left. *)
RefundInv ==
  /\ \A p \in Payments : <<"refund", p>> \in notices => p \in refunded
  /\ \A p \in refunded : Keyed(p) # {}
  /\ RefundedIsRevoked
  /\ \A w \in Workers : req[w].kind = "refund" => \A p \in req[w].todo \cap Payments :
       /\ p \in refunded /\ req[w].todo \cap Payments = {p}
       /\ pc[w] = "commit" => \A r \in Keyed(p) : Live(r) =>
            \E c \in upd[w] : c.id = r.id /\ c.status # "keep"
       /\ pc[w] = "ack" => \A r \in Keyed(p) : ~Live(r)

LEMMA RefundInit == Init => RefundInv
BY DEF Init, RefundInv, RefundedIsRevoked, NoRequest

(* What one handler does matters to the invariant only through its own part,
   as long as rows, refunds and refund notices stay. *)
LEMMA RefundFrame ==
  ASSUME TypeOK, RefundInv, NEW w \in Workers, UNCHANGED <<rows, refunded>>,
         \A p \in Payments : <<"refund", p>> \in notices' <=> <<"refund", p>> \in notices,
         \A v \in Workers \ {w} : pc'[v] = pc[v] /\ req'[v] = req[v] /\ upd'[v] = upd[v],
         req'[w].kind = "refund" => \A p \in req'[w].todo \cap Payments :
           /\ p \in refunded /\ req'[w].todo \cap Payments = {p}
           /\ pc'[w] = "commit" => \A r \in Keyed(p) : Live(r) =>
                \E c \in upd'[w] : c.id = r.id /\ c.status # "keep"
           /\ pc'[w] = "ack" => \A r \in Keyed(p) : ~Live(r)
  PROVE  RefundInv'
<1>1. \A k : Keyed(k)' = Keyed(k)
  BY DEF Keyed
<1>2. RefundedIsRevoked' /\ \A p \in refunded' : Keyed(p)' # {}
  <2>1. refunded \subseteq Payments
    BY DEF TypeOK, Payments
  <2> QED BY <1>1, <2>1 DEF RefundInv, RefundedIsRevoked, Live
<1>3. \A v \in Workers : req'[v].kind = "refund" => \A p \in req'[v].todo \cap Payments :
           /\ p \in refunded' /\ req'[v].todo \cap Payments = {p}
           /\ pc'[v] = "commit" => \A r \in Keyed(p)' : Live(r) =>
                \E c \in upd'[v] : c.id = r.id /\ c.status # "keep"
           /\ pc'[v] = "ack" => \A r \in Keyed(p)' : ~Live(r)
  BY <1>1 DEF RefundInv
<1> QED BY <1>2, <1>3 DEF RefundInv, Live

LEMMA RefundStep ==
  ASSUME RefundsAreOurs, IInv, RefundInv, [Next]_vars
  PROVE  RefundInv'
<1>t. TypeOK /\ RowsArePaidFor /\ OneRowPerPayment /\ GrantInv /\ refunded \subseteq Payments
  BY DEF IInv, TypeOK, Payments
<1>k. ASSUME rows' = rows PROVE \A p : Keyed(p)' = Keyed(p)
  BY <1>k DEF Keyed
<1>1. ASSUME NEW p \in Payments, NEW how \in {"paid", "canceled"}, Settle(p, how)
      PROVE  RefundInv'
  <2>1. /\ UNCHANGED <<rows, refunded, pc, req, upd>>
        /\ notices' = notices \cup {<<"payment", p>>}
    BY <1>1 DEF Settle, database, session
  <2> QED BY <2>1, <1>k DEF RefundInv, RefundedIsRevoked, Live
<1>2. ASSUME NEW p \in Payments, CabinetRefund(p)
      PROVE  RefundInv'
  BY <1>2 DEF CabinetRefund, RefundsAreOurs
<1>3. ASSUME NEW u \in Users, DeleteUser(u)
      PROVE  RefundInv'
  <2>1. /\ UNCHANGED <<refunded, notices, pc, req, upd>>
        /\ u \in Deletable
        /\ rows' = {r \in rows : r.user # u}
    BY <1>3 DEF DeleteUser, provider, session
  <2>2. \A p : Keyed(p)' \subseteq Keyed(p)
    BY <2>1 DEF Keyed
  <2>3. \A p \in refunded : Keyed(p)' # {}
    <3>1. ASSUME NEW p \in refunded PROVE Keyed(p)' # {}
      <4>1. PICK r \in rows : r.key = p
        BY DEF RefundInv, Keyed
      <4>2. r.user = Buyer[p] /\ p \in YukassaPayments
        BY <4>1, <1>t DEF RowsArePaidFor, TypeOK
      <4>3. r \in rows'
        BY <2>1, <4>2 DEF RefundsAreOurs
      <4> QED BY <4>1, <4>3 DEF Keyed
    <3> QED BY <3>1
  <2>4. RefundedIsRevoked'
    BY <2>1, <2>2 DEF RefundInv, RefundedIsRevoked, Live
  <2> QED BY <2>1, <2>2, <2>3, <2>4 DEF RefundInv, Live
<1>4. CASE Tick \/ (\E u \in Users : UpsertMe(u)) \/ UNCHANGED vars
  <2>1. UNCHANGED <<rows, refunded, notices, pc, req, upd>>
    BY <1>4 DEF Tick, UpsertMe, vars, database, provider, session
  <2> QED BY <2>1, <1>k DEF RefundInv, RefundedIsRevoked, Live
<1>5. ASSUME NEW w \in Workers, NEW p \in Payments,
             TelegramWebhook(w, p) \/ YukassaWebhook(w, p)
      PROVE  RefundInv'
  <2>1. /\ UNCHANGED <<rows, refunded, notices, upd>>
        /\ \A v \in Workers \ {w} : pc'[v] = pc[v] /\ req'[v] = req[v]
        /\ req'[w].kind = "payment"
    BY <1>5, <1>t DEF TelegramWebhook, YukassaWebhook, Begin, TypeOK, database, provider, session
  <2> QED BY <2>1, <1>t, RefundFrame
<1>6. ASSUME NEW w \in Workers, NEW p \in Payments, RefundWebhook(w, p)
      PROVE  RefundInv'
  <2>1. /\ UNCHANGED <<rows, refunded, notices, upd>>
        /\ \A v \in Workers \ {w} : pc'[v] = pc[v] /\ req'[v] = req[v]
        /\ req'[w].todo = {p} /\ pc'[w] = "revoke" /\ p \in refunded
    BY <1>6, <1>t DEF RefundWebhook, Begin, TypeOK, database, provider, session, RefundInv
  <2> QED BY <2>1, <1>t, RefundFrame
<1>7. ASSUME NEW w \in Workers, Operator(w)
      PROVE  RefundInv'
  <2>1. /\ UNCHANGED <<rows, refunded, notices, upd>>
        /\ \A v \in Workers \ {w} : pc'[v] = pc[v] /\ req'[v] = req[v]
        /\ req'[w].kind # "refund"
    <3>1. PICK kind \in {"admin_refund", "grant_year", "revoke", "reconcile"},
               todo \in {req'[w].todo} : AdminStart(w, kind, todo)
      <4>1. ASSUME NEW kind \in {"admin_refund", "grant_year", "revoke", "reconcile"},
                   NEW todo, AdminStart(w, kind, todo)
            PROVE  todo = req'[w].todo
        BY <4>1, <1>t DEF AdminStart, Begin, TypeOK
      <4> QED BY <1>7, <4>1 DEF Operator
    <3> QED BY <3>1, <1>t DEF AdminStart, Begin, TypeOK, database, provider, session
  <2> QED BY <2>1, <1>t, RefundFrame
<1>8. ASSUME NEW w \in Workers, NEW p \in Payments, GrantFlush(w, p)
      PROVE  RefundInv'
  <2>1. /\ UNCHANGED <<rows, refunded, notices, req, upd>>
        /\ \A v \in Workers \ {w} : pc'[v] = pc[v]
        /\ req[w].kind = "payment"
    BY <1>8, <1>t DEF GrantFlush, TypeOK, GrantInv, database, provider
  <2> QED BY <2>1, <1>t, RefundFrame
<1>9. ASSUME NEW w \in Workers, NEW p \in Payments, RefundSelect(w, p)
      PROVE  RefundInv'
  <2>1. /\ UNCHANGED <<rows, refunded, notices, req>>
        /\ \A v \in Workers \ {w} : pc'[v] = pc[v] /\ upd'[v] = upd[v]
        /\ pc'[w] = "commit" /\ pc[w] = "revoke" /\ p \in req[w].todo
        /\ upd'[w] = {Cut(r, clock) : r \in {s \in Keyed(p) : Live(s)}}
    BY <1>9, <1>t DEF RefundSelect, TypeOK, database, provider
  <2>2. \A r : Cut(r, clock).id = r.id /\ Cut(r, clock).status # "keep"
    BY DEF Cut
  <2>3. \A r \in Keyed(p) : Live(r) => \E c \in upd'[w] : c.id = r.id /\ c.status # "keep"
    BY <2>1, <2>2
  <2>4. req[w].kind = "refund" => req[w].todo \cap Payments = {p}
    BY <2>1 DEF RefundInv
  <2> QED BY <2>1, <2>3, <2>4, <1>t, RefundFrame DEF RefundInv
<1>10. ASSUME NEW w \in Workers, NEW i \in RowIds, AdminRefundRow(w, i)
       PROVE  RefundInv'
  <2>1. /\ rows' = rows
        /\ \A v \in Workers \ {w} : pc'[v] = pc[v] /\ req'[v] = req[v] /\ upd'[v] = upd[v]
        /\ req'[w].kind = "admin_refund"
    <3>1. req[w] \in Request
      BY <1>t DEF TypeOK
    <3>2. req' = [req EXCEPT ![w].todo = @ \ {i}]
      BY <1>10 DEF AdminRefundRow, Processed
    <3>3. req'[w].kind = "admin_refund" /\ \A v \in Workers \ {w} : req'[v] = req[v]
      BY <1>10, <3>1, <3>2, <1>t DEF AdminRefundRow, TypeOK, Request
    <3> QED BY <1>10, <3>3, <1>t DEF AdminRefundRow, Processed, TypeOK, database
  <2>2. CASE UNCHANGED <<refunded, notices, upd>>
    BY <2>1, <2>2, <1>t, RefundFrame
  <2>3. ASSUME NEW r \in rows, r.key \in YukassaPayments \ refunded,
               refunded' = refunded \cup {r.key},
               notices' = notices \cup {<<"refund", r.key>>}
        PROVE  RefundInv'
    <3>1. \A p : Keyed(p)' = Keyed(p)
      BY <2>1, <1>k
    <3>2. r.key \in Payments /\ r \in Keyed(r.key)
      BY <2>3 DEF Payments, Keyed
    <3>3. /\ \A p \in Payments : <<"refund", p>> \in notices' => p \in refunded'
          /\ \A p \in refunded' : Keyed(p)' # {}
      BY <2>3, <3>1, <3>2 DEF RefundInv
    <3>4. RefundedIsRevoked'
      BY <2>3, <3>1 DEF RefundInv, RefundedIsRevoked, Live
    <3> QED BY <2>1, <2>3, <3>1, <3>3, <3>4 DEF RefundInv, Live
  <2> QED BY <1>10, <2>2, <2>3 DEF AdminRefundRow
<1>11. ASSUME NEW w \in Workers, NEW u \in Users, AdminGrantUser(w, u) \/ AdminRevokeUser(w, u)
       PROVE  RefundInv'
  <2>1. /\ UNCHANGED <<rows, refunded, notices>>
        /\ \A v \in Workers \ {w} : upd'[v] = upd[v]
        /\ Processed(w, u) /\ req[w].kind \in {"grant_year", "revoke"}
    BY <1>11, <1>t DEF AdminGrantUser, AdminRevokeUser, TypeOK, database, provider
  <2>2. /\ \A v \in Workers \ {w} : pc'[v] = pc[v] /\ req'[v] = req[v]
        /\ req'[w].kind = req[w].kind
    <3>1. req[w] \in Request
      BY <1>t DEF TypeOK
    <3> QED BY <2>1, <3>1, <1>t DEF Processed, TypeOK, Request
  <2> QED BY <2>1, <2>2, <1>t, RefundFrame
<1>12. ASSUME NEW w \in Workers, NEW p \in Payments, ReconcileSelect(w, p) \/ ReconcileInsert(w, p)
       PROVE  RefundInv'
  <2>1. /\ UNCHANGED <<rows, refunded, notices, upd>>
        /\ req[w].kind = "reconcile" /\ req[w] \in Request
    BY <1>12, <1>t DEF ReconcileSelect, ReconcileInsert, GrantInv, TypeOK, database, provider, session
  <2>2. \A v \in Workers \ {w} : pc'[v] = pc[v] /\ req'[v] = req[v]
    BY <1>12, <1>t DEF ReconcileSelect, ReconcileInsert, Processed, TypeOK
  <2>3. req'[w].kind = "reconcile"
    BY <1>12, <2>1, <1>t DEF ReconcileSelect, ReconcileInsert, Processed, TypeOK, Request
  <2> QED BY <2>1, <2>2, <2>3, <1>t, RefundFrame
<1>13. ASSUME NEW w \in Workers, Commit(w)
       PROVE  RefundInv'
  <2>1. /\ UNCHANGED <<refunded, notices>>
        /\ pc[w] = "commit" /\ CanCommit(w)
        /\ rows' = {Changed(r, upd[w]) : r \in rows} \cup ins[w]
        /\ \A v \in Workers \ {w} : pc'[v] = pc[v] /\ req'[v] = req[v] /\ upd'[v] = upd[v]
        /\ \/ pc'[w] = "ack" /\ req'[w] = req[w]
           \/ req'[w].kind # "refund"
    BY <1>13, <1>t DEF Commit, EndSession, Return, NoRequest, TypeOK, provider
  <2>2. \A r \in rows : /\ Changed(r, upd[w]).key = r.key
                        /\ Changed(r, upd[w]).id = r.id
    BY <1>t, ChangedType DEF TypeOK
  <2>3. \A r \in rows : ~Live(r) => ~Live(Changed(r, upd[w]))
    BY <1>t, ChangedEnds DEF TypeOK
  <2>4. ASSUME NEW p \in refunded, NEW s \in Keyed(p)'
        PROVE  \E r \in Keyed(p) : s = Changed(r, upd[w]) /\ s.id = r.id
    <3>1. s \notin ins[w]
      BY <2>1 DEF CanCommit, Free, Keyed, RefundInv
    <3> QED BY <2>1, <2>2, <2>4, <3>1 DEF Keyed
  <2>5. \A p \in refunded : Keyed(p)' # {}
    BY <2>1, <2>2 DEF Keyed, RefundInv
  <2>6. ASSUME NEW p \in refunded, \A r \in Keyed(p) : ~Live(r)
        PROVE  \A s \in Keyed(p)' : ~Live(s)
    BY <2>3, <2>4, <2>6 DEF Keyed
  <2>7. RefundedIsRevoked'
    BY <2>1, <2>6 DEF RefundInv, RefundedIsRevoked, Live
  <2>8. ASSUME NEW v \in Workers, v # w, NEW p \in req'[v].todo \cap Payments,
               req'[v].kind = "refund"
        PROVE  /\ p \in refunded' /\ req'[v].todo \cap Payments = {p}
               /\ pc'[v] = "commit" => \A s \in Keyed(p)' : Live(s) =>
                    \E c \in upd'[v] : c.id = s.id /\ c.status # "keep"
               /\ pc'[v] = "ack" => \A s \in Keyed(p)' : ~Live(s)
    <3>1. /\ pc'[v] = pc[v] /\ req'[v] = req[v] /\ upd'[v] = upd[v]
          /\ p \in refunded /\ req[v].todo \cap Payments = {p}
          /\ pc[v] = "commit" => \A r \in Keyed(p) : Live(r) =>
               \E c \in upd[v] : c.id = r.id /\ c.status # "keep"
          /\ pc[v] = "ack" => \A r \in Keyed(p) : ~Live(r)
      BY <2>1, <2>8 DEF RefundInv
    <3>2. ASSUME NEW s \in Keyed(p)', Live(s)
          PROVE  \E r \in Keyed(p) : Live(r) /\ s.id = r.id
      BY <2>3, <2>4, <3>1, <3>2 DEF Keyed
    <3> QED BY <2>1, <2>6, <3>1, <3>2
  <2>9. ASSUME NEW p \in req'[w].todo \cap Payments, req'[w].kind = "refund"
        PROVE  /\ pc'[w] = "ack"
               /\ p \in refunded' /\ req'[w].todo \cap Payments = {p}
               /\ \A s \in Keyed(p)' : ~Live(s)
    <3>1. /\ pc'[w] = "ack" /\ req'[w] = req[w] /\ p \in refunded
          /\ req[w].todo \cap Payments = {p}
          /\ \A r \in Keyed(p) : Live(r) => \E c \in upd[w] : c.id = r.id /\ c.status # "keep"
      BY <2>1, <2>9 DEF RefundInv
    <3>2. ASSUME NEW s \in Keyed(p)' PROVE ~Live(s)
      <4>1. PICK r \in Keyed(p) : s = Changed(r, upd[w])
        BY <2>4, <3>1
      <4>2. r \in Row /\ upd[w] \in SUBSET Change
        BY <1>t DEF Keyed, TypeOK
      <4>3. ~Live(r) \/ \E c \in upd[w] : c.id = r.id /\ c.status # "keep"
        BY <3>1
      <4> QED BY <4>1, <4>2, <4>3, ChangedEnds
    <3> QED BY <2>1, <3>1, <3>2
  <2>10. \A v \in Workers : req'[v].kind = "refund" => \A p \in req'[v].todo \cap Payments :
           /\ p \in refunded' /\ req'[v].todo \cap Payments = {p}
           /\ pc'[v] = "commit" => \A s \in Keyed(p)' : Live(s) =>
                \E c \in upd'[v] : c.id = s.id /\ c.status # "keep"
           /\ pc'[v] = "ack" => \A s \in Keyed(p)' : ~Live(s)
    BY <2>8, <2>9
  <2>11. \A p \in Payments : <<"refund", p>> \in notices' => p \in refunded'
    BY <2>1 DEF RefundInv
  <2> QED BY <2>1, <2>5, <2>7, <2>10, <2>11 DEF RefundInv, Live
<1>14. ASSUME NEW w \in Workers, CommitFails(w) \/ AnswerLost(w) \/ Crash(w)
       PROVE  RefundInv'
  <2>1. /\ UNCHANGED <<rows, refunded, notices>>
        /\ \A v \in Workers \ {w} : pc'[v] = pc[v] /\ req'[v] = req[v] /\ upd'[v] = upd[v]
        /\ req'[w].kind # "refund"
    BY <1>14, <1>t DEF CommitFails, AnswerLost, Crash, EndSession, Return, NoRequest, TypeOK,
                       database, provider, session
  <2> QED BY <2>1, <1>t, RefundFrame
<1>15. ASSUME NEW w \in Workers, Acknowledge(w)
       PROVE  RefundInv'
  <2>1. /\ UNCHANGED <<rows, refunded, upd>>
        /\ pc[w] = "ack"
        /\ notices' = notices \ ({req[w].kind} \X req[w].todo)
        /\ \A v \in Workers \ {w} : pc'[v] = pc[v] /\ req'[v] = req[v]
        /\ req'[w].kind # "refund"
    BY <1>15, <1>t DEF Acknowledge, Return, NoRequest, TypeOK, database, session
  <2>2. \A p : Keyed(p)' = Keyed(p)
    BY <2>1, <1>k
  <2>3. RefundedIsRevoked'
    <3>1. ASSUME NEW p \in refunded, <<"refund", p>> \notin notices'
          PROVE  \A r \in Keyed(p) : ~Live(r)
      <4>1. CASE <<"refund", p>> \notin notices
        BY <4>1 DEF RefundInv, RefundedIsRevoked
      <4>2. CASE <<"refund", p>> \in notices
        <5>1. req[w].kind = "refund" /\ p \in req[w].todo \cap Payments
          BY <2>1, <3>1, <4>2, <1>t
        <5> QED BY <2>1, <5>1 DEF RefundInv
      <4> QED BY <4>1, <4>2
    <3> QED BY <2>1, <2>2, <3>1 DEF RefundedIsRevoked, Live
  <2>4. \A v \in Workers : req'[v].kind = "refund" => v # w
    BY <2>1
  <2> QED BY <2>1, <2>2, <2>3, <2>4 DEF RefundInv, Live
<1> QED
  BY <1>1, <1>2, <1>3, <1>4, <1>5, <1>6, <1>7, <1>8, <1>9, <1>10, <1>11, <1>12,
     <1>13, <1>14, <1>15
  DEF Next, Provider, Accounts, Deliver, DeliverRefund, Proceed, Failure

(* Unless refunds come from the cabinet or a buyer is deleted, an answered
   refund has ended every row of its payment, also when the operator's own
   session crashed between moving the money and saving. *)
THEOREM RefundsRevoke ==
  ASSUME RefundsAreOurs
  PROVE  Spec => []RefundedIsRevoked
<1>1. IInv /\ RefundInv /\ [Next]_vars => RefundInv'
  BY RefundStep
<1>2. RefundInv => RefundedIsRevoked
  BY DEF RefundInv
<1> QED BY <1>1, <1>2, RefundInit, Invariance, PTL DEF Spec
=============================================================================
