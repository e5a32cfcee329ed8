------------------------------ MODULE Payments ------------------------------
(***************************************************************************)
(* The money path of the backend: the Telegram Stars and YuKassa webhooks  *)
(* (api/routes/payments.py), the rows they grant (services/payments/       *)
(* stars.py), refunds (services/payments/refunds.py) and the operator's    *)
(* actions that change the same rows (admin.py).                           *)
(*                                                                         *)
(* Every handler runs in its own database session.  What a session reads   *)
(* is what others have committed; what it writes is seen by others when it *)
(* commits.  Between two awaits any other handler may run, and a process   *)
(* may die, which rolls its session back and leaves the provider without   *)
(* an answer.  A provider repeats a notification until it is answered 200, *)
(* possibly to both uvicorn workers at once.                               *)
(***************************************************************************)
EXTENDS Integers, FiniteSets

CONSTANTS
  Users,            \* Telegram accounts
  Strangers,        \* those that have no users row yet
  Deletable,        \* those the operator may delete (UserAdmin.can_delete)
  Workers,          \* concurrent request handlers
  StarsPayments,    \* Telegram charge ids
  YukassaPayments,  \* YuKassa payment ids
  Buyer,            \* payment -> the account access is granted to
  Product,          \* payment -> product id
  OneTime, Plans,   \* PRODUCTS of type "one_time" and "subscription"
  Days,             \* plan -> duration_days
  YearPlan,         \* the plan an operator's gift is written as
  CabinetRefunds,   \* payments refunded from the YuKassa cabinet
  RowIds,           \* primary keys
  MaxClock, MaxAdmin, MaxCrashes  \* bounds on time, admin requests, crashes

Payments  == StarsPayments \cup YukassaPayments
Catalogue == OneTime \cup Plans
GiftKeys  == Users \X (0..MaxClock)   \* "admin-grant-{uid}-{time}"
Keep      == -1     \* a column an UPDATE leaves alone

ASSUME PaymentsAssumption ==
  /\ Strangers \subseteq Users /\ Deletable \subseteq Users
  /\ StarsPayments \cap YukassaPayments = {}
  /\ OneTime \cap Plans = {} /\ YearPlan \in Plans
  /\ Buyer \in [Payments -> Users]
  /\ Days \in [Plans -> Nat \ {0}]
  /\ CabinetRefunds \subseteq YukassaPayments
  /\ RowIds \subseteq Nat
  /\ MaxClock \in Nat /\ MaxAdmin \in Nat /\ MaxCrashes \in Nat
  /\ Payments \cap GiftKeys = {}

VARIABLES
  users,      \* committed rows of the users table
  rows,       \* committed rows of purchases and subscriptions
  clock,      \* days
  settled,    \* provider: how each payment ended
  refunded,   \* provider: payments whose money went back
  notices,    \* provider: notifications not yet answered with 200
  pc, req,    \* per handler: where it is, what it was called with
  ins, upd,   \* per handler: rows its session adds, columns it changes
  adminOps, crashes   \* bounded counters

database == <<users, rows>>
provider == <<settled, refunded, notices>>
session  == <<ins, upd>>
vars == <<users, rows, clock, settled, refunded, notices,
          pc, req, ins, upd, adminOps, crashes>>

Live(r)   == r.status \in {"COMPLETED", "ACTIVE"}
Keyed(k)  == {r \in rows : r.key = k}
Free_NoUnique(k) == TRUE
Free(k)   == Keyed(k) = {}      \* the UNIQUE constraint on the payment id
UsedIds   == {r.id : r \in rows} \cup UNION {{r.id : r \in ins[w]} : w \in Workers}
NoRequest == [kind |-> "none", todo |-> {}, at |-> 0, pick |-> {}, told |-> {}]
Webhook   == {"payment", "refund"}

-----------------------------------------------------------------------------
(* The provider and the clock.  Here and below, a definition whose name has a
   suffix after an underscore is a bug the definition under it could have:
   the properties are checked to tell the two apart. *)

Init ==
  /\ users = Users \ Strangers
  /\ rows = {}
  /\ clock = 0
  /\ settled = [p \in Payments |-> "open"]
  /\ refunded = {}
  /\ notices = {}
  /\ pc = [w \in Workers |-> "idle"]
  /\ req = [w \in Workers |-> NoRequest]
  /\ ins = [w \in Workers |-> {}]
  /\ upd = [w \in Workers |-> {}]
  /\ adminOps = 0
  /\ crashes = 0

(* The bot answers every pre-checkout query with ok, so nothing here stands
   in the way of a payment. *)
Settle(p, how) ==
  /\ settled[p] = "open"
  /\ how = "canceled" => p \in YukassaPayments
  /\ settled' = [settled EXCEPT ![p] = how]
  /\ notices' = notices \cup {<<"payment", p>>}
  /\ UNCHANGED <<database, clock, refunded, pc, req, session, adminOps, crashes>>

CabinetRefund(p) ==
  /\ p \in CabinetRefunds \ refunded
  /\ settled[p] = "paid"
  /\ refunded' = refunded \cup {p}
  /\ notices' = notices \cup {<<"refund", p>>}
  /\ UNCHANGED <<database, clock, settled, pc, req, session, adminOps, crashes>>

Tick ==
  /\ clock < MaxClock
  /\ clock' = clock + 1
  /\ UNCHANGED <<database, provider, pc, req, session, adminOps, crashes>>

(* POST /users/me at every launch of the Mini App. *)
UpsertMe(u) ==
  /\ u \notin users
  /\ users' = users \cup {u}
  /\ UNCHANGED <<rows, clock, provider, pc, req, session, adminOps, crashes>>

(* Deleting a user cascades to the payment rows.  An uncommitted INSERT that
   refers to the user holds a lock on the users row. *)
DeleteUser(u) ==
  /\ u \in Deletable \cap users
  /\ \A w \in Workers : req[w].kind \in {"payment", "reconcile"} =>
       \A r \in ins[w] : r.user # u
  /\ users' = users \ {u}
  /\ rows' = {r \in rows : r.user # u}
  /\ UNCHANGED <<clock, provider, pc, req, session, adminOps, crashes>>

-----------------------------------------------------------------------------
(* Payment webhooks *)

Begin(w, kind, todo, at) ==
  /\ pc[w] = "idle"
  /\ req' = [req EXCEPT ![w] = [kind |-> kind, todo |-> todo, at |-> clock,
                                pick |-> {}, told |-> {}]]
  /\ pc' = [pc EXCEPT ![w] = at]

(* successful_payment: the update itself is trusted. *)
TelegramWebhook_AnswerFirst(w, p) ==
  /\ p \in StarsPayments
  /\ <<"payment", p>> \in notices
  /\ Begin(w, "payment", {p}, "grant")
  /\ notices' = notices \ {<<"payment", p>>}
  /\ UNCHANGED <<database, clock, settled, refunded, session, adminOps, crashes>>
TelegramWebhook(w, p) ==
  /\ p \in StarsPayments
  /\ <<"payment", p>> \in notices
  /\ Begin(w, "payment", {p}, "grant")
  /\ UNCHANGED <<database, clock, provider, session, adminOps, crashes>>

(* payment.*: the payment is fetched again, and only a succeeded one is
   granted; any other state is acknowledged.  A failed fetch answers 502 and
   changes nothing. *)
YukassaWebhook_TrustBody(w, p) ==
  /\ p \in YukassaPayments
  /\ <<"payment", p>> \in notices
  /\ Begin(w, "payment", {p}, "grant")
  /\ UNCHANGED <<database, clock, provider, session, adminOps, crashes>>
YukassaWebhook(w, p) ==
  /\ p \in YukassaPayments
  /\ <<"payment", p>> \in notices
  /\ Begin(w, "payment", {p}, IF settled[p] = "paid" THEN "grant" ELSE "ack")
  /\ UNCHANGED <<database, clock, provider, session, adminOps, crashes>>

(* The row grant_product_access and grant_yukassa_access build. *)
Grant(i, p) ==
  [id |-> i, key |-> p, user |-> Buyer[p], item |-> Product[p],
   status  |-> IF Product[p] \in Plans THEN "ACTIVE" ELSE "COMPLETED",
   expires |-> IF Product[p] \in Plans THEN clock + Days[Product[p]] ELSE 0]

NextId(i) == i \in RowIds \ UsedIds /\ \A j \in RowIds \ UsedIds : i <= j

(* The INSERT of the row and of the payment_ok event.  An uncommitted row
   with the same payment id makes the INSERT wait; a committed one, or a
   missing users row, raises IntegrityError, which the handler answers 200.
   A product that left the catalogue only records the event. *)
GrantFlush(w, p) ==
  /\ pc[w] = "grant"
  /\ p \in req[w].todo
  /\ \A v \in Workers : \A r \in ins[v] : r.key # p
  /\ \/ /\ Buyer[p] \in users
        /\ Product[p] \in Catalogue
        /\ Free(p)
        /\ \E i \in RowIds :
             /\ NextId(i)
             /\ ins' = [ins EXCEPT ![w] = {Grant(i, p)}]
        /\ pc' = [pc EXCEPT ![w] = "commit"]
     \/ /\ Buyer[p] \in users
        /\ Product[p] \notin Catalogue
        /\ pc' = [pc EXCEPT ![w] = "commit"]
        /\ UNCHANGED ins
     \/ /\ Buyer[p] \notin users \/ (Product[p] \in Catalogue /\ ~Free(p))
        /\ pc' = [pc EXCEPT ![w] = "ack"]
        /\ UNCHANGED ins
  /\ UNCHANGED <<database, clock, provider, req, upd, adminOps, crashes>>

-----------------------------------------------------------------------------
(* Refund webhook *)

RefundWebhook_NotOurs(w, p) ==
  /\ <<"refund", p>> \in notices
  /\ Begin(w, "refund", {p}, "ack")
  /\ UNCHANGED <<database, clock, provider, session, adminOps, crashes>>
RefundWebhook(w, p) ==
  /\ <<"refund", p>> \in notices
  /\ Begin(w, "refund", {p}, "revoke")
  /\ UNCHANGED <<database, clock, provider, session, adminOps, crashes>>

(* The columns a refund changes in a row read at time now. *)
Cut_ExpiryOnly(r, now) == [id |-> r.id, status |-> "keep", expires |-> now]
Cut(r, now) ==
  [id |-> r.id,
   status  |-> IF r.item \in Plans THEN "CANCELLED" ELSE "REFUNDED",
   expires |-> IF r.item \in Plans /\ r.expires > now THEN now ELSE Keep]

(* apply_yukassa_refund_to_db reads the rows of the payment. *)
RefundSelect(w, p) ==
  /\ pc[w] = "revoke"
  /\ p \in req[w].todo
  /\ upd' = [upd EXCEPT ![w] = {Cut(r, clock) : r \in {s \in Keyed(p) : Live(s)}}]
  /\ pc' = [pc EXCEPT ![w] = "commit"]
  /\ UNCHANGED <<database, clock, provider, req, ins, adminOps, crashes>>

-----------------------------------------------------------------------------
(* Operator actions: each works through the selected keys and commits once *)

AdminStart(w, kind, todo) ==
  /\ adminOps < MaxAdmin
  /\ adminOps' = adminOps + 1
  /\ Begin(w, kind, todo, "admin")
  /\ UNCHANGED <<database, clock, provider, session, crashes>>

Processed(w, key) ==
  /\ pc[w] = "admin"
  /\ key \in req[w].todo
  /\ req' = [req EXCEPT ![w].todo = @ \ {key}]
  /\ pc' = [pc EXCEPT ![w] = IF req[w].todo = {key} THEN "commit" ELSE @]

(* refund_yukassa and refund_yukassa_sub, one selected row: Stars rows, gifts
   and rows already ended are skipped.  The provider refuses to refund twice;
   an error from create_refund skips the row even when the money did move. *)
AdminRefundRow(w, i) ==
  /\ req[w].kind = "admin_refund"
  /\ Processed(w, i)
  /\ \/ UNCHANGED <<refunded, notices, upd>>
     \/ \E r \in rows :
          /\ r.id = i /\ Live(r)
          /\ r.key \in YukassaPayments \ refunded
          /\ refunded' = refunded \cup {r.key}
          /\ notices' = notices \cup {<<"refund", r.key>>}
          /\ \/ upd' = [upd EXCEPT ![w] = @ \cup {Cut(r, req[w].at)}]
             \/ UNCHANGED upd
  /\ UNCHANGED <<database, clock, settled, ins, adminOps, crashes>>

Extend(r) ==
  [id |-> r.id, status |-> "keep", expires |-> r.expires + Days[YearPlan]]

(* grant_premium_year: extend the ACTIVE subscription that lasts longest if
   it has not expired, else add one. *)
AdminGrantUser(w, u) ==
  LET active == {r \in rows : r.user = u /\ r.status = "ACTIVE"}
      now    == req[w].at
  IN /\ req[w].kind = "grant_year"
     /\ Processed(w, u)
     /\ \/ \E r \in active :
             /\ \A s \in active : s.expires <= r.expires
             /\ r.expires > now
             /\ upd' = [upd EXCEPT ![w] = @ \cup {Extend(r)}]
             /\ UNCHANGED ins
        \/ /\ \A r \in active : r.expires <= now
           /\ \E i \in RowIds :
                /\ NextId(i)
                /\ ins' = [ins EXCEPT ![w] = @ \cup
                     {[id |-> i, key |-> <<u, now>>, user |-> u, item |-> YearPlan,
                       status |-> "ACTIVE", expires |-> now + Days[YearPlan]]}]
           /\ UNCHANGED upd
     /\ UNCHANGED <<database, clock, provider, adminOps, crashes>>

AdminRevokeUser(w, u) ==
  /\ req[w].kind = "revoke"
  /\ Processed(w, u)
  /\ upd' = [upd EXCEPT ![w] = @ \cup
       {[id |-> r.id, status |-> "CANCELLED", expires |-> Keep] :
          r \in {s \in rows : s.user = u /\ s.status = "ACTIVE"}}]
  /\ UNCHANGED <<database, clock, provider, ins, adminOps, crashes>>

-----------------------------------------------------------------------------
(* Stars reconciliation: a session that walks through the transactions it
   fetched, replays the grant of each that has no row, and commits once *)

(* Has the charge a row?  If not, and its product is known, it is picked. *)
ReconcileSelect(w, p) ==
  /\ req[w].kind = "reconcile"
  /\ \/ /\ Keyed(p) # {} \/ Product[p] \notin Catalogue
        /\ Processed(w, p)
     \/ /\ Keyed(p) = {} /\ Product[p] \in Catalogue
        /\ pc[w] = "admin"
        /\ p \in req[w].todo
        /\ pc' = [pc EXCEPT ![w] = "insert"]
        /\ req' = [req EXCEPT ![w].pick = {p}]
  /\ UNCHANGED <<database, clock, provider, session, adminOps, crashes>>

(* The INSERT, counted as granted.  IntegrityError rolls the session back,
   and with it what the loop has added so far. *)
ReconcileInsert(w, p) ==
  /\ pc[w] = "insert"
  /\ p \in req[w].pick
  /\ \A v \in Workers : \A r \in ins[v] : r.key # p
  /\ \/ /\ Buyer[p] \in users /\ Free(p)
        /\ \E i \in RowIds :
             /\ NextId(i)
             /\ ins' = [ins EXCEPT ![w] = @ \cup {Grant(i, p)}]
        /\ req' = [req EXCEPT ![w].todo = @ \ {p}, ![w].pick = {},
                              ![w].told = @ \cup {p}]
     \/ /\ Buyer[p] \notin users \/ ~Free(p)
        /\ ins' = [ins EXCEPT ![w] = {}]
        /\ req' = [req EXCEPT ![w].todo = @ \ {p}, ![w].pick = {}]
  /\ pc' = [pc EXCEPT ![w] = IF req[w].todo = {p} THEN "commit" ELSE "admin"]
  /\ UNCHANGED <<database, clock, provider, upd, adminOps, crashes>>

-----------------------------------------------------------------------------
(* Commit, answer, crash *)

Changed(r, C) ==
  LET c == {d \in C : d.id = r.id}
  IN [r EXCEPT
       !.status  = IF \E d \in c : d.status # "keep"
                   THEN (CHOOSE d \in c : d.status # "keep").status ELSE @,
       !.expires = IF \E d \in c : d.expires # Keep
                   THEN (CHOOSE d \in c : d.expires # Keep).expires ELSE @]

(* An UPDATE of a row that is gone, an INSERT for a missing user or with a
   key that is taken fails the whole transaction. *)
CanCommit(w) ==
  /\ \A r \in ins[w] : r.user \in users /\ Free(r.key)
  /\ \A c \in upd[w] : \E r \in rows : r.id = c.id

EndSession(w) ==
  /\ ins' = [ins EXCEPT ![w] = {}]
  /\ upd' = [upd EXCEPT ![w] = {}]

Return(w) ==
  /\ pc' = [pc EXCEPT ![w] = "idle"]
  /\ req' = [req EXCEPT ![w] = NoRequest]

Commit(w) ==
  /\ pc[w] = "commit"
  /\ CanCommit(w)
  /\ rows' = {Changed(r, upd[w]) : r \in rows} \cup ins[w]
  /\ EndSession(w)
  /\ \/ /\ req[w].kind \in Webhook
        /\ pc' = [pc EXCEPT ![w] = "ack"]
        /\ UNCHANGED req
     \/ /\ req[w].kind \notin Webhook
        /\ Return(w)
  /\ UNCHANGED <<users, clock, provider, adminOps, crashes>>

(* The exception becomes a 500: nothing is saved, nothing is acknowledged. *)
CommitFails(w) ==
  /\ pc[w] = "commit"
  /\ ~CanCommit(w)
  /\ EndSession(w)
  /\ Return(w)
  /\ UNCHANGED <<database, clock, provider, adminOps, crashes>>

(* The 200 reaches the provider, or is lost on the way. *)
Acknowledge(w) ==
  /\ pc[w] = "ack"
  /\ notices' = notices \ ({req[w].kind} \X req[w].todo)
  /\ Return(w)
  /\ UNCHANGED <<database, clock, settled, refunded, session, adminOps, crashes>>

AnswerLost(w) ==
  /\ pc[w] = "ack"
  /\ crashes < MaxCrashes
  /\ crashes' = crashes + 1
  /\ Return(w)
  /\ UNCHANGED <<database, clock, provider, session, adminOps>>

Crash(w) ==
  /\ pc[w] # "idle"
  /\ crashes < MaxCrashes
  /\ crashes' = crashes + 1
  /\ EndSession(w)
  /\ Return(w)
  /\ UNCHANGED <<database, clock, provider, adminOps>>

-----------------------------------------------------------------------------
(* The system *)

Provider ==
  \/ \E p \in Payments, how \in {"paid", "canceled"} : Settle(p, how)
  \/ \E p \in Payments : CabinetRefund(p)

Accounts ==
  \/ \E u \in Users : UpsertMe(u)
  \/ \E u \in Users : DeleteUser(u)

Deliver(p) ==
  \E w \in Workers : TelegramWebhook(w, p) \/ YukassaWebhook(w, p)

DeliverRefund(p) ==
  \E w \in Workers : RefundWebhook(w, p)

(* The transactions Telegram lists. *)
Charged == {p \in StarsPayments : settled[p] = "paid"}

(* The purchases view and the subscriptions view each offer their own rows;
   the Stars report reconciles one charge or all of them. *)
Operator(w) ==
  \/ \E S \in (SUBSET {r.id : r \in {s \in rows : s.item \in OneTime}}) \ {{}} :
       AdminStart(w, "admin_refund", S)
  \/ \E S \in (SUBSET {r.id : r \in {s \in rows : s.item \in Plans}}) \ {{}} :
       AdminStart(w, "admin_refund", S)
  \/ \E S \in (SUBSET users) \ {{}} : AdminStart(w, "grant_year", S)
  \/ \E S \in (SUBSET users) \ {{}} : AdminStart(w, "revoke", S)
  \/ \E S \in {{p} : p \in Charged} \cup ({Charged} \ {{}}) : AdminStart(w, "reconcile", S)

Proceed(w) ==
  \/ \E p \in Payments : GrantFlush(w, p) \/ RefundSelect(w, p)
  \/ \E p \in Payments : ReconcileSelect(w, p) \/ ReconcileInsert(w, p)
  \/ \E i \in RowIds : AdminRefundRow(w, i)
  \/ \E u \in Users : AdminGrantUser(w, u) \/ AdminRevokeUser(w, u)
  \/ Commit(w)
  \/ CommitFails(w)
  \/ Acknowledge(w)

Failure(w) == AnswerLost(w) \/ Crash(w)

Next ==
  \/ Provider
  \/ Accounts
  \/ Tick
  \/ \E p \in Payments : Deliver(p) \/ DeliverRefund(p)
  \/ \E w \in Workers : Operator(w) \/ Proceed(w) \/ Failure(w)

Spec == Init /\ [][Next]_vars

(* A handler that runs keeps running; a provider repeats what was not
   answered, so a notification that can again and again be delivered is. *)
Fairness ==
  /\ \A w \in Workers : WF_vars(Proceed(w))
  /\ \A p \in Payments : SF_vars(Deliver(p)) /\ SF_vars(DeliverRefund(p))

FairSpec == Spec /\ Fairness

-----------------------------------------------------------------------------
(* Properties *)

Row ==
  [id: RowIds, key: Payments \cup GiftKeys, user: Users,
   item: Catalogue, status: {"COMPLETED", "REFUNDED", "ACTIVE", "CANCELLED"},
   expires: Nat]

Change ==
  [id: RowIds, status: {"keep", "REFUNDED", "CANCELLED"}, expires: Nat \cup {Keep}]

Request ==
  [kind: {"none", "payment", "refund", "admin_refund", "grant_year", "revoke", "reconcile"},
   todo: SUBSET (Payments \cup RowIds \cup Users), at: 0..MaxClock,
   pick: SUBSET {p \in Payments : Product[p] \in Catalogue}, told: SUBSET Payments]

(* Every variable has its type. *)
TypeOK ==
  /\ users \subseteq Users
  /\ rows \subseteq Row
  /\ clock \in 0..MaxClock
  /\ settled \in [Payments -> {"open", "paid", "canceled"}]
  /\ refunded \subseteq YukassaPayments
  /\ notices \subseteq {"payment", "refund"} \X Payments
  /\ pc \in [Workers -> {"idle", "grant", "revoke", "admin", "insert", "commit", "ack"}]
  /\ req \in [Workers -> Request]
  /\ ins \in [Workers -> SUBSET Row]
  /\ upd \in [Workers -> SUBSET Change]
  /\ adminOps \in Nat
  /\ crashes \in Nat

(* A row granted for a payment exists only if the provider was paid, and it
   belongs to the account and names the product of that payment, whatever
   interleaving of duplicated webhooks, crashes and operator actions led
   here. *)
RowsArePaidFor ==
  \A r \in rows : r.key \in Payments =>
    /\ settled[r.key] = "paid"
    /\ r.user = Buyer[r.key]
    /\ r.item = Product[r.key]

(* "Idempotent - safe to call twice": however often and however concurrently
   a payment is notified, it is granted by one row at most. *)
OneRowPerPayment ==
  \A r, s \in rows : r.key = s.key => r = s

(* The handler answers 200 only for a payment it has recorded: for a buyer
   who has a users row and a product of the catalogue, a paid payment whose
   notification is gone has its row. *)
AcknowledgedIsRecorded ==
  \A p \in Payments :
    /\ settled[p] = "paid"
    /\ <<"payment", p>> \notin notices
    /\ Buyer[p] \notin Strangers \cup Deletable
    /\ Product[p] \in Catalogue
    => Keyed(p) # {}

(* "ack 200 - the original payment is already granted": the comment over the
   IntegrityError branch, for every buyer. *)
DuplicateMeansGranted ==
  \A w \in Workers, p \in Payments :
    pc[w] = "ack" /\ req[w].kind = "payment" /\ p \in req[w].todo
      /\ settled[p] = "paid" /\ Product[p] \in Catalogue
      => Keyed(p) # {}

(* Once refund.succeeded has been answered, no row of the payment gives
   access any more, even if the operator's own session crashed between
   moving the money and saving the row. *)
RefundedIsRevoked ==
  \A p \in refunded :
    <<"refund", p>> \notin notices => \A r \in Keyed(p) : ~Live(r)

(* A refund or a revocation is final: no webhook, extension or other stale
   session brings a row that has ended, or another row of the same payment,
   back to life. *)
EndedStaysEnded ==
  [][\A r \in rows, s \in rows' : r.key = s.key /\ ~Live(r) => ~Live(s)]_vars

(* "granted - Purchase / Subscription row created": when a reconciliation has
   committed, every charge its summary counts as granted has its row. *)
ReportedIsGranted ==
  [][\A w \in Workers : Commit(w) /\ req[w].kind = "reconcile" =>
       \A p \in req[w].told : \E r \in rows' : r.key = p]_vars

(* Every paid payment of a standing buyer is granted in the end. *)
PaidIsGranted ==
  \A p \in Payments :
    settled[p] = "paid" /\ Buyer[p] \notin Strangers \cup Deletable
      /\ Product[p] \in Catalogue
    ~> Keyed(p) # {}

(* Every refund reaches the rows in the end, also when the session that
   asked for it died. *)
RefundIsApplied ==
  \A p \in Payments \ CabinetRefunds : p \in refunded ~> \A r \in Keyed(p) : ~Live(r)

(* What the money path promises, without handlers, sessions or notices. *)
Access == INSTANCE Access WITH
  paid   <- {p \in Payments : settled[p] = "paid"},
  live   <- {p \in Payments : \E r \in Keyed(p) : Live(r)},
  ended  <- {p \in Payments : \E r \in Keyed(p) : ~Live(r)}
AccessSpec == Access!Spec
=============================================================================
