--------------------------- MODULE Synastry_proofs ---------------------------
(***************************************************************************)
(* Proofs about the compatibility invites and their monthly limit, for any *)
(* number of users, invites and simultaneous requests, and any limit.      *)
(***************************************************************************)
EXTENDS Synastry, FiniteSetTheorems, TLAPS

(* What a request holds while it runs. *)
Holds(q) ==
  /\ q.at # "idle" => q.user \in Users
  /\ q.kind \in {"create", "manual"} => q.user \in Buyers
  /\ q.kind \in {"accept", "hide"} => q.row \in Row
  /\ q.kind = "accept" => q.user # q.row.init

ReqInv == \A h \in Handlers : Holds(req[h])

(* A row keeps its initiator, and its id is not used again: what a request
   read before its calculation still names the same invite. *)
SameInvite(r) ==
  /\ \A c \in rows : c.id = r.id => c.init = r.init
  /\ (\E c \in rows : c.id = r.id) \/ (\E p \in hid : p[2] = r.id)

RowInv ==
  /\ \A r \in rows : r.partner # r.init
  /\ \A r, c \in rows : r.id = c.id => r.init = c.init
  /\ \A h \in Handlers : req[h].kind \in {"accept", "hide"} => SameInvite(req[h].row)

(* Each side's removal is on the row, whoever the other side is by now. *)
HiddenInv ==
  \A p \in hid, r \in rows :
    r.id = p[2] => IF p[1] = r.init THEN r.hidI ELSE r.hidP

(* The requests of a user whose slot is on its way back. *)
Denied(f, v) == {k \in Handlers : f[k].at = "giveback" /\ f[k].user = v}

(* The counter is the work admitted, the denials not yet given back and, at
   most, the requests that died. *)
SlotInv ==
  \A v \in Users :
    /\ admitted[v] + Cardinality(Denied(req, v)) <= used[v]
    /\ used[v] <= admitted[v] + faults + Cardinality(Denied(req, v))
    /\ admitted[v] <= Limit

IInv == TypeOK /\ ReqInv /\ ResultMatchesPair /\ RowInv /\ HiddenInv /\ SlotInv
-----------------------------------------------------------------------------
(* Counting the denials *)

LEMMA DeniedFinite ==
  ASSUME NEW f, NEW v
  PROVE  IsFiniteSet(Denied(f, v)) /\ Cardinality(Denied(f, v)) \in Nat
<1>1. Denied(f, v) \subseteq Handlers /\ IsFiniteSet(Handlers)
  BY SynastryAssumption DEF Denied, SynastryAssumption
<1>2. QED
  BY <1>1, FS_Subset, FS_CardinalityType

LEMMA DeniedKept ==
  ASSUME NEW f, NEW g, NEW v, NEW h \in Handlers,
         \A k \in Handlers \ {h} : g[k] = f[k],
         f[h].at # "giveback", g[h].at # "giveback"
  PROVE  Denied(g, v) = Denied(f, v)
BY DEF Denied

LEMMA DeniedAdded ==
  ASSUME NEW f, NEW g, NEW v, NEW h \in Handlers,
         \A k \in Handlers \ {h} : g[k] = f[k],
         f[h].at # "giveback", g[h].at = "giveback"
  PROVE  Cardinality(Denied(g, v)) =
           Cardinality(Denied(f, v)) + (IF g[h].user = v THEN 1 ELSE 0)
<1>1. CASE g[h].user = v
  <2>1. Denied(g, v) = Denied(f, v) \cup {h} /\ h \notin Denied(f, v)
    BY <1>1 DEF Denied
  <2>2. QED
    BY <1>1, <2>1, DeniedFinite, FS_AddElement
<1>2. CASE g[h].user # v
  <2>1. Denied(g, v) = Denied(f, v)
    BY <1>2 DEF Denied
  <2>2. QED
    BY <1>2, <2>1, DeniedFinite
<1>3. QED
  BY <1>1, <1>2
-----------------------------------------------------------------------------
(* Initially *)

THEOREM InitOK == Init => IInv
<1> SUFFICES ASSUME Init PROVE IInv
  OBVIOUS
<1>1. TypeOK
  BY SynastryAssumption DEF Init, TypeOK, Request, Idle, SynastryAssumption
<1>2. ReqInv /\ ResultMatchesPair /\ RowInv /\ HiddenInv
  BY DEF Init, ReqInv, Holds, ResultMatchesPair, RowInv, HiddenInv, Idle
<1>3. SlotInv
  <2>1. \A v \in Users : Denied(req, v) = {}
    BY DEF Init, Denied, Idle
  <2>2. QED
    BY <2>1, FS_EmptySet, SynastryAssumption DEF Init, SlotInv, SynastryAssumption
<1>4. QED
  BY <1>1, <1>2, <1>3 DEF IInv
-----------------------------------------------------------------------------
(* What a step does to one request and to the rows *)

(* The request of h is the only one that changed. *)
OnlyReq(h) == \A k \in Handlers \ {h} : req'[k] = req[k]

LEMMA GotoReq ==
  ASSUME IInv, NEW h \in Handlers, NEW at \in {"giveback", "compute", "save"}, Goto(h, at),
         req[h].at # "idle"
  PROVE  /\ req' \in [Handlers -> Request] /\ ReqInv' /\ OnlyReq(h)
         /\ req'[h] = [req[h] EXCEPT !.at = at]
<1>1. req \in [Handlers -> Request] /\ req[h] \in Request
  BY DEF IInv, TypeOK
<1>2. req' = [req EXCEPT ![h] = [req[h] EXCEPT !.at = at]]
  BY <1>1 DEF Goto
<1>3. [req[h] EXCEPT !.at = at] \in Request
  BY <1>1 DEF Request
<1>4. req' \in [Handlers -> Request] /\ OnlyReq(h) /\ req'[h] = [req[h] EXCEPT !.at = at]
  BY <1>1, <1>2, <1>3 DEF OnlyReq
<1>5. /\ req'[h].kind = req[h].kind /\ req'[h].user = req[h].user
      /\ req'[h].row = req[h].row
  BY <1>1, <1>4 DEF Request
<1>6. ReqInv'
  <2>1. Holds(req[h]) /\ \A k \in Handlers : Holds(req[k])
    BY DEF IInv, ReqInv
  <2>2. Holds(req'[h])
    BY <1>5, <2>1 DEF Holds
  <2>3. QED
    BY <1>4, <2>1, <2>2 DEF ReqInv, OnlyReq
<1>7. QED
  BY <1>4, <1>6

LEMMA DoneReq ==
  ASSUME IInv, NEW h \in Handlers, Done(h)
  PROVE  req' \in [Handlers -> Request] /\ ReqInv' /\ OnlyReq(h) /\ req'[h] = Idle
<1>1. req \in [Handlers -> Request] /\ Idle \in Request
  BY DEF IInv, TypeOK, Request, Idle
<1>2. req' \in [Handlers -> Request] /\ OnlyReq(h) /\ req'[h] = Idle
  BY <1>1 DEF Done, OnlyReq
<1>3. ReqInv'
  <2>1. Holds(req'[h])
    BY <1>2 DEF Holds, Idle
  <2>2. QED
    BY <1>2, <2>1 DEF IInv, ReqInv, OnlyReq
<1>4. QED
  BY <1>2, <1>3

LEMMA BeginReq ==
  ASSUME IInv, NEW h \in Handlers, NEW q \in Request, Holds(q),
         req' = [req EXCEPT ![h] = q]
  PROVE  req' \in [Handlers -> Request] /\ ReqInv' /\ OnlyReq(h) /\ req'[h] = q
<1>1. req' \in [Handlers -> Request] /\ OnlyReq(h) /\ req'[h] = q
  BY DEF IInv, TypeOK, OnlyReq
<1>2. QED
  BY <1>1 DEF IInv, ReqInv, OnlyReq
-----------------------------------------------------------------------------
(* Steps that leave the rows or the counters alone *)

LEMMA RowsKept ==
  ASSUME IInv, NEW h \in Handlers, OnlyReq(h), rows' = rows, hid' = hid,
         \/ req'[h].kind \notin {"accept", "hide"}
         \/ req'[h].kind = req[h].kind /\ req'[h].row = req[h].row
         \/ req'[h].row \in rows
  PROVE  ResultMatchesPair' /\ RowInv' /\ HiddenInv'
<1>1. ResultMatchesPair' /\ HiddenInv'
  BY DEF IInv, ResultMatchesPair, HiddenInv
<1>2. \A r : SameInvite(r)' <=> SameInvite(r)
  BY DEF SameInvite
<1>3. req'[h].kind \in {"accept", "hide"} => SameInvite(req'[h].row)
  BY DEF IInv, RowInv, SameInvite
<1>4. \A k \in Handlers : req'[k].kind \in {"accept", "hide"} => SameInvite(req'[k].row)
  BY <1>3 DEF IInv, RowInv, OnlyReq
<1>5. \A k \in Handlers : req'[k].kind \in {"accept", "hide"} => SameInvite(req[k].row)'
  BY <1>4 DEF SameInvite
<1>6. QED
  BY <1>1, <1>5 DEF IInv, RowInv

LEMMA SlotsKept ==
  ASSUME IInv, NEW h \in Handlers, OnlyReq(h),
         req[h].at # "giveback", req'[h].at # "giveback",
         UNCHANGED <<used, admitted, faults>>
  PROVE  SlotInv'
<1>1. \A v \in Users : Denied(req', v) = Denied(req, v)
  BY DeniedKept DEF OnlyReq
<1>2. QED
  BY <1>1 DEF IInv, SlotInv
-----------------------------------------------------------------------------
(* Steps that change one row: what holds of the id and the initiator of a row
   before holds after. *)

LEMMA RowChanged ==
  ASSUME IInv, NEW h \in Handlers, OnlyReq(h), req'[h] = Idle, hid' = hid,
         \A s \in rows' : \E c \in rows :
           /\ s.id = c.id /\ s.init = c.init /\ s.partner # s.init
           /\ s.hidI = c.hidI /\ s.hidP = c.hidP
           /\ s.status = "COMPLETED" => s.result = <<s.init, s.partner>>,
         \A c \in rows : \E s \in rows' : s.id = c.id
  PROVE  ResultMatchesPair' /\ RowInv' /\ HiddenInv'
<1>1. ResultMatchesPair'
  BY DEF ResultMatchesPair
<1>2. HiddenInv'
  BY DEF IInv, HiddenInv
<1>3. RowInv'
  <2>1. /\ \A r \in rows' : r.partner # r.init
        /\ \A r, c \in rows' : r.id = c.id => r.init = c.init
    BY DEF IInv, RowInv
  <2>2. ASSUME NEW k \in Handlers, req'[k].kind \in {"accept", "hide"}
        PROVE  SameInvite(req[k].row)'
    <3>1. k # h /\ req'[k] = req[k]
      BY <2>2 DEF OnlyReq, Idle
    <3>2. SameInvite(req[k].row)
      BY <2>2, <3>1 DEF IInv, RowInv
    <3>3. QED
      BY <3>1, <3>2 DEF SameInvite
  <2>3. QED
    BY <2>1, <2>2 DEF RowInv
<1>4. QED
  BY <1>1, <1>2, <1>3

LEMMA RowInserted ==
  ASSUME IInv, NEW h \in Handlers, OnlyReq(h), req'[h] = Idle, hid' = hid,
         NEW u \in Buyers, NEW status \in {"PENDING", "COMPLETED"},
         NEW result \in {<<>>} \cup (Buyers \X (Users \cup {Nobody})),
         status = "COMPLETED" => result = <<u, Nobody>>,
         Insert(u, status, result)
  PROVE  rows' \subseteq Row /\ ResultMatchesPair' /\ RowInv' /\ HiddenInv'
<1> DEFINE New(i) == [id |-> i, init |-> u, partner |-> Nobody, status |-> status,
                      result |-> result, hidI |-> FALSE, hidP |-> FALSE]
<1>1. PICK i \in Unused : rows' = rows \cup {New(i)}
  BY DEF Insert
<1> DEFINE n == New(i)
<1>2. i \in Ids /\ (\A c \in rows : c.id # i) /\ (\A p \in hid : p[2] # i)
  BY <1>1 DEF Unused, Current
<1>3. /\ n \in Row /\ n.id = i /\ n.init = u /\ n.partner = Nobody
      /\ n.status = status /\ n.result = result
  BY <1>2 DEF Row
<1>4. rows' = rows \cup {n}
  BY <1>1
<1> HIDE DEF n
<1>5. rows' \subseteq Row /\ ResultMatchesPair'
  BY <1>3, <1>4 DEF IInv, TypeOK, ResultMatchesPair
<1>6. HiddenInv'
  BY <1>2, <1>3, <1>4 DEF IInv, HiddenInv
<1>7. RowInv'
  <2>1. n.partner # n.init
    BY <1>3, SynastryAssumption DEF SynastryAssumption
  <2>2. /\ \A s \in rows' : s.partner # s.init
        /\ \A s, c \in rows' : s.id = c.id => s.init = c.init
    BY <1>2, <1>3, <1>4, <2>1 DEF IInv, RowInv
  <2>3. ASSUME NEW k \in Handlers, req'[k].kind \in {"accept", "hide"}
        PROVE  SameInvite(req[k].row)'
    <3>1. k # h /\ req'[k] = req[k]
      BY <2>3 DEF OnlyReq, Idle
    <3>2. SameInvite(req[k].row)
      BY <2>3, <3>1 DEF IInv, RowInv
    <3>3. req[k].row.id # i
      BY <1>2, <3>2 DEF SameInvite
    <3>4. QED
      BY <1>3, <1>4, <3>1, <3>2, <3>3 DEF SameInvite
  <2>4. QED
    BY <2>2, <2>3 DEF RowInv
<1>8. QED
  BY <1>5, <1>6, <1>7
-----------------------------------------------------------------------------
(* The step *)

THEOREM NextOK == IInv /\ [Next]_vars => IInv'
<1> SUFFICES ASSUME IInv, [Next]_vars PROVE IInv'
  OBVIOUS
<1> USE DEF At
<1>a. /\ rows \subseteq Row /\ expired \subseteq Ids
      /\ used \in [Users -> Nat] /\ admitted \in [Users -> Nat]
      /\ req \in [Handlers -> Request]
      /\ told \subseteq Users \X Ids /\ hid \subseteq Users \X Ids
      /\ faults \in 0..MaxFaults /\ ReqInv /\ SlotInv
  BY DEF IInv, TypeOK
<1>b. \A h \in Handlers : Holds(req[h])
  BY <1>a DEF ReqInv
<1>1. ASSUME NEW h \in Handlers, NEW u \in Users, Create(h, u) PROVE IInv'
  <2> DEFINE q == [kind |-> "create", at |-> "save", user |-> u, row |-> NoRow]
  <2>0. q \in Request /\ Holds(q)
    BY <1>a, <1>1, SynastryAssumption DEF Create, Request, Holds, SynastryAssumption
  <2>1. /\ req' \in [Handlers -> Request] /\ ReqInv' /\ OnlyReq(h) /\ req[h] = Idle
        /\ req'[h] = q
    BY <1>1, <2>0, BeginReq DEF Create, Begin
  <2>2. TypeOK'
    BY <1>a, <1>1, <2>1 DEF Create, TypeOK
  <2>3. ResultMatchesPair' /\ RowInv' /\ HiddenInv'
    BY <1>1, <2>1, RowsKept DEF Create
  <2>4. SlotInv'
    BY <1>1, <2>1, SlotsKept DEF Create, Idle
  <2>5. QED
    BY <2>1, <2>2, <2>3, <2>4 DEF IInv
<1>2. ASSUME NEW h \in Handlers, NEW u \in Users, Manual(h, u) PROVE IInv'
  <2> DEFINE q == [kind |-> "manual", at |-> "limit", user |-> u, row |-> NoRow]
  <2>0. q \in Request /\ Holds(q)
    BY <1>a, <1>2, SynastryAssumption DEF Manual, Request, Holds, SynastryAssumption
  <2>1. /\ req' \in [Handlers -> Request] /\ ReqInv' /\ OnlyReq(h) /\ req[h] = Idle
        /\ req'[h] = q
    BY <1>2, <2>0, BeginReq DEF Manual, Begin
  <2>2. TypeOK'
    BY <1>a, <1>2, <2>1 DEF Manual, TypeOK
  <2>3. ResultMatchesPair' /\ RowInv' /\ HiddenInv'
    BY <1>2, <2>1, RowsKept DEF Manual
  <2>4. SlotInv'
    BY <1>2, <2>1, SlotsKept DEF Manual, Idle
  <2>5. QED
    BY <2>1, <2>2, <2>3, <2>4 DEF IInv
<1>3. ASSUME NEW h \in Handlers, NEW u \in Users, NEW i \in Ids, Accept(h, u, i) PROVE IInv'
  <2>1. CASE UNCHANGED req
    <3>1. UNCHANGED vars
      BY <1>3, <2>1 DEF Accept, vars, Begin
    <3>2. QED
      BY <3>1 DEF vars, IInv, TypeOK, ReqInv, ResultMatchesPair, RowInv, SameInvite,
                  HiddenInv, SlotInv, Denied
  <2>2. CASE req' # req
    <3>1. PICK r \in rows, at \in {"expire", "limit"} :
            r.init # u /\ Begin(h, "accept", at, u, r) /\ told' = told
      BY <1>3, <2>2 DEF Accept, Current
    <3> DEFINE q == [kind |-> "accept", at |-> at, user |-> u, row |-> r]
    <3>0. q \in Request /\ Holds(q)
      BY <1>a, <3>1 DEF Request, Holds
    <3>2. /\ req' \in [Handlers -> Request] /\ ReqInv' /\ OnlyReq(h) /\ req[h] = Idle
          /\ req'[h] = q
      BY <3>0, <3>1, BeginReq DEF Begin
    <3>3. TypeOK'
      BY <1>a, <1>3, <3>1, <3>2 DEF Accept, TypeOK
    <3>4. ResultMatchesPair' /\ RowInv' /\ HiddenInv'
      BY <1>3, <3>1, <3>2, RowsKept DEF Accept
    <3>5. SlotInv'
      BY <1>3, <3>2, SlotsKept DEF Accept, Idle
    <3>6. QED
      BY <3>2, <3>3, <3>4, <3>5 DEF IInv
  <2>3. QED
    BY <2>1, <2>2
<1>4. ASSUME NEW h \in Handlers, NEW u \in Users, NEW i \in Ids, Hide(h, u, i) PROVE IInv'
  <2>1. PICK r \in rows : Begin(h, "hide", "save", u, r)
    BY <1>4 DEF Hide, Current
  <2> DEFINE q == [kind |-> "hide", at |-> "save", user |-> u, row |-> r]
  <2>0. q \in Request /\ Holds(q)
    BY <1>a, <2>1 DEF Request, Holds
  <2>2. /\ req' \in [Handlers -> Request] /\ ReqInv' /\ OnlyReq(h) /\ req[h] = Idle
        /\ req'[h] = q
    BY <2>0, <2>1, BeginReq DEF Begin
  <2>3. TypeOK'
    BY <1>a, <1>4, <2>2 DEF Hide, TypeOK
  <2>4. ResultMatchesPair' /\ RowInv' /\ HiddenInv'
    BY <1>4, <2>1, <2>2, RowsKept DEF Hide
  <2>5. SlotInv'
    BY <1>4, <2>2, SlotsKept DEF Hide, Idle
  <2>6. QED
    BY <2>2, <2>3, <2>4, <2>5 DEF IInv
<1>5. ASSUME NEW h \in Handlers, CreateSave(h) PROVE IInv'
  <2>1. /\ req' \in [Handlers -> Request] /\ ReqInv' /\ OnlyReq(h) /\ req'[h] = Idle
    BY <1>5, DoneReq DEF CreateSave
  <2>2. req[h].user \in Buyers /\ Insert(req[h].user, "PENDING", <<>>)
    BY <1>b, <1>5 DEF CreateSave, Holds
  <2>4. rows' \subseteq Row /\ ResultMatchesPair' /\ RowInv' /\ HiddenInv'
    BY <1>5, <2>1, <2>2, RowInserted DEF CreateSave
  <2>5. TypeOK'
    BY <1>a, <1>5, <2>1, <2>4 DEF CreateSave, TypeOK
  <2>6. SlotInv'
    BY <1>5, <2>1, SlotsKept DEF CreateSave, Idle
  <2>7. QED
    BY <2>1, <2>4, <2>5, <2>6 DEF IInv
<1>6. ASSUME NEW h \in Handlers, ManualSave(h) PROVE IInv'
  <2>1. /\ req' \in [Handlers -> Request] /\ ReqInv' /\ OnlyReq(h) /\ req'[h] = Idle
    BY <1>6, DoneReq DEF ManualSave
  <2>2. req[h].user \in Buyers /\ Insert(req[h].user, "COMPLETED", <<req[h].user, Nobody>>)
    BY <1>b, <1>6 DEF ManualSave, Holds
  <2>4. rows' \subseteq Row /\ ResultMatchesPair' /\ RowInv' /\ HiddenInv'
    BY <1>6, <2>1, <2>2, RowInserted DEF ManualSave
  <2>5. TypeOK'
    BY <1>a, <1>6, <2>1, <2>4 DEF ManualSave, TypeOK
  <2>6. SlotInv'
    BY <1>6, <2>1, SlotsKept DEF ManualSave, Idle
  <2>7. QED
    BY <2>1, <2>4, <2>5, <2>6 DEF IInv
<1>7. ASSUME NEW h \in Handlers, Admit(h) PROVE IInv'
  <2> DEFINE u == req[h].user
  <2>1. u \in Users /\ req[h].at = "limit"
    BY <1>b, <1>7 DEF Admit, Holds
  <2>2. /\ used' = [used EXCEPT ![u] = used[u] + 1]
        /\ UNCHANGED <<rows, expired, told, hid, faults>>
    BY <1>7 DEF Admit
  <2>3. ASSUME NEW at \in {"giveback", "compute"}, Goto(h, at)
        PROVE  /\ req' \in [Handlers -> Request] /\ ReqInv' /\ OnlyReq(h)
               /\ req'[h].at = at /\ req'[h].user = u
               /\ ResultMatchesPair' /\ RowInv' /\ HiddenInv'
    <3>1. /\ req' \in [Handlers -> Request] /\ ReqInv' /\ OnlyReq(h)
          /\ req'[h] = [req[h] EXCEPT !.at = at]
      BY <2>1, <2>3, GotoReq
    <3>2. /\ req'[h].kind = req[h].kind /\ req'[h].row = req[h].row
          /\ req'[h].at = at /\ req'[h].user = u
      BY <1>a, <3>1 DEF Request
    <3>3. QED
      BY <2>2, <3>1, <3>2, RowsKept
  <2>4. CASE used[u] + 1 > Limit
    <3>1. Goto(h, "giveback") /\ UNCHANGED admitted
      BY <1>7, <2>4 DEF Admit
    <3>2. \A v \in Users : Cardinality(Denied(req', v)) =
            Cardinality(Denied(req, v)) + (IF u = v THEN 1 ELSE 0)
      BY <2>1, <2>3, <3>1, DeniedAdded DEF OnlyReq
    <3>3. TypeOK'
      BY <1>a, <2>1, <2>2, <2>3, <3>1 DEF TypeOK
    <3>4. SlotInv'
      <4>1. \A v \in Users : /\ used[v] \in Nat /\ admitted[v] \in Nat
                             /\ used'[v] = used[v] + (IF u = v THEN 1 ELSE 0)
                             /\ Cardinality(Denied(req, v)) \in Nat
        BY <1>a, <2>1, <2>2, DeniedFinite
      <4>2. QED
        BY <1>a, <2>2, <3>1, <3>2, <4>1 DEF SlotInv
    <3>5. QED
      BY <2>3, <3>1, <3>3, <3>4 DEF IInv
  <2>5. CASE ~(used[u] + 1 > Limit)
    <3>1. Goto(h, "compute") /\ admitted' = [admitted EXCEPT ![u] = admitted[u] + 1]
      BY <1>7, <2>5 DEF Admit
    <3>2. \A v \in Users : Denied(req', v) = Denied(req, v)
      BY <2>1, <2>3, <3>1, DeniedKept DEF OnlyReq
    <3>3. TypeOK'
      BY <1>a, <2>1, <2>2, <2>3, <3>1 DEF TypeOK
    <3>4. SlotInv'
      <4>1. \A v \in Users : /\ used[v] \in Nat /\ admitted[v] \in Nat
                             /\ used'[v] = used[v] + (IF u = v THEN 1 ELSE 0)
                             /\ admitted'[v] = admitted[v] + (IF u = v THEN 1 ELSE 0)
                             /\ Cardinality(Denied(req, v)) \in Nat
        BY <1>a, <2>1, <2>2, <3>1, DeniedFinite
      <4>2. QED
        BY <1>a, <2>2, <2>5, <3>2, <4>1, SynastryAssumption DEF SlotInv, SynastryAssumption
    <3>5. QED
      BY <2>3, <3>1, <3>3, <3>4 DEF IInv
  <2>6. QED
    BY <2>4, <2>5
<1>8. ASSUME NEW h \in Handlers, GiveBack(h) PROVE IInv'
  <2> DEFINE u == req[h].user
  <2>1. u \in Users /\ req[h].at = "giveback"
    BY <1>b, <1>8 DEF GiveBack, Holds
  <2>2. /\ used' = [used EXCEPT ![u] = used[u] - 1]
        /\ UNCHANGED <<rows, expired, admitted, told, hid, faults>>
    BY <1>8 DEF GiveBack
  <2>3. /\ req' \in [Handlers -> Request] /\ ReqInv' /\ OnlyReq(h) /\ req'[h] = Idle
    BY <1>8, DoneReq DEF GiveBack
  <2>4. \A v \in Users : Cardinality(Denied(req, v)) =
          Cardinality(Denied(req', v)) + (IF u = v THEN 1 ELSE 0)
    BY <2>1, <2>3, DeniedAdded DEF OnlyReq, Idle
  <2>5. \A v \in Users : /\ used[v] \in Nat /\ admitted[v] \in Nat
                         /\ used'[v] = used[v] - (IF u = v THEN 1 ELSE 0)
                         /\ Cardinality(Denied(req', v)) \in Nat
    BY <1>a, <2>1, <2>2, DeniedFinite
  <2>6. SlotInv'
    BY <1>a, <2>2, <2>4, <2>5 DEF SlotInv
  <2>7. used[u] - 1 \in Nat
    BY <1>a, <2>1, <2>4, <2>5 DEF SlotInv
  <2>8. TypeOK'
    BY <1>a, <2>1, <2>2, <2>3, <2>7 DEF TypeOK
  <2>9. ResultMatchesPair' /\ RowInv' /\ HiddenInv'
    BY <2>2, <2>3, RowsKept DEF Idle
  <2>10. QED
    BY <2>3, <2>6, <2>8, <2>9 DEF IInv
<1>9. ASSUME NEW h \in Handlers, Compute(h) PROVE IInv'
  <2>1. req[h].at = "compute" /\ UNCHANGED <<rows, expired, used, admitted, told, hid, faults>>
    BY <1>9 DEF Compute
  <2>2. /\ req' \in [Handlers -> Request] /\ ReqInv' /\ OnlyReq(h) /\ req'[h].at # "giveback"
        /\ \/ req'[h].kind \notin {"accept", "hide"}
           \/ req'[h].kind = req[h].kind /\ req'[h].row = req[h].row
    <3>1. CASE Goto(h, "save")
      <4>1. /\ req' \in [Handlers -> Request] /\ ReqInv' /\ OnlyReq(h)
            /\ req'[h] = [req[h] EXCEPT !.at = "save"]
        BY <2>1, <3>1, GotoReq
      <4>2. QED
        BY <1>a, <4>1 DEF Request
    <3>2. CASE Done(h)
      BY <3>2, DoneReq DEF Idle
    <3>3. QED
      BY <1>9, <3>1, <3>2 DEF Compute
  <2>3. TypeOK'
    BY <1>a, <2>1, <2>2 DEF TypeOK
  <2>4. ResultMatchesPair' /\ RowInv' /\ HiddenInv'
    BY <2>1, <2>2, RowsKept
  <2>5. SlotInv'
    BY <2>1, <2>2, SlotsKept
  <2>6. QED
    BY <2>2, <2>3, <2>4, <2>5 DEF IInv
<1>10. ASSUME NEW h \in Handlers, AcceptExpire(h) PROVE IInv'
  <2> DEFINE i == req[h].row.id
             Marked(c) == [c EXCEPT !.status = "EXPIRED"]
  <2>1. /\ req' \in [Handlers -> Request] /\ ReqInv' /\ OnlyReq(h) /\ req'[h] = Idle
    BY <1>10, DoneReq DEF AcceptExpire
  <2>2. \/ rows' = rows
        \/ rows' = {c \in rows : c.id # i} \cup {Marked(c) : c \in {c \in rows : c.id = i}}
    BY <1>10 DEF AcceptExpire, Current, Others
  <2>3. \A c \in rows : /\ Marked(c) \in Row /\ Marked(c).id = c.id
                        /\ Marked(c).init = c.init /\ Marked(c).partner = c.partner
                        /\ Marked(c).hidI = c.hidI /\ Marked(c).hidP = c.hidP
                        /\ Marked(c).status = "EXPIRED"
    BY <1>a DEF Row
  <2> HIDE DEF Marked
  <2>4. /\ rows' \subseteq Row
        /\ \A s \in rows' : \E c \in rows :
             /\ s.id = c.id /\ s.init = c.init /\ s.partner # s.init
             /\ s.hidI = c.hidI /\ s.hidP = c.hidP
             /\ s.status = "COMPLETED" => s.result = <<s.init, s.partner>>
        /\ \A c \in rows : \E s \in rows' : s.id = c.id
    <3>1. \A c \in rows : /\ c.partner # c.init
                          /\ c.status = "COMPLETED" => c.result = <<c.init, c.partner>>
      BY DEF IInv, RowInv, ResultMatchesPair
    <3>2. QED
      BY <1>a, <2>2, <2>3, <3>1
  <2>5. ResultMatchesPair' /\ RowInv' /\ HiddenInv'
    BY <1>10, <2>1, <2>4, RowChanged DEF AcceptExpire
  <2>6. TypeOK'
    BY <1>a, <1>10, <2>1, <2>4 DEF AcceptExpire, TypeOK
  <2>7. SlotInv'
    BY <1>10, <2>1, SlotsKept DEF AcceptExpire, Idle
  <2>8. QED
    BY <2>1, <2>5, <2>6, <2>7 DEF IInv
<1>11. ASSUME NEW h \in Handlers, AcceptSave(h) PROVE IInv'
  <2> DEFINE i == req[h].row.id
             u == req[h].user
  <2>1. /\ req' \in [Handlers -> Request] /\ ReqInv' /\ OnlyReq(h) /\ req'[h] = Idle
    BY <1>11, DoneReq DEF AcceptSave
  <2>2. /\ u \in Users /\ req[h].row \in Row /\ u # req[h].row.init
        /\ \A c \in rows : c.id = i => c.init = req[h].row.init
    BY <1>b, <1>11 DEF AcceptSave, Holds, IInv, RowInv, SameInvite
  <2>3. /\ rows' = {c \in rows : c.id # i} \cup {Completed(c, u) : c \in {c \in rows : c.id = i}}
        /\ told' \subseteq told \cup {<<u, i>>, <<req[h].row.init, i>>}
    BY <1>11 DEF AcceptSave, Current, Others
  <2>4. \A c \in rows : /\ Completed(c, u) \in Row /\ Completed(c, u).id = c.id
                        /\ Completed(c, u).init = c.init /\ Completed(c, u).partner = u
                        /\ Completed(c, u).hidI = c.hidI /\ Completed(c, u).hidP = c.hidP
                        /\ Completed(c, u).result = <<c.init, u>>
    BY <1>a, <2>2 DEF Row, Completed
  <2>5. /\ rows' \subseteq Row
        /\ \A s \in rows' : \E c \in rows :
             /\ s.id = c.id /\ s.init = c.init /\ s.partner # s.init
             /\ s.hidI = c.hidI /\ s.hidP = c.hidP
             /\ s.status = "COMPLETED" => s.result = <<s.init, s.partner>>
        /\ \A c \in rows : \E s \in rows' : s.id = c.id
    <3>1. \A c \in rows : /\ c.partner # c.init
                          /\ c.status = "COMPLETED" => c.result = <<c.init, c.partner>>
      BY DEF IInv, RowInv, ResultMatchesPair
    <3>2. QED
      BY <1>a, <2>2, <2>3, <2>4, <3>1
  <2>6. ResultMatchesPair' /\ RowInv' /\ HiddenInv'
    BY <1>11, <2>1, <2>5, RowChanged DEF AcceptSave
  <2>7. told' \subseteq Users \X Ids
    BY <1>a, <2>2, <2>3, SynastryAssumption DEF Row, SynastryAssumption
  <2>8. TypeOK'
    BY <1>a, <1>11, <2>1, <2>5, <2>7 DEF AcceptSave, TypeOK
  <2>9. SlotInv'
    BY <1>11, <2>1, SlotsKept DEF AcceptSave, Idle
  <2>10. QED
    BY <2>1, <2>6, <2>8, <2>9 DEF IInv
<1>12. ASSUME NEW h \in Handlers, HideSave(h) PROVE IInv'
  <2> DEFINE r == req[h].row
             u == req[h].user
             Marked(c) == [c EXCEPT !.hidI = c.hidI \/ u = r.init, !.hidP = c.hidP \/ u # r.init]
  <2>1. /\ req' \in [Handlers -> Request] /\ ReqInv' /\ OnlyReq(h) /\ req'[h] = Idle
    BY <1>12, DoneReq DEF HideSave
  <2>2. /\ u \in Users /\ r \in Row
        /\ \A c \in rows : c.id = r.id => c.init = r.init
    BY <1>b, <1>12 DEF HideSave, Holds, IInv, RowInv, SameInvite
  <2>3. /\ hid' = hid \cup {<<u, r.id>>}
        /\ UNCHANGED <<expired, used, admitted, told, faults>>
    BY <1>12 DEF HideSave
  <2>4. \/ rows' = {c \in rows : c.id # r.id}
        \/ rows' = {c \in rows : c.id # r.id} \cup {Marked(c) : c \in {c \in rows : c.id = r.id}}
    BY <1>12 DEF HideSave, Current, Others
  <2>5. \A c \in rows : /\ Marked(c) \in Row /\ Marked(c).id = c.id
                        /\ Marked(c).init = c.init /\ Marked(c).partner = c.partner
                        /\ Marked(c).status = c.status /\ Marked(c).result = c.result
                        /\ c.hidI \/ u = r.init => Marked(c).hidI
                        /\ c.hidP \/ u # r.init => Marked(c).hidP
    BY <1>a DEF Row
  <2> HIDE DEF Marked
  <2>6. \A s \in rows' : \E c \in rows :
          /\ s.id = c.id /\ s.init = c.init /\ s.partner = c.partner
          /\ s.status = c.status /\ s.result = c.result
          /\ c.hidI => s.hidI
          /\ c.hidP => s.hidP
          /\ s.id = r.id => IF u = s.init THEN s.hidI ELSE s.hidP
    BY <2>2, <2>4, <2>5
  <2>7. rows' \subseteq Row /\ hid' \subseteq Users \X Ids
    BY <1>a, <2>2, <2>3, <2>4, <2>5 DEF Row
  <2>8. ResultMatchesPair'
    BY <2>6 DEF IInv, ResultMatchesPair
  <2>9. HiddenInv'
    <3>1. \A p \in hid' : p \in hid \/ (p[1] = u /\ p[2] = r.id)
      BY <2>3
    <3>2. QED
      BY <2>6, <3>1 DEF IInv, HiddenInv
  <2>10. RowInv'
    <3>1. /\ \A s \in rows' : s.partner # s.init
          /\ \A s, c \in rows' : s.id = c.id => s.init = c.init
      BY <2>6 DEF IInv, RowInv
    <3>2. ASSUME NEW k \in Handlers, req'[k].kind \in {"accept", "hide"}
          PROVE  SameInvite(req[k].row)'
      <4>1. k # h /\ req'[k] = req[k]
        BY <2>1, <3>2 DEF OnlyReq, Idle
      <4>2. SameInvite(req[k].row)
        BY <3>2, <4>1 DEF IInv, RowInv
      <4>3. \A c \in rows' : c.id = req[k].row.id => c.init = req[k].row.init
        BY <2>6, <4>2 DEF SameInvite
      <4>4. \A c \in rows : (\E s \in rows' : s.id = c.id) \/ (\E p \in hid' : p[2] = c.id)
        <5>1. \A c \in rows : c.id = r.id => \E p \in hid' : p[2] = c.id
          <6>1. <<u, r.id>> \in hid' /\ <<u, r.id>>[2] = r.id
            BY <2>3
          <6>2. QED
            BY <6>1
        <5>2. \A c \in rows : c.id # r.id => c \in rows'
          BY <2>4
        <5>3. QED
          BY <5>1, <5>2
      <4>5. QED
        BY <2>3, <4>1, <4>2, <4>3, <4>4 DEF SameInvite
    <3>3. QED
      BY <3>1, <3>2 DEF RowInv
  <2>11. TypeOK'
    BY <1>a, <2>1, <2>3, <2>7 DEF TypeOK
  <2>12. SlotInv'
    <3>1. req[h].at = "save"
      BY <1>12 DEF HideSave
    <3>2. QED
      BY <2>1, <2>3, <3>1, SlotsKept DEF Idle
  <2>13. QED
    BY <2>1, <2>8, <2>9, <2>10, <2>11, <2>12 DEF IInv
<1>13. ASSUME NEW h \in Handlers, Dies(h) PROVE IInv'
  <2>1. /\ req' \in [Handlers -> Request] /\ ReqInv' /\ OnlyReq(h) /\ req'[h] = Idle
    BY <1>13, DoneReq DEF Dies
  <2>2. /\ faults' = faults + 1 /\ faults < MaxFaults
        /\ UNCHANGED <<rows, expired, used, admitted, told, hid>>
    BY <1>13 DEF Dies
  <2>3. ResultMatchesPair' /\ RowInv' /\ HiddenInv'
    BY <2>1, <2>2, RowsKept DEF Idle
  <2>4. TypeOK'
    BY <1>a, <2>1, <2>2, SynastryAssumption DEF TypeOK, SynastryAssumption
  <2>5. SlotInv'
    <3>1. \A v \in Users : /\ used[v] \in Nat /\ admitted[v] \in Nat
                           /\ Cardinality(Denied(req, v)) \in Nat
                           /\ Cardinality(Denied(req', v)) \in Nat
      BY <1>a, DeniedFinite
    <3>2. \A v \in Users :
            /\ Cardinality(Denied(req', v)) <= Cardinality(Denied(req, v))
            /\ Cardinality(Denied(req, v)) <= Cardinality(Denied(req', v)) + 1
      <4>1. CASE req[h].at = "giveback"
        <5>1. \A v \in Users : Cardinality(Denied(req, v)) =
                Cardinality(Denied(req', v)) + (IF req[h].user = v THEN 1 ELSE 0)
          BY <2>1, <4>1, DeniedAdded DEF OnlyReq, Idle
        <5>2. QED
          BY <3>1, <5>1
      <4>2. CASE req[h].at # "giveback"
        <5>1. \A v \in Users : Denied(req', v) = Denied(req, v)
          BY <2>1, <4>2, DeniedKept DEF OnlyReq, Idle
        <5>2. QED
          BY <3>1, <5>1
      <4>3. QED
        BY <4>1, <4>2
    <3>3. QED
      BY <1>a, <2>2, <3>1, <3>2 DEF SlotInv
  <2>6. QED
    BY <2>1, <2>3, <2>4, <2>5 DEF IInv
<1>14. ASSUME NEW i \in Ids, Expire(i) PROVE IInv'
  <2>1. UNCHANGED <<rows, used, req, admitted, told, hid, faults>>
        /\ expired' = expired \cup {i}
    BY <1>14 DEF Expire
  <2>2. QED
    BY <1>a, <2>1 DEF IInv, TypeOK, ReqInv, ResultMatchesPair, RowInv, SameInvite,
                      HiddenInv, SlotInv, Denied
<1>15. ASSUME NewMonth PROVE IInv'
  <2>1. /\ used' = [v \in Users |-> 0] /\ admitted' = [v \in Users |-> 0]
        /\ UNCHANGED <<rows, expired, req, told, hid, faults>>
    BY <1>15 DEF NewMonth
  <2>2. TypeOK' /\ ReqInv' /\ ResultMatchesPair' /\ RowInv' /\ HiddenInv'
    BY <1>a, <2>1 DEF IInv, TypeOK, ReqInv, ResultMatchesPair, RowInv, SameInvite, HiddenInv
  <2>3. SlotInv'
    <3>1. \A v \in Users : Denied(req', v) = {}
      BY <1>15, <2>1 DEF NewMonth, Denied
    <3>2. \A v \in Users : Cardinality(Denied(req', v)) = 0
      BY <3>1, FS_EmptySet
    <3>3. QED
      BY <1>a, <2>1, <3>2, SynastryAssumption DEF SlotInv, SynastryAssumption
  <2>4. QED
    BY <2>2, <2>3 DEF IInv
<1>16. CASE UNCHANGED vars
  BY <1>16 DEF vars, IInv, TypeOK, ReqInv, ResultMatchesPair, RowInv, SameInvite,
               HiddenInv, SlotInv, Denied
<1>17. QED
  BY <1>1, <1>2, <1>3, <1>4, <1>5, <1>6, <1>7, <1>8, <1>9, <1>10, <1>11, <1>12, <1>13,
     <1>14, <1>15, <1>16 DEF Next
-----------------------------------------------------------------------------
(* The theorems *)

(* The invariant holds in every state of every behaviour. *)
THEOREM Invariant == Spec => []IInv
<1>1. Init => IInv
  BY InitOK
<1>2. IInv /\ [Next]_vars => IInv'
  BY NextOK
<1>3. QED
  BY <1>1, <1>2, PTL DEF Spec

(* Every variable has its type, whoever asks for what and when. *)
THEOREM TypeCorrect == Spec => []TypeOK
<1>1. IInv => TypeOK
  BY DEF IInv
<1>2. QED
  BY <1>1, Invariant, PTL

(* However many people accept one invite at a time, a completed request holds
   the result of the two people it names. *)
THEOREM ResultsMatch == Spec => []ResultMatchesPair
<1>1. IInv => ResultMatchesPair
  BY DEF IInv
<1>2. QED
  BY <1>1, Invariant, PTL

(* INCR before the work: requests that run at the same time never get more
   than the limit admitted between them. *)
THEOREM LimitIsKept == Spec => []LimitHolds
<1>1. IInv => LimitHolds
  BY DEF IInv, SlotInv, LimitHolds
<1>2. QED
  BY <1>1, Invariant, PTL

(* A denial gives its slot back: only a request that died keeps one. *)
THEOREM SlotsComeBack == Spec => []SlotsAreReturned
<1>1. IInv => SlotsAreReturned
  BY DEF IInv, SlotInv, SlotsAreReturned, Denied
<1>2. QED
  BY <1>1, Invariant, PTL

(* What one has removed from the history stays removed. *)
THEOREM HiddenStays == Spec => []HideSticks
<1>1. IInv => HideSticks
  BY DEF IInv, RowInv, HiddenInv, HideSticks
<1>2. QED
  BY <1>1, Invariant, PTL
=============================================================================
