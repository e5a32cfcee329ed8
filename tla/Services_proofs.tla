--------------------------- MODULE Services_proofs ---------------------------
(***************************************************************************)
(* Proofs about the smaller services: the fields of an account that are    *)
(* set once (Accounts), the support bot's relay (Support), the news feed   *)
(* (News), the amounts of payments (Prices), and what is rationed: the     *)
(* calls to the LLM (TokenBucket), the draws (Draws) and the paid texts    *)
(* (Downloads), for any users, messages, workers, skies, prices, callers,  *)
(* spreads, hours and purchases.  At the end, what holds of each component *)
(* holds of the process that serves them all (MCRequests).                 *)
(***************************************************************************)
EXTENDS MCRequests, Synastry_proofs, Readings_proofs

-----------------------------------------------------------------------------
(* Accounts.  A request writes a field that is set once only where it saw none
   (or the same value), so that a field changes only under a request that had
   read the row before it was set. *)

Ops == {"launch", "gender", "push", "birth", "mint", "apply", "event"}

(* What one field may be given. *)
FirstOnly(w, saw) ==
  \A f \in OnceFields : f \in DOMAIN w => saw[f] = Unset \/ w[f] = saw[f]

LEMMA NothingWritten == \A saw : FirstOnly(NoWrite, saw)
BY DEF FirstOnly, NoWrite

LEMMA WritesFirst ==
  ASSUME NEW op \in Ops, NEW u, NEW saw, NEW value
  PROVE  FirstOnly(Writes(op, u, saw, value), saw)
<1>1. CASE op \in {"launch", "event"}
  BY <1>1 DEF Writes, Launch, FirstOnly, OnceFields
<1>2. CASE op = "gender"
  BY <1>2, NothingWritten DEF Writes, PutGender, FirstOnly, OnceFields
<1>3. CASE op = "push"
  BY <1>3, NothingWritten DEF Writes, PutPush, FirstOnly, OnceFields
<1>4. CASE op = "birth"
  BY <1>4, NothingWritten DEF Writes, SetBirth, FirstOnly
<1>5. CASE op = "mint"
  BY <1>5, NothingWritten DEF Writes, MintCode, FirstOnly
<1>6. CASE op = "apply"
  BY <1>6, NothingWritten DEF Writes, Apply, FirstOnly
<1> QED BY <1>1, <1>2, <1>3, <1>4, <1>5, <1>6 DEF Ops

-----------------------------------------------------------------------------
AcctInv ==
  /\ accts = [u \in Accts |-> accts[u]]
  /\ \A u \in Accts : OnceFields \subseteq DOMAIN accts[u]
  /\ areq = [h \in AcctHandlers |-> areq[h]]
  /\ \A h \in AcctHandlers :
       areq[h] # AcctIdle => areq[h].user \in Accts /\ FirstOnly(areq[h].writes, areq[h].saw)

THEOREM AcctInvInit == AcctInit => AcctInv
<1>1. OnceFields \subseteq DOMAIN NoAcct
  BY DEF OnceFields, NoAcct
<1> QED BY <1>1 DEF AcctInit, AcctInv

(* What a commit does to each row. *)
LEMMA Committed ==
  ASSUME AcctInv, NEW h \in AcctHandlers, areq[h] # AcctIdle,
         accts' = [accts EXCEPT ![areq[h].user] =
                     [f \in DOMAIN @ |-> IF f \in DOMAIN areq[h].writes
                                         THEN areq[h].writes[f] ELSE @[f]]]
  PROVE  /\ accts' = [u \in Accts |-> accts'[u]]
         /\ \A u \in Accts : OnceFields \subseteq DOMAIN accts'[u]
         /\ \A u \in Accts \ {areq[h].user} : accts'[u] = accts[u]
         /\ \A f \in OnceFields :
              accts'[areq[h].user][f] = IF f \in DOMAIN areq[h].writes THEN areq[h].writes[f]
                                        ELSE accts[areq[h].user][f]
<1> DEFINE x == areq[h].user
           rw == [f \in DOMAIN accts[x] |-> IF f \in DOMAIN areq[h].writes
                                             THEN areq[h].writes[f] ELSE accts[x][f]]
<1>1. x \in Accts /\ OnceFields \subseteq DOMAIN accts[x]
  BY DEF AcctInv
<1>2. /\ DOMAIN rw = DOMAIN accts[x]
      /\ \A f \in OnceFields : rw[f] = IF f \in DOMAIN areq[h].writes THEN areq[h].writes[f]
                                        ELSE accts[x][f]
  BY <1>1
<1>3. accts' = [accts EXCEPT ![x] = rw]
  OBVIOUS
<1> HIDE DEF x, rw
<1>4. /\ accts' = [u \in Accts |-> accts'[u]] /\ accts'[x] = rw
      /\ \A u \in Accts \ {x} : accts'[u] = accts[u]
  BY <1>1, <1>3 DEF AcctInv
<1>5. \A u \in Accts : OnceFields \subseteq DOMAIN accts'[u]
  BY <1>1, <1>2, <1>4 DEF AcctInv
<1> QED BY <1>2, <1>4, <1>5 DEF x

LEMMA AcctInvStep == AcctInv /\ [AcctNext]_acctVars => AcctInv'
<1> SUFFICES ASSUME AcctInv, [AcctNext]_acctVars PROVE AcctInv'
  OBVIOUS
<1>t. /\ areq = [h \in AcctHandlers |-> areq[h]]
      /\ \A h \in AcctHandlers :
           areq[h] # AcctIdle => areq[h].user \in Accts /\ FirstOnly(areq[h].writes, areq[h].saw)
  BY DEF AcctInv
<1>1. ASSUME NEW h \in AcctHandlers, NEW op \in DOMAIN Values, NEW u \in Accts,
             NEW v \in Values[op], ReadRow(h, op, u, v)
      PROVE  AcctInv'
  <2> DEFINE w == Writes(op, u, accts[u], v)
             q == [op |-> op, user |-> u, value |-> v, writes |-> w, saw |-> accts[u]]
  <2>1. accts' = accts /\ (areq' = areq \/ areq' = [areq EXCEPT ![h] = q])
    BY <1>1 DEF ReadRow
  <2>2. op \in Ops
    BY DEF Values, Ops
  <2>3. q.user \in Accts /\ FirstOnly(q.writes, q.saw)
    BY <2>2, WritesFirst
  <2> HIDE DEF q
  <2>4. /\ areq' = [g \in AcctHandlers |-> areq'[g]]
        /\ \A g \in AcctHandlers : areq'[g] \in {areq[g], q}
    BY <2>1, <1>t
  <2> QED BY <2>1, <2>3, <2>4, <1>t DEF AcctInv
<1>2. ASSUME NEW h \in AcctHandlers, areq' = [areq EXCEPT ![h] = AcctIdle]
      PROVE  /\ areq' = [g \in AcctHandlers |-> areq'[g]]
             /\ \A g \in AcctHandlers : areq'[g] \in {areq[g], AcctIdle}
  BY <1>2, <1>t
<1>3. ASSUME NEW h \in AcctHandlers, CommitRow(h)
      PROVE  AcctInv'
  <2>1. areq[h] # AcctIdle /\ areq' = [areq EXCEPT ![h] = AcctIdle]
    BY <1>3 DEF CommitRow
  <2>2. /\ accts' = [u \in Accts |-> accts'[u]]
        /\ \A u \in Accts : OnceFields \subseteq DOMAIN accts'[u]
    <3>1. CASE accts' = accts
      BY <3>1 DEF AcctInv
    <3>2. CASE accts' # accts
      BY <3>2, <1>3, <2>1, Committed DEF CommitRow
    <3> QED BY <3>1, <3>2
  <2> QED BY <2>1, <2>2, <1>2, <1>t DEF AcctInv
<1>4. ASSUME NEW h \in AcctHandlers, RequestFails(h)
      PROVE  AcctInv'
  <2>1. accts' = accts /\ areq' = [areq EXCEPT ![h] = AcctIdle]
    BY <1>4 DEF RequestFails
  <2> QED BY <2>1, <1>2, <1>t DEF AcctInv
<1>5. ASSUME NEW u \in Accts, DayPasses(u)
      PROVE  AcctInv'
  BY <1>5 DEF DayPasses, AcctInv
<1>6. CASE UNCHANGED acctVars
  BY <1>6 DEF acctVars, AcctInv
<1> QED BY <1>1, <1>3, <1>4, <1>5, <1>6 DEF AcctNext

(* "Birth date is set once and locked thereafter", and the source, the referrer
   and the referral code likewise, for any accounts, values and number of
   requests at a time: what is set changes only under the commit of a request
   that had read the row while the field was something else. *)
THEOREM FieldsSetOnce == AcctSpec => SetOnce
<1> DEFINE Once == \A u \in Accts, f \in OnceFields :
              accts[u][f] # Unset /\ accts'[u][f] # accts[u][f] =>
                \E h \in AcctHandlers :
                  areq[h].user = u /\ areq[h].saw[f] # accts[u][f] /\ areq'[h] = AcctIdle
<1>1. AcctInv /\ [AcctNext]_acctVars => [Once]_acctVars
  <2> SUFFICES ASSUME AcctInv, AcctNext, NEW u \in Accts, NEW f \in OnceFields,
                      accts[u][f] # Unset, accts'[u][f] # accts[u][f]
               PROVE  \E h \in AcctHandlers :
                        areq[h].user = u /\ areq[h].saw[f] # accts[u][f] /\ areq'[h] = AcctIdle
    OBVIOUS
  <2>1. accts' # accts
    OBVIOUS
  <2>2. PICK h \in AcctHandlers : CommitRow(h)
    BY <2>1 DEF AcctNext, ReadRow, RequestFails, DayPasses
  <2>3. /\ areq[h] # AcctIdle /\ areq' = [areq EXCEPT ![h] = AcctIdle]
        /\ accts' = [accts EXCEPT ![areq[h].user] =
                       [g \in DOMAIN @ |-> IF g \in DOMAIN areq[h].writes
                                           THEN areq[h].writes[g] ELSE @[g]]]
    BY <2>1, <2>2 DEF CommitRow
  <2>4. areq'[h] = AcctIdle
    BY <2>3 DEF AcctInv
  <2>5. /\ areq[h].user = u /\ f \in DOMAIN areq[h].writes
        /\ areq[h].writes[f] # accts[u][f]
    BY <2>3, Committed
  <2>6. areq[h].saw[f] = Unset \/ areq[h].writes[f] = areq[h].saw[f]
    BY <2>3, <2>5 DEF AcctInv, FirstOnly
  <2> WITNESS h \in AcctHandlers
  <2> QED BY <2>4, <2>5, <2>6
<1> QED BY <1>1, AcctInvInit, AcctInvStep, PTL DEF AcctSpec, SetOnce

(* The types of an account.  A request under way is about a row that exists, or
   creates it; only POST /referrals/code writes a code. *)
AcctFields == {"exists", "gender", "push", "birth", "source", "referrer", "code"}

WritesOK(op, w) ==
  /\ DOMAIN w \subseteq AcctFields
  /\ "exists" \in DOMAIN w => w["exists"] = TRUE
  /\ "gender" \in DOMAIN w => w["gender"] \in {"male", "female"}
  /\ "push" \in DOMAIN w => w["push"] \in BOOLEAN
  /\ "birth" \in DOMAIN w => w["birth"] \in Dates
  /\ "source" \in DOMAIN w => w["source"] \in Params
  /\ "referrer" \in DOMAIN w => w["referrer"] \in Accts
  /\ "code" \in DOMAIN w => w["code"] \in Codes /\ op = "mint"

UnderWay(q) ==
  /\ q.user \in Accts /\ WritesOK(q.op, q.writes)
  /\ ~accts[q.user].exists => "exists" \in DOMAIN q.writes
  /\ q.op = "event" => q.value \in {"app_open", "unknown"}

AcctTypesInv ==
  /\ AcctTypeOK
  /\ \A h \in AcctHandlers : areq[h] # AcctIdle => UnderWay(areq[h])

LEMMA AcctTypesInit == AcctInit => AcctTypesInv
BY AccountsAssumption DEF AcctInit, AcctTypesInv, AcctTypeOK, AcctRow, NoAcct

LEMMA WritesTyped ==
  ASSUME NEW op \in DOMAIN Values, NEW u \in Accts, NEW saw \in AcctRow,
         NEW value \in Values[op], Writes(op, u, saw, value) # NoWrite
  PROVE  /\ WritesOK(op, Writes(op, u, saw, value))
         /\ ~saw.exists => "exists" \in DOMAIN Writes(op, u, saw, value)
         /\ op = "event" => value \in {"app_open", "unknown"}
<1>1. CASE op \in {"launch", "event"}
  <2>1. op = "launch" => value \in Params \cup {Unset}
    BY DEF Values
  <2>2. Writes(op, u, saw, value) = Launch(saw, IF op = "launch" THEN value ELSE Unset)
    BY <1>1 DEF Writes
  <2> QED BY <1>1, <2>1, <2>2 DEF Values, Launch, NormalSource, WritesOK, AcctFields
<1>2. CASE op = "gender"
  <2>1. value \in {"male", "female"}
    BY <1>2 DEF Values
  <2> QED BY <1>2, <2>1 DEF Writes, PutGender, WritesOK, AcctFields
<1>3. CASE op = "push"
  <2>1. value \in BOOLEAN
    BY <1>3 DEF Values
  <2> QED BY <1>3, <2>1 DEF Writes, PutPush, WritesOK, AcctFields
<1>4. CASE op = "birth"
  <2>1. value \in Dates
    BY <1>4 DEF Values
  <2> QED BY <1>4, <2>1 DEF Writes, SetBirth, WritesOK, AcctFields
<1>5. CASE op = "mint"
  <2>1. value \in Codes
    BY <1>5 DEF Values
  <2> QED BY <1>5, <2>1 DEF Writes, MintCode, WritesOK, AcctFields
<1>6. CASE op = "apply"
  <2>1. Writes(op, u, saw, value) = Apply(saw, u, value)
    BY <1>6 DEF Writes
  <2>2. PICK r \in Accts : Apply(saw, u, value) = [referrer |-> r]
    BY <2>1 DEF Apply
  <2>3. saw.exists
    BY <2>1 DEF Apply
  <2> QED BY <1>6, <2>1, <2>2, <2>3 DEF WritesOK, AcctFields
<1> QED BY <1>1, <1>2, <1>3, <1>4, <1>5, <1>6 DEF Values

(* A row that a request's columns were written to is a row, and it exists if it
   did. *)
LEMMA RowTyped ==
  ASSUME NEW r \in AcctRow, NEW op, NEW w, WritesOK(op, w)
  PROVE  LET new == [f \in DOMAIN r |-> IF f \in DOMAIN w THEN w[f] ELSE r[f]]
         IN /\ new \in AcctRow
            /\ r.exists \/ "exists" \in DOMAIN w => new.exists
            /\ new.code = r.code \/ (op = "mint" /\ new.code = w["code"])
<1> DEFINE new == [f \in DOMAIN r |-> IF f \in DOMAIN w THEN w[f] ELSE r[f]]
<1>1. DOMAIN r = AcctFields
  BY DEF AcctRow, AcctFields
<1>2. new = [f \in AcctFields |-> new[f]]
  BY <1>1
<1>3. /\ new["exists"] \in BOOLEAN
      /\ r.exists \/ "exists" \in DOMAIN w => new["exists"]
  BY <1>1 DEF AcctRow, WritesOK, AcctFields
<1>4. /\ new["gender"] \in {"male", "female", Unset} /\ new["push"] \in BOOLEAN
      /\ new["birth"] \in Dates \cup {Unset}
  BY <1>1 DEF AcctRow, WritesOK, AcctFields
<1>5. new["source"] \in Params \cup {Unset} /\ new["referrer"] \in Accts \cup {Unset}
  BY <1>1 DEF AcctRow, WritesOK, AcctFields
<1>6. /\ new["code"] \in Codes \cup {Unset}
      /\ new["code"] = r.code \/ (op = "mint" /\ new["code"] = w["code"])
  BY <1>1 DEF AcctRow, WritesOK, AcctFields
<1> HIDE DEF new
<1>7. new \in AcctRow
  BY <1>2, <1>3, <1>4, <1>5, <1>6 DEF AcctRow, AcctFields
<1> QED BY <1>3, <1>6, <1>7 DEF new

LEMMA AcctTypesStep == AcctInv /\ AcctTypesInv /\ [AcctNext]_acctVars => AcctTypesInv'
<1> SUFFICES ASSUME AcctInv, AcctTypesInv, [AcctNext]_acctVars PROVE AcctTypesInv'
  OBVIOUS
<1>t. /\ AcctTypeOK /\ areq = [h \in AcctHandlers |-> areq[h]]
      /\ \A h \in AcctHandlers : areq[h] # AcctIdle => UnderWay(areq[h])
  BY DEF AcctTypesInv, AcctInv
<1>i. ASSUME NEW h \in AcctHandlers, areq' = [areq EXCEPT ![h] = AcctIdle]
      PROVE  \A g \in AcctHandlers : areq'[g] \in {areq[g], AcctIdle}
  BY <1>i, <1>t
<1>1. ASSUME NEW h \in AcctHandlers, NEW op \in DOMAIN Values, NEW u \in Accts,
             NEW v \in Values[op], ReadRow(h, op, u, v)
      PROVE  AcctTypesInv'
  <2> DEFINE w == Writes(op, u, accts[u], v)
             q == [op |-> op, user |-> u, value |-> v, writes |-> w, saw |-> accts[u]]
  <2>1. /\ accts' = accts /\ joinedToday' = joinedToday /\ logged' = logged
        /\ requests' \in 0..MaxRequests
    BY <1>1, <1>t, AccountsAssumption DEF ReadRow, AcctTypeOK
  <2>2. areq' = areq \/ (w # NoWrite /\ areq' = [areq EXCEPT ![h] = q])
    BY <1>1 DEF ReadRow
  <2>3. w # NoWrite => UnderWay(q)
    <3> SUFFICES ASSUME w # NoWrite PROVE UnderWay(q)
      OBVIOUS
    <3>1. accts[u] \in AcctRow
      BY <1>t DEF AcctTypeOK
    <3>2. /\ WritesOK(op, w) /\ (~accts[u].exists => "exists" \in DOMAIN w)
          /\ op = "event" => v \in {"app_open", "unknown"}
      BY <3>1, WritesTyped
    <3> HIDE DEF w
    <3> QED BY <3>2 DEF UnderWay
  <2> HIDE DEF q, w
  <2>4. \A g \in AcctHandlers : areq'[g] = areq[g] \/ (w # NoWrite /\ areq'[g] = q)
    BY <2>2, <1>t
  <2>5. \A p : UnderWay(p)' <=> UnderWay(p)
    BY <2>1 DEF UnderWay
  <2> QED BY <2>1, <2>3, <2>4, <2>5, <1>t DEF AcctTypesInv, AcctTypeOK, UnderWay
<1>2. ASSUME NEW h \in AcctHandlers, CommitRow(h)
      PROVE  AcctTypesInv'
  <2> DEFINE q == areq[h]
             rw == [f \in DOMAIN accts[q.user] |->
                       IF f \in DOMAIN q.writes THEN q.writes[f] ELSE accts[q.user][f]]
  <2>1. /\ UnderWay(q) /\ requests' = requests /\ areq' = [areq EXCEPT ![h] = AcctIdle]
    BY <1>2, <1>t DEF CommitRow
  <2>2. \A g \in AcctHandlers : areq'[g] \in {areq[g], AcctIdle}
    BY <1>i, <2>1
  <2>3. q.user \in Accts /\ accts[q.user] \in AcctRow /\ WritesOK(q.op, q.writes)
    BY <2>1, <1>t DEF UnderWay, AcctTypeOK
  <2>4. CASE Conflict(q)
    <3>1. accts' = accts /\ joinedToday' = joinedToday /\ logged' = logged
      BY <1>2, <2>4 DEF CommitRow
    <3> QED BY <2>1, <2>2, <3>1, <1>t DEF AcctTypesInv, AcctTypeOK, UnderWay
  <2>5. CASE ~Conflict(q)
    <3>1. /\ accts' = [accts EXCEPT ![q.user] = rw]
          /\ joinedToday' \subseteq joinedToday \cup {q.user}
          /\ logged' \in {logged, logged \cup {<<q.user, q.value>>}}
          /\ logged' # logged => q.op = "event" /\ q.value # "unknown"
      BY <1>2, <2>5 DEF CommitRow
    <3>2. /\ rw \in AcctRow
          /\ accts[q.user].exists \/ "exists" \in DOMAIN q.writes => rw.exists
          /\ rw.code = accts[q.user].code \/ (q.op = "mint" /\ rw.code = q.writes["code"])
      BY <2>3, RowTyped
    <3>3. rw.exists
      BY <2>1, <3>2 DEF UnderWay
    <3>4. rw.code = accts[q.user].code \/ \A u \in Accts : accts[u].code # rw.code
      BY <2>5, <3>2 DEF Conflict
    <3> HIDE DEF rw
    <3>5. /\ accts' \in [Accts -> AcctRow] /\ accts'[q.user] = rw
          /\ \A u \in Accts \ {q.user} : accts'[u] = accts[u]
      BY <2>3, <3>1, <3>2, <1>t DEF AcctTypeOK
    <3>6. \A u \in Accts : accts[u].exists => accts'[u].exists
      BY <3>3, <3>5
    <3>7. joinedToday' \subseteq {u \in Accts : accts'[u].exists}
      BY <2>3, <3>1, <3>3, <3>5, <3>6, <1>t DEF AcctTypeOK
    <3>8. logged' \subseteq Accts \X {"app_open"}
      BY <2>1, <2>3, <3>1, <1>t DEF AcctTypeOK, UnderWay
    <3>9. \A u, v \in Accts : accts'[u].code = accts'[v].code => u = v \/ accts'[u].code = Unset
      BY <2>3, <3>4, <3>5, <1>t DEF AcctTypeOK
    <3>10. \A g \in AcctHandlers : areq'[g] # AcctIdle => UnderWay(areq'[g])
      BY <2>2, <1>t
    <3>11. \A g \in AcctHandlers : areq'[g] # AcctIdle => UnderWay(areq[g])'
      BY <2>2, <3>6, <3>10 DEF UnderWay, WritesOK
    <3> QED BY <2>1, <3>5, <3>7, <3>8, <3>9, <3>11, <1>t DEF AcctTypesInv, AcctTypeOK
  <2> QED BY <2>4, <2>5
<1>3. ASSUME NEW h \in AcctHandlers, RequestFails(h)
      PROVE  AcctTypesInv'
  <2>1. /\ accts' = accts /\ joinedToday' = joinedToday /\ logged' = logged
        /\ requests' = requests /\ areq' = [areq EXCEPT ![h] = AcctIdle]
    BY <1>3 DEF RequestFails
  <2>2. \A g \in AcctHandlers : areq'[g] \in {areq[g], AcctIdle}
    BY <1>i, <2>1
  <2> QED BY <2>1, <2>2, <1>t DEF AcctTypesInv, AcctTypeOK, UnderWay
<1>4. ASSUME NEW u \in Accts, DayPasses(u)
      PROVE  AcctTypesInv'
  BY <1>4, <1>t DEF DayPasses, AcctTypesInv, AcctTypeOK, UnderWay
<1>5. CASE UNCHANGED acctVars
  BY <1>5, <1>t DEF acctVars, AcctTypesInv, AcctTypeOK, UnderWay
<1> QED BY <1>1, <1>2, <1>3, <1>4, <1>5 DEF AcctNext

(* Whatever requests overlap, a row once created exists, whoever is counted as
   new today has one, and no two accounts share a referral code. *)
THEOREM AccountTypesHold == AcctSpec => []AcctTypeOK
<1>1. AcctTypesInv => AcctTypeOK
  BY DEF AcctTypesInv
<1> QED BY <1>1, AcctInvInit, AcctInvStep, AcctTypesInit, AcctTypesStep, PTL DEF AcctSpec

-----------------------------------------------------------------------------
(* Support.  A reply that has got past the copy has been received, and what is
   received stays so. *)

SupportInv ==
  /\ SupportTypeOK
  /\ \A x \in Updates :
       /\ update[x].kind = "reply" \/ update[x].at \in {"map", "ticket"} => update[x].fwd \in Forwards
       /\ update[x].at \in {"answer", "header"} => update[x].fwd \in received
  /\ AnsweredWasSent

LEMMA SupportInvInit == SupportInit => SupportInv
BY SupportAssumption
   DEF SupportInit, SupportInv, SupportTypeOK, AnsweredWasSent, UpdateRecord, Undelivered, Forwards

LEMMA SupportInvStep == SupportInv /\ [SupportNext]_supportVars => SupportInv'
<1> SUFFICES ASSUME SupportInv, [SupportNext]_supportVars PROVE SupportInv'
  OBVIOUS
<1> USE SupportAssumption DEF SupportInv, SupportTypeOK
<1>1. ASSUME NEW x \in Updates, Write(x)
      PROVE  SupportInv'
  BY <1>1 DEF Write, AnsweredWasSent, UpdateRecord, Undelivered
<1>2. ASSUME NEW x \in Updates, Forward(x)
      PROVE  SupportInv'
  <2>1. CASE /\ forwards < MaxForwards /\ forwards' = forwards + 1
             /\ update' = [update EXCEPT ![x].fwd = forwards + 1, ![x].at = "map"]
    <3>1. forwards + 1 \in Forwards /\ forwards + 1 \in 0..MaxForwards
      BY <2>1 DEF Forwards
    <3> QED
      BY <1>2, <2>1, <3>1 DEF Forward, Moves, AnsweredWasSent, UpdateRecord
  <2>2. CASE To(x, "done") /\ UNCHANGED forwards
    BY <1>2, <2>2 DEF Forward, Moves, To, AnsweredWasSent, UpdateRecord, Forwards
  <2> QED
    BY <1>2, <2>1, <2>2 DEF Forward
<1>3. ASSUME NEW x \in Updates, MapForward(x)
      PROVE  SupportInv'
  BY <1>3 DEF MapForward, Moves, To, AnsweredWasSent, UpdateRecord
<1>4. ASSUME NEW x \in Updates, OpenTicket(x)
      PROVE  SupportInv'
  BY <1>4 DEF OpenTicket, Moves, To, AnsweredWasSent, UpdateRecord
<1>5. ASSUME NEW x \in Updates, NEW f \in Forwards, Reply(x, f)
      PROVE  SupportInv'
  BY <1>5 DEF Reply, AnsweredWasSent, UpdateRecord, Forwards
<1>6. ASSUME NEW x \in Updates, CopyBack(x)
      PROVE  SupportInv'
  <2>1. CASE update[x].fwd \in mapping /\ received' = received \cup {update[x].fwd} /\ To(x, "answer")
    BY <1>6, <2>1 DEF CopyBack, Moves, To, AnsweredWasSent, UpdateRecord
  <2>2. CASE To(x, "done") /\ UNCHANGED received
    BY <1>6, <2>2 DEF CopyBack, Moves, To, AnsweredWasSent, UpdateRecord
  <2> QED
    BY <1>6, <2>1, <2>2 DEF CopyBack
<1>7. ASSUME NEW x \in Updates, AnswerTicket(x)
      PROVE  SupportInv'
  <2>1. update[x].fwd \in Forwards /\ update[x].fwd \in received
    BY <1>7 DEF AnswerTicket, Moves
  <2>2. tickets' \in {tickets, [tickets EXCEPT ![update[x].fwd] = "answered"]}
    BY <1>7 DEF AnswerTicket
  <2> QED
    BY <1>7, <2>1, <2>2 DEF AnswerTicket, Moves, To, AnsweredWasSent, UpdateRecord
<1>8. ASSUME NEW x \in Updates, TickHeader(x)
      PROVE  SupportInv'
  BY <1>8 DEF TickHeader, Moves, To, AnsweredWasSent, UpdateRecord
<1>9. ASSUME NEW x \in Updates, Redelivered(x)
      PROVE  SupportInv'
  BY <1>9 DEF Redelivered, To, AnsweredWasSent, UpdateRecord
<1>10. ASSUME NEW f \in Forwards, MappingExpires(f)
       PROVE  SupportInv'
  BY <1>10 DEF MappingExpires, AnsweredWasSent
<1>11. CASE UNCHANGED supportVars
  BY <1>11 DEF supportVars, AnsweredWasSent
<1> QED
  BY <1>1, <1>2, <1>3, <1>4, <1>5, <1>6, <1>7, <1>8, <1>9, <1>10, <1>11 DEF SupportNext

(* Whatever updates come again, mappings expire or writes fail, a ticket that
   is marked answered or a header with a check mark is one whose asker was sent
   the answer. *)
THEOREM AnsweredWasSentHolds == SupportSpec => [](SupportTypeOK /\ AnsweredWasSent)
<1>1. SupportInv => SupportTypeOK /\ AnsweredWasSent
  BY DEF SupportInv
<1> QED
  BY SupportInvInit, SupportInvStep, <1>1, PTL DEF SupportSpec

-----------------------------------------------------------------------------
(* News.  Only the holder of the lock runs; what it has not announced it has
   still to look at, has found in the feed or is about to add. *)

NewsRuns ==
  \A w \in NewsWorkers : nrun[w].at = "run" =>
    /\ newsLock = w
    /\ \A e \in nrun[w].rows : feed[e] = 0
    /\ \A e \in Detected(day) : e \in nrun[w].todo \cup nrun[w].rows \/ feed[e] = 1

NewsInv ==
  /\ NewsTypeOK
  /\ NewsRuns
  /\ \A e \in Events : feed[e] \in {0, 1}
  /\ \A d \in ranOn : \A e \in Detected(d) : feed[e] = 1

LEMMA DetectedAre ==
  ASSUME NEW d \in Int
  PROVE  Detected(d) = Changes(d, d + 1) \cup Changes(d + 1, d + 2)
<1>1. 1..2 = {1, 2} /\ d + 1 - 1 = d /\ d + 2 - 1 = d + 1
  OBVIOUS
<1>2. Detected(d) = UNION {Changes(d + i - 1, d + i) : i \in {1, 2}}
  BY <1>1 DEF Detected
<1>3. Detected(d) = Changes(d + 1 - 1, d + 1) \cup Changes(d + 2 - 1, d + 2)
  BY <1>2
<1> QED
  BY <1>1, <1>3

LEMMA DetectedType == ASSUME NEW d \in Int PROVE Detected(d) \subseteq Events
BY DetectedAre DEF Changes

LEMMA NewsInvInit == NewsInit => NewsInv
<1> SUFFICES ASSUME NewsInit PROVE NewsInv
  OBVIOUS
<1>1. NewsTypeOK
  BY NewsAssumption DEF NewsInit, NewsTypeOK, NewsIdle
<1>2. NewsRuns
  BY DEF NewsInit, NewsRuns, NewsIdle
<1> QED
  BY <1>1, <1>2 DEF NewsInv, NewsInit

LEMMA NewsInvStep == NewsInv /\ [NewsNext]_newsVars => NewsInv'
<1> SUFFICES ASSUME NewsInv, [NewsNext]_newsVars PROVE NewsInv'
  OBVIOUS
<1> USE NewsAssumption
<1>1. /\ day \in Int /\ Detected(day) \subseteq Events
      /\ nrun \in [NewsWorkers -> [at: {"idle", "run"}, todo: SUBSET Events, rows: SUBSET Events]]
      /\ feed \in [Events -> {0, 1}] /\ NewsRuns /\ NewsTypeOK
  BY DetectedType DEF NewsInv, NewsTypeOK
<1>2. ASSUME NEW w \in NewsWorkers, FireNews(w)
      PROVE  NewsInv'
  <2>1. CASE newsLock = "free"
    <3> DEFINE q == [NewsIdle EXCEPT !.at = "run", !.todo = Detected(day)]
    <3>1. nrun' = [nrun EXCEPT ![w] = q] /\ newsLock' = w /\ UNCHANGED <<day, feed, ranOn, newsFaults>>
      BY <1>2, <2>1 DEF FireNews
    <3>2. /\ q \in [at: {"idle", "run"}, todo: SUBSET Events, rows: SUBSET Events]
          /\ q.todo = Detected(day) /\ q.rows = {}
      BY <1>1 DEF NewsIdle
    <3> HIDE DEF q
    <3>3. \A v \in NewsWorkers : nrun[v].at # "run"
      BY <1>1, <2>1 DEF NewsRuns
    <3>4. NewsTypeOK'
      BY <1>1, <1>2, <3>1, <3>2 DEF FireNews, NewsTypeOK
    <3>5. NewsRuns'
      BY <1>1, <3>1, <3>2, <3>3 DEF NewsRuns, Detected, Changes
    <3> QED
      BY <3>1, <3>4, <3>5 DEF NewsInv, Detected, Changes
  <2>2. CASE newsLock # "free"
    BY <1>1, <1>2, <2>2 DEF FireNews, NewsInv, NewsTypeOK, NewsRuns, Detected, Changes
  <2> QED
    BY <2>1, <2>2
<1>3. ASSUME NEW w \in NewsWorkers, NEW e \in Events, WriteNote(w, e)
      PROVE  NewsInv'
  <2> DEFINE added == IF feed[e] > 0 THEN nrun[w].rows ELSE nrun[w].rows \cup {e}
             q == [nrun[w] EXCEPT !.todo = @ \ {e}, !.rows = added]
  <2>1. nrun' = [nrun EXCEPT ![w] = q] /\ UNCHANGED <<day, rang, feed, newsLock, ranOn, newsFaults>>
    BY <1>1, <1>3 DEF WriteNote
  <2>2. feed[e] \in {0, 1} /\ nrun[w].at = "run"
    BY <1>1, <1>3 DEF WriteNote
  <2>3. /\ q \in [at: {"idle", "run"}, todo: SUBSET Events, rows: SUBSET Events] /\ q.at = "run"
        /\ q.todo = nrun[w].todo \ {e}
        /\ (feed[e] = 1 => q.rows = nrun[w].rows) /\ (feed[e] = 0 => q.rows = nrun[w].rows \cup {e})
    <3>1. (feed[e] = 1 => added = nrun[w].rows) /\ (feed[e] = 0 => added = nrun[w].rows \cup {e})
      BY <2>2
    <3>2. nrun[w] \in [at: {"idle", "run"}, todo: SUBSET Events, rows: SUBSET Events]
      BY <1>1
    <3>3. added \subseteq Events
      BY <2>2, <3>1, <3>2
    <3> HIDE DEF added
    <3> QED
      BY <2>2, <3>1, <3>2, <3>3
  <2> HIDE DEF q, added
  <2>4. NewsRuns'
    <3>1. Detected(day)' = Detected(day)
      BY <2>1 DEF Detected, Changes
    <3> QED
      BY <1>1, <2>1, <2>2, <2>3, <3>1 DEF NewsRuns
  <2> QED
    BY <1>1, <2>1, <2>3, <2>4 DEF NewsInv, NewsTypeOK, Detected, Changes
<1>4. ASSUME NEW w \in NewsWorkers, CommitNews(w)
      PROVE  NewsInv'
  <2>1. /\ nrun[w].at = "run" /\ nrun[w].todo = {} /\ newsLock = w
        /\ nrun' = [nrun EXCEPT ![w] = NewsIdle] /\ newsLock' = "free"
        /\ ranOn' = ranOn \cup {day} /\ UNCHANGED <<day, rang, newsFaults>>
    BY <1>1, <1>4 DEF CommitNews, EndNews, NewsRuns
  <2>2. \A e \in nrun[w].rows : feed[e] = 0
    BY <1>1, <2>1 DEF NewsRuns
  <2>3. \A e \in Events : feed'[e] = IF e \in nrun[w].rows THEN 1 ELSE feed[e]
    BY <1>4, <2>2 DEF CommitNews
  <2>4. feed' \in [Events -> {0, 1}]
    BY <1>1, <1>4, <2>2 DEF CommitNews
  <2>5. \A e \in Detected(day) : feed'[e] = 1
    BY <1>1, <2>1, <2>3 DEF NewsRuns
  <2>6. \A v \in NewsWorkers : nrun'[v].at # "run"
    <3>1. NewsIdle.at = "idle"
      BY DEF NewsIdle
    <3> QED
      BY <1>1, <2>1, <3>1 DEF NewsRuns
  <2>7. \A d \in ranOn' : \A e \in Detected(d) : feed'[e] = 1
    <3>1. \A d \in ranOn : Detected(d) \subseteq Events /\ \A e \in Detected(d) : feed[e] = 1
      BY DetectedType DEF NewsInv, NewsTypeOK
    <3> QED
      BY <2>1, <2>3, <2>5, <3>1
  <2>8. NewsTypeOK'
    <3>1. NewsIdle \in [at: {"idle", "run"}, todo: SUBSET Events, rows: SUBSET Events]
      BY DEF NewsIdle
    <3> QED
      BY <1>1, <2>1, <2>4, <3>1 DEF NewsTypeOK
  <2> QED
    BY <2>4, <2>6, <2>7, <2>8 DEF NewsInv, NewsRuns, Detected, Changes
<1>5. ASSUME NEW w \in NewsWorkers, NEW dies \in BOOLEAN, NewsFails(w, dies)
      PROVE  NewsInv'
  <2>1. /\ newsLock = w /\ nrun' = [nrun EXCEPT ![w] = NewsIdle] /\ newsLock' \in {w, "free"}
        /\ newsFaults' \in 0..MaxNewsFaults /\ UNCHANGED <<day, rang, feed, ranOn>>
    BY <1>1, <1>5 DEF NewsFails, NewsRuns, NewsTypeOK
  <2>2. /\ NewsIdle \in [at: {"idle", "run"}, todo: SUBSET Events, rows: SUBSET Events]
        /\ NewsIdle.at = "idle"
    BY DEF NewsIdle
  <2>3. \A v \in NewsWorkers : nrun'[v].at # "run"
    BY <1>1, <2>1, <2>2 DEF NewsRuns
  <2>4. NewsTypeOK'
    BY <1>1, <2>1, <2>2 DEF NewsTypeOK
  <2> QED
    BY <2>1, <2>3, <2>4 DEF NewsInv, NewsRuns, Detected, Changes
<1>6. CASE NextMorning
  <2>1. NewsTypeOK'
    BY <1>1, <1>6 DEF NextMorning, NewsTypeOK
  <2>2. NewsRuns'
    BY <1>1, <1>6 DEF NextMorning, NewsRuns
  <2> QED
    BY <1>6, <2>1, <2>2 DEF NextMorning, NewsInv, Detected, Changes
<1>7. CASE UNCHANGED newsVars
  BY <1>1, <1>7 DEF newsVars, NewsInv, NewsTypeOK, NewsRuns, Detected, Changes
<1> QED
  BY <1>2, <1>3, <1>4, <1>5, <1>6, <1>7 DEF NewsNext

(* No change in the sky is announced twice, however often the runs of two
   mornings and of several workers see it, and none is missed when one of the two
   runs before it was committed. *)
THEOREM NewsIsNotMissed == NewsSpec => [](NewsTypeOK /\ NewsNotMissed)
<1>1. NewsInv => NewsTypeOK /\ NewsNotMissed
  <2> SUFFICES ASSUME NewsInv, NEW e \in Events
               PROVE  /\ feed[e] <= 1
                      /\ (e \in Changes(e.date - 1, e.date) /\ {e.date - 2, e.date - 1} \cap ranOn # {}
                            => feed[e] = 1)
    BY DEF NewsInv, NewsNotMissed
  <2>1. feed[e] \in {0, 1}
    BY DEF NewsInv
  <2> DEFINE n == e.date
  <2>2. n \in Int
    BY NewsAssumption DEF Events, EventDates
  <2>3. e \in Changes(n - 1, n) => e \in Detected(n - 1) /\ e \in Detected(n - 2)
    <3> HIDE DEF n
    <3>1. n - 1 \in Int /\ n - 2 \in Int /\ n - 1 + 1 = n /\ n - 2 + 1 = n - 1 /\ n - 2 + 2 = n
      BY <2>2
    <3>2. Detected(n - 1) = Changes(n - 1, n - 1 + 1) \cup Changes(n - 1 + 1, n - 1 + 2)
      BY <3>1, DetectedAre
    <3>3. Detected(n - 2) = Changes(n - 2, n - 2 + 1) \cup Changes(n - 2 + 1, n - 2 + 2)
      BY <3>1, DetectedAre
    <3> QED
      BY <3>1, <3>2, <3>3
  <2>4. \A d \in ranOn : e \in Detected(d) => feed[e] = 1
    BY DEF NewsInv
  <2> QED
    BY <2>1, <2>3, <2>4
<1> QED
  BY NewsInvInit, NewsInvStep, <1>1, PTL DEF NewsSpec

-----------------------------------------------------------------------------
(* Prices.  What a payment is asked for is fixed when it is made, and it is the
   listed price as long as no price was edited; what its rows say and what went
   back is bounded by it. *)

Shapes == {"none", "stars", "text", "int"}
Receipts == [items : Seq(Nat), mode : {"full_prepayment"}]
InvoiceSet ==
  [currency : Currencies, asked : Nat, receipt : Receipts, listed : Nat,
   changed : BOOLEAN, paid : BOOLEAN, returned : Nat]
RowSet == [amount : Nat, status : Statuses]

PrTypeOK ==
  /\ prCatalogue \in [xtr : Nat, rub : Nat, type : {"subscription", "one_time"}]
  /\ prOverride \in [Currencies -> Shapes \X Nat]
  /\ prEdits \in Nat
  /\ prList \in [prices : [Currencies -> Nat], edits : Nat]
  /\ prInvoices \in Seq(InvoiceSet)
  /\ prRows \in Seq(SUBSET RowSet) /\ Len(prRows) = Len(prInvoices)
  /\ prRefunds \in Seq([invoice : Nat, amount : Nat, receipt : Receipts])
  /\ prStars \in Seq(Nat)
  /\ prOps \in [PrOperators -> Nat]

ListInv ==
  /\ prList.edits <= prEdits
  /\ prList.edits = prEdits => prList.prices = PrPrices

(* What is known of one payment, of a row of it, of an operator, of a refund and
   of Telegram's transactions. *)
InvoiceOK(inv) ==
  /\ inv.asked > 0 /\ inv.returned <= inv.asked
  /\ inv.receipt.items = <<inv.asked>>
  /\ ~inv.changed => inv.asked = inv.listed
RowOK(inv, rw) ==
  /\ rw.amount = (IF inv.currency = "rub" THEN inv.asked * 100 ELSE prCatalogue["xtr"])
  /\ rw.status = "refunded" => inv.returned > 0
  /\ rw.status = "revoked" => prCatalogue.type = "subscription"
  /\ inv.paid
OpOK(i) == i # 0 => i \in DOMAIN prInvoices /\ prInvoices[i].returned = prInvoices[i].asked
RefundOK(refund) == refund.receipt.items = <<refund.amount>>
StarsInv ==
  /\ \A k \in DOMAIN prStars :
       /\ prStars[k] \in DOMAIN prInvoices
       /\ prInvoices[prStars[k]].currency = "xtr" /\ prInvoices[prStars[k]].paid
  /\ \A i \in DOMAIN prInvoices :
       prInvoices[i].currency = "xtr" /\ prInvoices[i].paid => \E k \in DOMAIN prStars : prStars[k] = i

PrInv ==
  /\ PrTypeOK /\ ListInv /\ StarsInv
  /\ \A i \in DOMAIN prInvoices : InvoiceOK(prInvoices[i])
  /\ \A i \in DOMAIN prInvoices : \A rw \in prRows[i] : RowOK(prInvoices[i], rw)
  /\ \A o \in PrOperators : OpOK(prOps[o])
  /\ \A k \in DOMAIN prRefunds : RefundOK(prRefunds[k])

LEMMA PriceIsNat ==
  ASSUME PrTypeOK
  PROVE  PrPrices \in [Currencies -> Nat] /\ \A c \in Currencies : Price(c) \in Nat
BY DEF PrTypeOK, PrPrices, Price, Override, Currencies

LEMMA PrInvInit == PrInit => PrInv
<1> SUFFICES ASSUME PrInit PROVE PrInv
  OBVIOUS
<1>1. PrTypeOK
  <2>1. prCatalogue \in [xtr : Nat, rub : Nat, type : {"subscription", "one_time"}]
    BY PricesAssumption DEF PrInit
  <2>2. prOverride \in [Currencies -> Shapes \X Nat]
    <3>1. prOverride \in [xtr : {<<"none", 0>>, <<"stars", 2>>}, rub : {<<"none", 0>>, <<"text", 0>>}]
      BY DEF PrInit
    <3> QED BY <3>1 DEF Currencies, Shapes
  <2>3. PrPrices \in [Currencies -> Nat]
    BY <2>1, <2>2 DEF PrPrices, Price, Override, Currencies
  <2> QED BY <2>1, <2>2, <2>3 DEF PrInit, PrTypeOK
<1>2. ListInv
  BY DEF PrInit, ListInv
<1> QED BY <1>1, <1>2 DEF PrInit, PrInv, OpOK, StarsInv

(* The amounts agree in every such state: an operator's refund is of the whole
   payment, every row of stars is of a transaction, and the two sums of the ledger
   are of equal functions. *)
LEMMA PrInvAgrees == PrInv => AmountsAgree
<1> SUFFICES ASSUME PrInv PROVE AmountsAgree
  OBVIOUS
<1>1. ASSUME NEW i \in DOMAIN prInvoices
      PROVE  LET inv == prInvoices[i] IN
               /\ ~inv.changed => inv.asked = inv.listed
               /\ inv.receipt.items = <<inv.asked>>
               /\ Returned(i) <= inv.asked
               /\ \A rw \in prRows[i] :
                    /\ inv.currency = "rub" => rw.amount = inv.asked * 100 /\ Due(rw) = inv.asked
                    /\ rw.status = "refunded" => Returned(i) > 0
                    /\ rw.status = "revoked" => prCatalogue.type = "subscription"
  <2>1. InvoiceOK(prInvoices[i])
    BY DEF PrInv
  <2>2. prInvoices[i].asked \in Nat
    <3>1. prInvoices[i] \in InvoiceSet
      BY DEF PrInv, PrTypeOK
    <3> QED BY <3>1 DEF InvoiceSet
  <2>3. ASSUME NEW rw \in prRows[i]
        PROVE  /\ prInvoices[i].currency = "rub" =>
                    rw.amount = prInvoices[i].asked * 100 /\ Due(rw) = prInvoices[i].asked
               /\ rw.status = "refunded" => Returned(i) > 0
               /\ rw.status = "revoked" => prCatalogue.type = "subscription"
    <3>1. RowOK(prInvoices[i], rw)
      BY DEF PrInv
    <3>2. (prInvoices[i].asked * 100) \div 100 = prInvoices[i].asked
      BY <2>2
    <3> QED BY <3>1, <3>2 DEF RowOK, Due, Returned
  <2> QED BY <2>1, <2>3 DEF InvoiceOK, Returned
<1>2. \A o \in PrOperators : prOps[o] # 0 => Returned(prOps[o]) = prInvoices[prOps[o]].asked
  BY DEF PrInv, OpOK, Returned
<1>3. \A k \in DOMAIN prRefunds : prRefunds[k].receipt.items = <<prRefunds[k].amount>>
  BY DEF PrInv, RefundOK
<1>4. ASSUME NEW shown \in StarsAnswers
      PROVE  /\ Len(prStars) <= StarsLimit =>
                  \A i \in DOMAIN prInvoices :
                    prInvoices[i].currency = "xtr" /\ prRows[i] # {} =>
                      \E k \in shown \ Unmatched(shown) : prStars[k] = i
             /\ \A k \in Unmatched(shown) : prInvoices[prStars[k]].paid
             /\ (\A k \in shown : prInvoices[prStars[k]].asked = prCatalogue["xtr"]) =>
                  StarsTotal(shown) = SumFunction([k \in shown |-> RowStars(prStars[k])])
  <2>1. shown \subseteq DOMAIN prStars /\ DOMAIN prStars = 1..Len(prStars) /\ Len(prStars) \in Nat
    BY DEF StarsAnswers, PrInv, PrTypeOK
  <2>2. ASSUME Len(prStars) <= StarsLimit PROVE shown = DOMAIN prStars
    <3>1. \A k \in DOMAIN prStars : k <= StarsLimit /\ k > Len(prStars) - StarsLimit
      BY <2>1, <2>2, PricesAssumption
    <3> QED BY <3>1 DEF StarsAnswers
  <2>3. ASSUME Len(prStars) <= StarsLimit, NEW i \in DOMAIN prInvoices,
               prInvoices[i].currency = "xtr", prRows[i] # {}
        PROVE  \E k \in shown \ Unmatched(shown) : prStars[k] = i
    <3>1. PICK rw \in prRows[i] : RowOK(prInvoices[i], rw)
      BY <2>3 DEF PrInv
    <3>2. PICK k \in DOMAIN prStars : prStars[k] = i
      BY <2>3, <3>1 DEF RowOK, PrInv, StarsInv
    <3> QED BY <2>2, <2>3, <3>2 DEF Unmatched
  <2>4. \A k \in shown : prStars[k] \in DOMAIN prInvoices
                         /\ prInvoices[prStars[k]].currency = "xtr" /\ prInvoices[prStars[k]].paid
    BY <2>1 DEF PrInv, StarsInv
  <2>5. ASSUME \A k \in shown : prInvoices[prStars[k]].asked = prCatalogue["xtr"]
        PROVE  StarsTotal(shown) = SumFunction([k \in shown |-> RowStars(prStars[k])])
    <3>1. ASSUME NEW k \in shown PROVE prInvoices[prStars[k]].asked = RowStars(prStars[k])
      <4> DEFINE i == prStars[k]
      <4>1. CASE prRows[i] = {}
        BY <2>5, <4>1 DEF RowStars
      <4>2. CASE prRows[i] # {}
        <5>1. (CHOOSE rw \in prRows[i] : TRUE) \in prRows[i]
          BY <4>2
        <5>2. RowOK(prInvoices[i], CHOOSE rw \in prRows[i] : TRUE)
          BY <2>4, <5>1 DEF PrInv
        <5>3. (CHOOSE rw \in prRows[i] : TRUE).amount = prCatalogue["xtr"]
          BY <2>4, <5>2 DEF RowOK
        <5> QED BY <2>5, <4>2, <5>3 DEF RowStars
      <4> QED BY <4>1, <4>2
    <3>2. [k \in shown |-> prInvoices[prStars[k]].asked] = [k \in shown |-> RowStars(prStars[k])]
      BY <3>1
    <3> QED BY <3>2 DEF StarsTotal
  <2> QED BY <2>3, <2>4, <2>5 DEF Unmatched
<1> QED BY <1>1, <1>2, <1>3, <1>4 DEF AmountsAgree

(* A payment may change in what is paid or returned and in nothing else; then
   all that was known stays known. *)
LEMMA PaymentMoves ==
  ASSUME PrInv, NEW i \in DOMAIN prInvoices, NEW paid \in BOOLEAN, NEW returned \in Nat,
         prInvoices[i].paid => paid,
         returned >= prInvoices[i].returned, returned <= prInvoices[i].asked,
         prInvoices' = [prInvoices EXCEPT ![i] = [@ EXCEPT !.paid = paid, !.returned = returned]],
         prRows' = prRows, prCatalogue' = prCatalogue
  PROVE  /\ prInvoices' \in Seq(InvoiceSet) /\ Len(prInvoices') = Len(prInvoices)
         /\ \A k \in DOMAIN prInvoices' : InvoiceOK(prInvoices'[k])
         /\ \A k \in DOMAIN prInvoices' : \A rw \in prRows[k] : RowOK(prInvoices'[k], rw)
         /\ \A k \in Nat : OpOK(k) => OpOK(k)'
         /\ \A k \in DOMAIN prInvoices :
              /\ prInvoices'[k].currency = prInvoices[k].currency
              /\ prInvoices[k].paid => prInvoices'[k].paid
              /\ k # i => prInvoices'[k] = prInvoices[k]
<1> DEFINE moved == [prInvoices[i] EXCEPT !.paid = paid, !.returned = returned]
<1>1. prInvoices[i] \in InvoiceSet /\ prInvoices \in Seq(InvoiceSet)
  BY DEF PrInv, PrTypeOK
<1>2. /\ moved \in InvoiceSet
      /\ moved.currency = prInvoices[i].currency /\ moved.asked = prInvoices[i].asked
      /\ moved.receipt = prInvoices[i].receipt /\ moved.listed = prInvoices[i].listed
      /\ moved.changed = prInvoices[i].changed /\ moved.returned = returned
      /\ moved.paid = paid
  BY <1>1 DEF InvoiceSet
<1> HIDE DEF moved
<1>3. prInvoices' = [prInvoices EXCEPT ![i] = moved]
  BY DEF moved
<1>4. prInvoices' \in Seq(InvoiceSet) /\ Len(prInvoices') = Len(prInvoices)
      /\ DOMAIN prInvoices' = DOMAIN prInvoices
  BY <1>1, <1>2, <1>3
<1>5. \A k \in DOMAIN prInvoices : prInvoices'[k] = IF k = i THEN moved ELSE prInvoices[k]
  BY <1>1, <1>3
<1>6. ASSUME NEW k \in DOMAIN prInvoices PROVE InvoiceOK(prInvoices'[k])
  BY <1>2, <1>5 DEF PrInv, InvoiceOK
<1>7. ASSUME NEW k \in DOMAIN prInvoices, NEW rw \in prRows[k] PROVE RowOK(prInvoices'[k], rw)
  <2>1. RowOK(prInvoices[k], rw)
    BY DEF PrInv
  <2>2. CASE k = i
    <3>1. prInvoices'[k] = moved
      BY <1>5, <2>2
    <3>2. prInvoices[i].returned \in Nat
      BY <1>1 DEF InvoiceSet
    <3>3. prInvoices[i].paid
      BY <2>1, <2>2 DEF RowOK
    <3>4. moved.paid
      BY <1>2, <3>3
    <3>5. /\ rw.amount = (IF moved.currency = "rub" THEN moved.asked * 100 ELSE prCatalogue["xtr"])
          /\ rw.status = "revoked" => prCatalogue.type = "subscription"
      BY <1>2, <2>1, <2>2 DEF RowOK
    <3>6. rw.status = "refunded" => moved.returned > 0
      BY <1>2, <2>1, <2>2, <3>2 DEF RowOK
    <3> QED BY <3>1, <3>4, <3>5, <3>6 DEF RowOK
  <2>3. CASE k # i
    BY <2>1, <2>3, <1>5
  <2> QED BY <2>2, <2>3
<1>8. ASSUME NEW k \in Nat, OpOK(k) PROVE OpOK(k)'
  <2>1. CASE k = i
    BY <2>1, <1>1, <1>2, <1>4, <1>5, <1>8 DEF OpOK, InvoiceSet
  <2>2. CASE k # i
    BY <2>2, <1>4, <1>5, <1>8 DEF OpOK
  <2> QED BY <2>1, <2>2
<1>9. \A k \in DOMAIN prInvoices :
        /\ prInvoices'[k].currency = prInvoices[k].currency
        /\ prInvoices[k].paid => prInvoices'[k].paid
        /\ k # i => prInvoices'[k] = prInvoices[k]
  <2>1. prInvoices[i].paid => moved.paid
    BY <1>2
  <2> QED BY <1>2, <1>5, <2>1
<1> QED BY <1>4, <1>6, <1>7, <1>8, <1>9

(* Where only a payment in rubles changes, Telegram's transactions stay those of
   the paid invoices. *)
LEMMA StarsStay ==
  ASSUME StarsInv, prInvoices \in Seq(InvoiceSet), prInvoices' \in Seq(InvoiceSet),
         Len(prInvoices') = Len(prInvoices), prStars' = prStars,
         NEW i \in DOMAIN prInvoices, prInvoices[i].currency = "rub", prInvoices'[i].currency = "rub",
         \A k \in DOMAIN prInvoices : k # i => prInvoices'[k] = prInvoices[k]
  PROVE  StarsInv'
<1>1. DOMAIN prInvoices' = DOMAIN prInvoices
  OBVIOUS
<1>2. \A k \in DOMAIN prStars : prStars[k] # i
  BY DEF StarsInv
<1> QED BY <1>1, <1>2 DEF StarsInv

(* What the gateway returns of a payment is in the list of refunds with the
   receipt of that much. *)
LEMMA RefundMoves ==
  ASSUME PrInv, NEW i \in DOMAIN prInvoices, NEW amount \in Nat, GatewayReturns(i, amount),
         prRows' = prRows, prCatalogue' = prCatalogue
  PROVE  /\ prInvoices' \in Seq(InvoiceSet) /\ Len(prInvoices') = Len(prInvoices)
         /\ \A k \in DOMAIN prInvoices' : InvoiceOK(prInvoices'[k])
         /\ \A k \in DOMAIN prInvoices' : \A rw \in prRows[k] : RowOK(prInvoices'[k], rw)
         /\ \A k \in Nat : OpOK(k) => OpOK(k)'
         /\ prRefunds' \in Seq([invoice : Nat, amount : Nat, receipt : Receipts])
         /\ \A k \in DOMAIN prRefunds' : RefundOK(prRefunds'[k])
         /\ prInvoices'[i].returned = prInvoices[i].returned + amount
         /\ prInvoices'[i].asked = prInvoices[i].asked
         /\ prInvoices'[i].currency = prInvoices[i].currency
         /\ \A k \in DOMAIN prInvoices : k # i => prInvoices'[k] = prInvoices[k]
<1> DEFINE returned == prInvoices[i].returned + amount
           refund == [invoice |-> i, amount |-> amount, receipt |-> Receipt(amount)]
<1>1. prInvoices[i] \in InvoiceSet /\ prInvoices \in Seq(InvoiceSet) /\ i \in Nat
  BY DEF PrInv, PrTypeOK
<1>2. /\ prInvoices[i].paid \in BOOLEAN /\ returned \in Nat
      /\ returned >= prInvoices[i].returned /\ returned <= prInvoices[i].asked
  BY <1>1 DEF InvoiceSet, GatewayReturns, Returned
<1>3. prInvoices' = [prInvoices EXCEPT ![i] = [@ EXCEPT !.paid = prInvoices[i].paid, !.returned = returned]]
  <2>1. [prInvoices[i] EXCEPT !.returned = @ + amount]
          = [prInvoices[i] EXCEPT !.paid = prInvoices[i].paid, !.returned = returned]
    BY <1>1 DEF InvoiceSet
  <2> QED BY <1>1, <2>1 DEF GatewayReturns
<1>4. /\ prInvoices' \in Seq(InvoiceSet) /\ Len(prInvoices') = Len(prInvoices)
      /\ \A k \in DOMAIN prInvoices' : InvoiceOK(prInvoices'[k])
      /\ \A k \in DOMAIN prInvoices' : \A rw \in prRows[k] : RowOK(prInvoices'[k], rw)
      /\ \A k \in Nat : OpOK(k) => OpOK(k)'
      /\ \A k \in DOMAIN prInvoices :
           /\ prInvoices'[k].currency = prInvoices[k].currency
           /\ k # i => prInvoices'[k] = prInvoices[k]
  <2> HIDE DEF returned
  <2> QED BY <1>2, <1>3, PaymentMoves
<1>5. /\ prInvoices'[i].returned = prInvoices[i].returned + amount
      /\ prInvoices'[i].asked = prInvoices[i].asked
  BY <1>1, <1>3 DEF InvoiceSet
<1>6. /\ prRefunds \in Seq([invoice : Nat, amount : Nat, receipt : Receipts])
      /\ \A k \in DOMAIN prRefunds : RefundOK(prRefunds[k])
  BY DEF PrInv, PrTypeOK
<1>7. refund \in [invoice : Nat, amount : Nat, receipt : Receipts] /\ RefundOK(refund)
  BY <1>1 DEF Receipt, Receipts, RefundOK
<1> HIDE DEF refund
<1>8. prRefunds' = Append(prRefunds, refund)
  BY DEF GatewayReturns, refund
<1>9. /\ prRefunds' \in Seq([invoice : Nat, amount : Nat, receipt : Receipts])
      /\ \A k \in DOMAIN prRefunds' : RefundOK(prRefunds'[k])
  BY <1>6, <1>7, <1>8
<1>10. /\ prInvoices'[i].currency = prInvoices[i].currency
       /\ \A k \in DOMAIN prInvoices : k # i => prInvoices'[k] = prInvoices[k]
  BY <1>4
<1> QED BY <1>4, <1>5, <1>9, <1>10

(* Rows are refunded only of a payment of which something went back, and revoked
   only if they are of a subscription. *)
LEMMA EndedRows ==
  ASSUME PrInv, NEW i \in DOMAIN prInvoices, NEW from, NEW how \in {"refunded", "revoked"},
         how = "refunded" => prInvoices[i].returned > 0,
         how = "revoked" => prCatalogue.type = "subscription"
  PROVE  /\ Ended(prRows[i], from, how) \in SUBSET RowSet
         /\ \A rw \in Ended(prRows[i], from, how) : RowOK(prInvoices[i], rw)
<1>1. prRows[i] \in SUBSET RowSet
  BY DEF PrInv, PrTypeOK
<1>2. ASSUME NEW rw \in Ended(prRows[i], from, how)
      PROVE  rw \in RowSet /\ RowOK(prInvoices[i], rw)
  <2>1. PICK old \in prRows[i] :
          rw = [old EXCEPT !.status = IF old.status \in from THEN how ELSE old.status]
    BY DEF Ended
  <2>2. old \in RowSet /\ RowOK(prInvoices[i], old)
    BY <1>1 DEF PrInv
  <2>3. rw \in RowSet /\ rw.amount = old.amount /\ (rw.status = how \/ rw.status = old.status)
    <3>1. CASE old.status \in from
      <4>1. rw = [old EXCEPT !.status = how]
        BY <2>1, <3>1
      <4> QED BY <2>2, <4>1 DEF RowSet, Statuses
    <3>2. CASE old.status \notin from
      <4>1. rw = [old EXCEPT !.status = old.status]
        BY <2>1, <3>2
      <4> QED BY <2>2, <4>1 DEF RowSet, Statuses
    <3> QED BY <3>1, <3>2
  <2> QED BY <2>2, <2>3 DEF RowOK
<1> QED BY <1>2

LEMMA RefundedOnlyReturned ==
  ASSUME PrInv, NEW i \in DOMAIN prInvoices, prInvoices[i].returned > 0, NEW from,
         prRows' = [prRows EXCEPT ![i] = Ended(@, from, "refunded")],
         prInvoices' = prInvoices, prCatalogue' = prCatalogue
  PROVE  /\ prRows' \in Seq(SUBSET RowSet) /\ Len(prRows') = Len(prRows)
         /\ \A k \in DOMAIN prInvoices' : \A rw \in prRows'[k] : RowOK(prInvoices'[k], rw)
<1> DEFINE left == Ended(prRows[i], from, "refunded")
<1>1. /\ prInvoices \in Seq(InvoiceSet) /\ prRows \in Seq(SUBSET RowSet)
      /\ Len(prRows) = Len(prInvoices) /\ i \in DOMAIN prRows
  BY DEF PrInv, PrTypeOK
<1>2. left \in SUBSET RowSet /\ \A rw \in left : RowOK(prInvoices[i], rw)
  BY EndedRows
<1>3. prRows' = [prRows EXCEPT ![i] = left]
  OBVIOUS
<1> HIDE DEF left
<1>4. prRows' \in Seq(SUBSET RowSet) /\ Len(prRows') = Len(prRows)
  BY <1>1, <1>2, <1>3
<1>5. ASSUME NEW k \in DOMAIN prInvoices, NEW rw \in prRows'[k]
      PROVE  RowOK(prInvoices[k], rw)
  <2>1. CASE k = i
    BY <1>1, <1>2, <1>3, <2>1
  <2>2. CASE k # i
    <3>1. prRows'[k] = prRows[k]
      BY <1>1, <1>3, <2>2
    <3> QED BY <3>1 DEF PrInv
  <2> QED BY <2>1, <2>2
<1>6. ASSUME NEW k \in DOMAIN prInvoices, NEW rw \in prRows'[k]
      PROVE  RowOK(prInvoices'[k], rw)
  BY <1>5
<1> QED BY <1>4, <1>6

LEMMA EditKeeps ==
  ASSUME PrInv, NEW c \in Currencies, NEW value \in Shapes \X Nat, Edit(c, value)
  PROVE  PrInv'
<1>1. PrTypeOK'
  <2>1. prOverride' \in [Currencies -> Shapes \X Nat] /\ prEdits' \in Nat
    BY DEF PrInv, PrTypeOK, Edit
  <2> QED BY <2>1 DEF PrInv, PrTypeOK, Edit
<1>2. ListInv'
  BY DEF PrInv, PrTypeOK, ListInv, Edit
<1> QED BY <1>1, <1>2 DEF PrInv, Edit, InvoiceOK, RowOK, OpOK, RefundOK, StarsInv

LEMMA PrInvNext == PrInv /\ [PrNext]_prVars => PrInv'
<1> SUFFICES ASSUME PrInv, [PrNext]_prVars PROVE PrInv'
  OBVIOUS
<1> USE DEF PrInv
<1>1. ASSUME NEW c \in Currencies, NEW n \in PrAmounts, SetPrice(c, n) PROVE PrInv'
  <2>1. <<"int", n>> \in Shapes \X Nat
    BY PricesAssumption DEF Shapes
  <2> QED BY <1>1, <2>1, EditKeeps DEF SetPrice
<1>2. ASSUME NEW c \in Currencies, ClearPrice(c) PROVE PrInv'
  <2>1. <<"none", 0>> \in Shapes \X Nat
    BY DEF Shapes
  <2> QED BY <1>2, <2>1, EditKeeps DEF ClearPrice
<1>3. ASSUME ListProducts PROVE PrInv'
  <2>1. PrPrices' = PrPrices
    BY <1>3 DEF ListProducts, PrPrices, Price, Override
  <2>2. prList'.edits = prEdits /\ prList'.prices = PrPrices
    BY <1>3 DEF ListProducts
  <2>3. prList' \in [prices : [Currencies -> Nat], edits : Nat]
    BY <1>3, PriceIsNat DEF ListProducts, PrTypeOK
  <2>4. PrTypeOK'
    BY <1>3, <2>3 DEF PrTypeOK, ListProducts
  <2>5. ListInv'
    BY <1>3, <2>1, <2>2 DEF ListProducts, ListInv, PrTypeOK
  <2> QED BY <1>3, <2>4, <2>5 DEF ListProducts, InvoiceOK, RowOK, OpOK, RefundOK, StarsInv
<1>4. ASSUME NEW c \in Currencies, CreateAt(c) PROVE PrInv'
  <2> DEFINE new == Invoice(c)
  <2>1. /\ Price(c) \in Nat /\ Price(c) > 0 /\ prList.prices[c] \in Nat
        /\ prList.edits = prEdits => prList.prices[c] = Price(c)
    <3>1. prList.edits = prEdits => prList.prices[c] = Price(c)
      BY DEF ListInv, PrPrices
    <3> QED BY <1>4, <3>1, PriceIsNat DEF CreateAt, AskedFor, PrTypeOK
  <2>2. PICK edited \in BOOLEAN : edited = (prEdits # prList.edits)
    OBVIOUS
  <2>3. new = [currency |-> c, asked |-> Price(c), receipt |-> Receipt(Price(c)),
               listed |-> prList.prices[c], changed |-> edited, paid |-> FALSE, returned |-> 0]
    BY <2>2 DEF Invoice, AskedFor
  <2>4. new \in InvoiceSet
    BY <2>1, <2>3 DEF InvoiceSet, Receipt, Receipts
  <2>5. InvoiceOK(new)
    <3>1. /\ new.asked = Price(c) /\ new.returned = 0 /\ new.listed = prList.prices[c]
          /\ new.changed = edited /\ new.receipt = Receipt(Price(c))
      BY <2>3
    <3>2. new.receipt.items = <<new.asked>>
      BY <3>1 DEF Receipt
    <3>3. ~new.changed => new.asked = new.listed
      <4>1. CASE edited = TRUE
        BY <3>1, <4>1
      <4>2. CASE edited = FALSE
        BY <2>1, <2>2, <3>1, <4>2
      <4> QED BY <4>1, <4>2
    <3> QED BY <2>1, <3>1, <3>2, <3>3 DEF InvoiceOK
  <2> HIDE DEF new
  <2>6. prInvoices' = Append(prInvoices, new) /\ prRows' = Append(prRows, {})
    BY <1>4 DEF CreateAt, new
  <2>7. /\ prInvoices' \in Seq(InvoiceSet) /\ prRows' \in Seq(SUBSET RowSet)
        /\ Len(prRows') = Len(prInvoices') /\ Len(prInvoices') = Len(prInvoices) + 1
    BY <2>4, <2>6 DEF PrTypeOK
  <2>8. /\ \A k \in DOMAIN prInvoices : prInvoices'[k] = prInvoices[k] /\ prRows'[k] = prRows[k]
        /\ \A k \in DOMAIN prInvoices' :
             k \notin DOMAIN prInvoices => prInvoices'[k] = new /\ prRows'[k] = {}
        /\ DOMAIN prInvoices \subseteq DOMAIN prInvoices'
    BY <2>6 DEF PrTypeOK
  <2>9. PrTypeOK'
    BY <1>4, <2>7 DEF PrTypeOK, CreateAt
  <2>10. ListInv'
    BY <1>4 DEF ListInv, CreateAt, PrPrices, Price, Override
  <2>11. \A k \in DOMAIN prInvoices' : InvoiceOK(prInvoices'[k])
    BY <2>5, <2>8
  <2>12. (\A k \in DOMAIN prInvoices : \A rw \in prRows[k] : RowOK(prInvoices[k], rw))'
    <3>1. ASSUME NEW k \in DOMAIN prInvoices', NEW rw \in prRows'[k]
          PROVE  RowOK(prInvoices[k], rw)'
      <4>1. k \in DOMAIN prInvoices /\ prInvoices'[k] = prInvoices[k] /\ prRows'[k] = prRows[k]
        BY <2>8
      <4>2. RowOK(prInvoices[k], rw)
        BY <4>1
      <4>3. prCatalogue' = prCatalogue
        BY <1>4 DEF CreateAt
      <4> QED BY <4>1, <4>2, <4>3 DEF RowOK
    <3> QED BY <3>1
  <2>13. (\A o \in PrOperators : OpOK(prOps[o]))'
    <3>1. ASSUME NEW o \in PrOperators PROVE OpOK(prOps[o])'
      <4>1. prOps' = prOps /\ OpOK(prOps[o])
        BY <1>4 DEF CreateAt
      <4> QED BY <2>8, <4>1 DEF OpOK
    <3> QED BY <3>1
  <2>14. StarsInv'
    <3>1. prStars' = prStars
      BY <1>4 DEF CreateAt
    <3>2. \A k \in DOMAIN prStars : prInvoices'[prStars[k]] = prInvoices[prStars[k]]
                                    /\ prStars[k] \in DOMAIN prInvoices'
      BY <2>8 DEF StarsInv
    <3>3. ~new.paid
      BY <2>3 DEF new
    <3>4. ASSUME NEW i \in DOMAIN prInvoices', prInvoices'[i].currency = "xtr" /\ prInvoices'[i].paid
          PROVE  \E k \in DOMAIN prStars : prStars[k] = i
      <4>1. i \in DOMAIN prInvoices /\ prInvoices'[i] = prInvoices[i]
        BY <2>8, <3>3, <3>4
      <4> QED BY <3>4, <4>1 DEF StarsInv
    <3> QED BY <3>1, <3>2, <3>4 DEF StarsInv
  <2> QED BY <1>4, <2>9, <2>10, <2>11, <2>12, <2>13, <2>14 DEF CreateAt, InvoiceOK, RefundOK
<1>5. ASSUME NEW i \in 1..MaxInvoices, PayInvoice(i) PROVE PrInv'
  <2>1. prInvoices[i] \in InvoiceSet /\ prInvoices \in Seq(InvoiceSet) /\ i \in DOMAIN prInvoices
    BY <1>5 DEF PrTypeOK, PayInvoice
  <2>2. [prInvoices[i] EXCEPT !.paid = TRUE]
          = [prInvoices[i] EXCEPT !.paid = TRUE, !.returned = prInvoices[i].returned]
    BY <2>1 DEF InvoiceSet
  <2>3. prInvoices' = [prInvoices EXCEPT ![i] = [@ EXCEPT !.paid = TRUE, !.returned = prInvoices[i].returned]]
    BY <1>5, <2>1, <2>2 DEF PayInvoice
  <2>4. /\ prInvoices[i].returned \in Nat /\ prInvoices[i].returned >= prInvoices[i].returned
        /\ prInvoices[i].returned <= prInvoices[i].asked
    BY <2>1 DEF InvoiceSet, InvoiceOK
  <2>5. prRows' = prRows /\ prCatalogue' = prCatalogue
    BY <1>5 DEF PayInvoice
  <2>6. /\ prInvoices' \in Seq(InvoiceSet) /\ Len(prInvoices') = Len(prInvoices)
        /\ \A k \in DOMAIN prInvoices' : InvoiceOK(prInvoices'[k])
        /\ \A k \in DOMAIN prInvoices' : \A rw \in prRows[k] : RowOK(prInvoices'[k], rw)
        /\ \A k \in Nat : OpOK(k) => OpOK(k)'
        /\ \A k \in DOMAIN prInvoices :
             /\ prInvoices'[k].currency = prInvoices[k].currency
             /\ prInvoices[k].paid => prInvoices'[k].paid
             /\ k # i => prInvoices'[k] = prInvoices[k]
    BY <2>1, <2>3, <2>4, <2>5, PaymentMoves
  <2>10. DOMAIN prInvoices' = DOMAIN prInvoices /\ prInvoices'[i].paid
    BY <1>5, <2>1, <2>6 DEF PrTypeOK, PayInvoice, InvoiceSet
  <2>11. /\ prStars' \in Seq(Nat)
         /\ \A k \in DOMAIN prStars : k \in DOMAIN prStars' /\ prStars'[k] = prStars[k]
         /\ \A k \in DOMAIN prStars' :
              \/ k \in DOMAIN prStars /\ prStars'[k] = prStars[k]
              \/ prInvoices[i].currency = "xtr" /\ prStars'[k] = i
         /\ prInvoices[i].currency = "xtr" => \E k \in DOMAIN prStars' : prStars'[k] = i
    <3>1. CASE prInvoices[i].currency = "xtr"
      <4>1. prStars' = Append(prStars, i) /\ prStars \in Seq(Nat) /\ i \in Nat
        BY <1>5, <2>1, <3>1 DEF PayInvoice, PrTypeOK
      <4>2. Len(prStars) + 1 \in DOMAIN prStars' /\ prStars'[Len(prStars) + 1] = i
        BY <4>1
      <4> QED BY <3>1, <4>1, <4>2
    <3>2. CASE prInvoices[i].currency # "xtr"
      BY <1>5, <3>2 DEF PayInvoice, PrTypeOK
    <3> QED BY <3>1, <3>2
  <2>12. StarsInv'
    <3>1. ASSUME NEW k \in DOMAIN prStars'
          PROVE  /\ prStars'[k] \in DOMAIN prInvoices
                 /\ prInvoices'[prStars'[k]].currency = "xtr" /\ prInvoices'[prStars'[k]].paid
      <4>1. CASE k \in DOMAIN prStars /\ prStars'[k] = prStars[k]
        BY <4>1, <2>6 DEF StarsInv
      <4>2. CASE prInvoices[i].currency = "xtr" /\ prStars'[k] = i
        BY <4>2, <2>1, <2>6, <2>10
      <4> QED BY <4>1, <4>2, <2>11
    <3>2. ASSUME NEW n \in DOMAIN prInvoices, prInvoices'[n].currency = "xtr", prInvoices'[n].paid
          PROVE  \E k \in DOMAIN prStars' : prStars'[k] = n
      <4>1. CASE n = i
        BY <4>1, <3>2, <2>6, <2>11
      <4>2. CASE n # i
        <5>1. PICK k \in DOMAIN prStars : prStars[k] = n
          BY <4>2, <3>2, <2>6 DEF StarsInv
        <5> QED BY <5>1, <2>11
      <4> QED BY <4>1, <4>2
    <3> QED BY <2>10, <3>1, <3>2 DEF StarsInv
  <2>7. PrTypeOK'
    BY <1>5, <2>6, <2>11 DEF PrTypeOK, PayInvoice
  <2>8. ListInv'
    BY <1>5 DEF ListInv, PayInvoice, PrPrices, Price, Override
  <2>9. \A o \in PrOperators : OpOK(prOps[o])'
    BY <1>5, <2>6 DEF PrTypeOK, PayInvoice
  <2> QED BY <1>5, <2>6, <2>7, <2>8, <2>9, <2>12 DEF PayInvoice, RowOK, RefundOK, InvoiceOK
<1>6. ASSUME NEW i \in 1..MaxInvoices, GrantRow(i) PROVE PrInv'
  <2> DEFINE rw == [amount |-> Recorded(i), status |-> "live"]
  <2>1. prInvoices[i] \in InvoiceSet /\ prInvoices \in Seq(InvoiceSet) /\ i \in DOMAIN prInvoices
        /\ i \in DOMAIN prRows
    BY <1>6 DEF PrTypeOK, GrantRow
  <2>2. Recorded(i) = (IF prInvoices[i].currency = "rub" THEN prInvoices[i].asked * 100 ELSE prCatalogue["xtr"])
        /\ Recorded(i) \in Nat
    <3>1. prInvoices[i].asked \in Nat
      BY <2>1 DEF InvoiceSet
    <3>2. prCatalogue["xtr"] \in Nat
      BY DEF PrTypeOK
    <3> QED BY <3>1, <3>2 DEF Recorded
  <2>3. rw \in RowSet /\ RowOK(prInvoices[i], rw)
    <3>1. prInvoices[i].paid
      BY <1>6 DEF GrantRow
    <3> QED BY <2>2, <3>1 DEF RowSet, RowOK, Statuses
  <2> HIDE DEF rw
  <2>4. prRows' = [prRows EXCEPT ![i] = {rw}]
    BY <1>6 DEF GrantRow, rw
  <2>5. prRows' \in Seq(SUBSET RowSet) /\ Len(prRows') = Len(prRows)
    BY <2>1, <2>3, <2>4 DEF PrTypeOK
  <2>6. PrTypeOK'
    BY <1>6, <2>5 DEF PrTypeOK, GrantRow
  <2>7. ListInv'
    BY <1>6 DEF ListInv, GrantRow, PrPrices, Price, Override
  <2>8. ASSUME NEW k \in DOMAIN prInvoices, NEW r \in prRows'[k]
        PROVE  RowOK(prInvoices[k], r)
    <3>1. CASE k = i
      BY <2>1, <2>3, <2>4, <3>1
    <3>2. CASE k # i
      <4>1. prRows'[k] = prRows[k]
        BY <2>4, <3>2 DEF PrTypeOK
      <4> QED BY <4>1
    <3> QED BY <3>1, <3>2
  <2> QED BY <1>6, <2>6, <2>7, <2>8 DEF GrantRow, RowOK, OpOK, RefundOK, InvoiceOK, StarsInv
<1>7. ASSUME NEW i \in 1..MaxInvoices, NEW n \in PrAmounts, CabinetReturns(i, n) PROVE PrInv'
  <2>1. i \in DOMAIN prInvoices /\ n \in Nat /\ GatewayReturns(i, n)
        /\ prRows' = prRows /\ prCatalogue' = prCatalogue
    BY <1>7, PricesAssumption DEF CabinetReturns
  <2>2. /\ prInvoices' \in Seq(InvoiceSet) /\ Len(prInvoices') = Len(prInvoices)
        /\ \A k \in DOMAIN prInvoices' : InvoiceOK(prInvoices'[k])
        /\ \A k \in DOMAIN prInvoices' : \A rw \in prRows[k] : RowOK(prInvoices'[k], rw)
        /\ \A k \in Nat : OpOK(k) => OpOK(k)'
        /\ prRefunds' \in Seq([invoice : Nat, amount : Nat, receipt : Receipts])
        /\ \A k \in DOMAIN prRefunds' : RefundOK(prRefunds'[k])
        /\ prInvoices'[i].currency = prInvoices[i].currency
        /\ \A k \in DOMAIN prInvoices : k # i => prInvoices'[k] = prInvoices[k]
    BY <2>1, RefundMoves
  <2>3. PrTypeOK'
    BY <1>7, <2>2 DEF PrTypeOK, CabinetReturns
  <2>4. ListInv'
    BY <1>7 DEF ListInv, CabinetReturns, PrPrices, Price, Override
  <2>5. \A o \in PrOperators : OpOK(prOps[o])'
    BY <1>7, <2>2 DEF PrTypeOK, CabinetReturns
  <2>6. StarsInv'
    <3>1. prStars' = prStars
      BY <1>7 DEF CabinetReturns
    <3>2. prInvoices[i].currency = "rub"
      BY <1>7 DEF CabinetReturns
    <3>3. prInvoices'[i].currency = "rub" /\ \A k \in DOMAIN prInvoices : k # i => prInvoices'[k] = prInvoices[k]
      <4> HIDE DEF PrInv
      <4>1. prInvoices'[i].currency = prInvoices[i].currency
        BY <2>2
      <4>2. \A k \in DOMAIN prInvoices : k # i => prInvoices'[k] = prInvoices[k]
        BY <2>2
      <4> QED BY <3>2, <4>1, <4>2
    <3>4. prInvoices' \in Seq(InvoiceSet) /\ Len(prInvoices') = Len(prInvoices) /\ prInvoices \in Seq(InvoiceSet)
      BY <2>2 DEF PrTypeOK
    <3> HIDE DEF PrInv
    <3>5. StarsInv
      BY DEF PrInv
    <3> QED BY <2>1, <3>1, <3>2, <3>3, <3>4, <3>5, StarsStay
  <2> QED BY <1>7, <2>2, <2>3, <2>4, <2>5, <2>6 DEF CabinetReturns, RowOK, RefundOK, InvoiceOK
<1>8. ASSUME NEW i \in 1..MaxInvoices, NEW o \in PrOperators, AskRefund(o, i) PROVE PrInv'
  <2>1. PICK rw \in prRows[i] :
          /\ Due(rw) > 0 /\ GatewayReturns(i, Due(rw))
          /\ prOps' \in {[prOps EXCEPT ![o] = i], prOps}
    BY <1>8 DEF AskRefund
  <2>2. /\ i \in DOMAIN prInvoices /\ prInvoices[i].currency = "rub"
        /\ prInvoices[i] \in InvoiceSet /\ InvoiceOK(prInvoices[i]) /\ RowOK(prInvoices[i], rw)
        /\ prRows' = prRows /\ prCatalogue' = prCatalogue
    <3>1. /\ i \in DOMAIN prInvoices /\ prInvoices[i].currency = "rub"
          /\ prRows' = prRows /\ prCatalogue' = prCatalogue
      BY <1>8 DEF AskRefund
    <3>2. prInvoices[i] \in InvoiceSet
      BY <3>1 DEF PrTypeOK
    <3>3. InvoiceOK(prInvoices[i]) /\ RowOK(prInvoices[i], rw)
      BY <3>1
    <3> QED BY <3>1, <3>2, <3>3
  <2>3. Due(rw) = prInvoices[i].asked /\ prInvoices[i].asked \in Nat /\ prInvoices[i].returned \in Nat
    <3>1. prInvoices[i].asked \in Nat /\ prInvoices[i].returned \in Nat
      BY <2>2 DEF InvoiceSet
    <3>2. (prInvoices[i].asked * 100) \div 100 = prInvoices[i].asked
      BY <3>1
    <3> QED BY <2>2, <3>1, <3>2 DEF RowOK, Due
  <2>4. /\ prInvoices' \in Seq(InvoiceSet) /\ Len(prInvoices') = Len(prInvoices)
        /\ \A k \in DOMAIN prInvoices' : InvoiceOK(prInvoices'[k])
        /\ \A k \in DOMAIN prInvoices' : \A r \in prRows[k] : RowOK(prInvoices'[k], r)
        /\ \A k \in Nat : OpOK(k) => OpOK(k)'
        /\ prRefunds' \in Seq([invoice : Nat, amount : Nat, receipt : Receipts])
        /\ \A k \in DOMAIN prRefunds' : RefundOK(prRefunds'[k])
        /\ prInvoices'[i].returned = prInvoices[i].returned + Due(rw)
        /\ prInvoices'[i].asked = prInvoices[i].asked
        /\ prInvoices'[i].currency = prInvoices[i].currency
        /\ \A k \in DOMAIN prInvoices : k # i => prInvoices'[k] = prInvoices[k]
    BY <2>1, <2>2, <2>3, RefundMoves
  <2>5. i \in DOMAIN prInvoices' /\ prInvoices'[i].returned = prInvoices'[i].asked
    <3>1. prInvoices[i].returned + prInvoices[i].asked <= prInvoices[i].asked
      BY <2>1, <2>3 DEF GatewayReturns, Returned
    <3>2. prInvoices[i].returned + prInvoices[i].asked = prInvoices[i].asked
      BY <2>3, <3>1
    <3>3. DOMAIN prInvoices' = DOMAIN prInvoices
      BY <2>4 DEF PrTypeOK
    <3>4. prInvoices'[i].returned = prInvoices[i].returned + prInvoices[i].asked
          /\ prInvoices'[i].asked = prInvoices[i].asked
      BY <2>3, <2>4
    <3> HIDE DEF PrInv
    <3> QED BY <2>2, <3>2, <3>3, <3>4
  <2>6. OpOK(i)'
    BY <2>5 DEF OpOK
  <2>7. prOps' \in [PrOperators -> Nat]
    <3>1. i \in Nat
      BY <2>2 DEF PrTypeOK
    <3>2. prOps \in [PrOperators -> Nat]
      BY DEF PrTypeOK
    <3> QED BY <2>1, <3>1, <3>2
  <2>8. PrTypeOK'
    BY <1>8, <2>4, <2>7 DEF PrTypeOK, AskRefund
  <2>9. ListInv'
    BY <1>8 DEF ListInv, AskRefund, PrPrices, Price, Override
  <2>10. ASSUME NEW p \in PrOperators PROVE OpOK(prOps[p])'
    <3>1. prOps'[p] = i \/ prOps'[p] = prOps[p]
      BY <2>1 DEF PrTypeOK
    <3>2. CASE prOps'[p] = i
      BY <3>2, <2>6 DEF OpOK
    <3>3. CASE prOps'[p] = prOps[p]
      <4>1. prOps[p] \in Nat /\ OpOK(prOps[p])
        BY DEF PrTypeOK
      <4>2. prOps[p] # 0 => prOps[p] \in DOMAIN prInvoices' /\ prInvoices'[prOps[p]].returned = prInvoices'[prOps[p]].asked
        BY <4>1, <2>4 DEF OpOK
      <4> QED BY <3>3, <4>2 DEF OpOK
    <3> QED BY <3>1, <3>2, <3>3
  <2>11. StarsInv'
    <3>1. prStars' = prStars
      BY <1>8 DEF AskRefund
    <3>2. prInvoices'[i].currency = "rub" /\ \A k \in DOMAIN prInvoices : k # i => prInvoices'[k] = prInvoices[k]
      <4> HIDE DEF PrInv
      <4>1. prInvoices'[i].currency = prInvoices[i].currency
        BY <2>4
      <4>2. \A k \in DOMAIN prInvoices : k # i => prInvoices'[k] = prInvoices[k]
        BY <2>4
      <4>3. prInvoices[i].currency = "rub"
        BY <2>2
      <4> QED BY <4>1, <4>2, <4>3
    <3>3. prInvoices' \in Seq(InvoiceSet) /\ Len(prInvoices') = Len(prInvoices) /\ prInvoices \in Seq(InvoiceSet)
      BY <2>4 DEF PrTypeOK
    <3> HIDE DEF PrInv
    <3>4. StarsInv
      BY DEF PrInv
    <3> QED BY <2>2, <3>1, <3>2, <3>3, <3>4, StarsStay
  <2> QED BY <1>8, <2>4, <2>8, <2>9, <2>10, <2>11 DEF AskRefund, RowOK, RefundOK, InvoiceOK
<1>9. ASSUME NEW o \in PrOperators, CommitRefund(o) PROVE PrInv'
  <2>1. OpOK(prOps[o]) /\ prOps[o] # 0 /\ prOps[o] \in DOMAIN prInvoices
    BY <1>9 DEF CommitRefund, OpOK
  <2>2. prInvoices[prOps[o]] \in InvoiceSet /\ InvoiceOK(prInvoices[prOps[o]])
    BY <2>1 DEF PrTypeOK
  <2>3. prInvoices[prOps[o]].returned > 0
    BY <2>1, <2>2 DEF OpOK, InvoiceOK, InvoiceSet
  <2>4. /\ prRows' \in Seq(SUBSET RowSet) /\ Len(prRows') = Len(prRows)
        /\ \A k \in DOMAIN prInvoices' : \A rw \in prRows'[k] : RowOK(prInvoices'[k], rw)
    BY <1>9, <2>1, <2>3, RefundedOnlyReturned DEF CommitRefund
  <2>5. prOps' \in [PrOperators -> Nat] /\ \A p \in PrOperators : prOps'[p] = 0 \/ prOps'[p] = prOps[p]
    BY <1>9 DEF CommitRefund, PrTypeOK
  <2>6. PrTypeOK'
    BY <1>9, <2>4, <2>5 DEF PrTypeOK, CommitRefund
  <2>7. ListInv'
    BY <1>9 DEF ListInv, CommitRefund, PrPrices, Price, Override
  <2>8. \A p \in PrOperators : OpOK(prOps[p])'
    BY <1>9, <2>5 DEF CommitRefund, OpOK
  <2> QED BY <1>9, <2>4, <2>6, <2>7, <2>8 DEF CommitRefund, RowOK, RefundOK, InvoiceOK, StarsInv
<1>10. ASSUME NEW i \in 1..MaxInvoices, RefundNotice(i) PROVE PrInv'
  <2>1. /\ prRows' \in Seq(SUBSET RowSet) /\ Len(prRows') = Len(prRows)
        /\ \A k \in DOMAIN prInvoices' : \A rw \in prRows'[k] : RowOK(prInvoices'[k], rw)
    BY <1>10, RefundedOnlyReturned DEF RefundNotice, Returned
  <2>2. PrTypeOK'
    BY <1>10, <2>1 DEF PrTypeOK, RefundNotice
  <2>3. ListInv'
    BY <1>10 DEF ListInv, RefundNotice, PrPrices, Price, Override
  <2> QED BY <1>10, <2>1, <2>2, <2>3 DEF RefundNotice, RowOK, OpOK, RefundOK, InvoiceOK, StarsInv
<1>11. ASSUME UNCHANGED prVars PROVE PrInv'
  <2>1. ListInv'
    BY <1>11 DEF prVars, ListInv, PrPrices, Price, Override
  <2>2. PrTypeOK'
    BY <1>11 DEF prVars, PrTypeOK
  <2> QED BY <1>11, <2>1, <2>2 DEF prVars, InvoiceOK, RowOK, OpOK, RefundOK, StarsInv
<1>12. ASSUME NEW i \in 1..MaxInvoices, StarsReturned(i) PROVE PrInv'
  <2>1. /\ prInvoices[i] \in InvoiceSet /\ prInvoices \in Seq(InvoiceSet) /\ i \in DOMAIN prInvoices
        /\ prInvoices[i].paid /\ prInvoices[i].currency = "xtr" /\ i \in Nat
    BY <1>12 DEF PrTypeOK, StarsReturned
  <2>2. [prInvoices[i] EXCEPT !.returned = prInvoices[i].asked]
          = [prInvoices[i] EXCEPT !.paid = TRUE, !.returned = prInvoices[i].asked]
    <3>1. prInvoices[i].paid = TRUE
      BY <2>1 DEF InvoiceSet
    <3> QED BY <2>1, <3>1 DEF InvoiceSet
  <2>3. prInvoices' = [prInvoices EXCEPT ![i] = [@ EXCEPT !.paid = TRUE, !.returned = prInvoices[i].asked]]
    BY <1>12, <2>1, <2>2 DEF StarsReturned
  <2>4. /\ prInvoices[i].asked \in Nat /\ prInvoices[i].asked >= prInvoices[i].returned
        /\ prInvoices[i].asked <= prInvoices[i].asked
    BY <2>1 DEF InvoiceSet, InvoiceOK
  <2>5. prRows' = prRows /\ prCatalogue' = prCatalogue /\ prStars' = Append(prStars, i)
    BY <1>12 DEF StarsReturned
  <2>6. /\ prInvoices' \in Seq(InvoiceSet) /\ Len(prInvoices') = Len(prInvoices)
        /\ \A k \in DOMAIN prInvoices' : InvoiceOK(prInvoices'[k])
        /\ \A k \in DOMAIN prInvoices' : \A rw \in prRows[k] : RowOK(prInvoices'[k], rw)
        /\ \A k \in Nat : OpOK(k) => OpOK(k)'
        /\ \A k \in DOMAIN prInvoices :
             /\ prInvoices'[k].currency = prInvoices[k].currency
             /\ prInvoices[k].paid => prInvoices'[k].paid
             /\ k # i => prInvoices'[k] = prInvoices[k]
    BY <2>1, <2>3, <2>4, <2>5, PaymentMoves
  <2>7. DOMAIN prInvoices' = DOMAIN prInvoices
    BY <2>6 DEF PrTypeOK
  <2>8. /\ prStars' \in Seq(Nat)
        /\ \A k \in DOMAIN prStars : k \in DOMAIN prStars' /\ prStars'[k] = prStars[k]
        /\ \A k \in DOMAIN prStars' :
             \/ k \in DOMAIN prStars /\ prStars'[k] = prStars[k]
             \/ prStars'[k] = i
    BY <2>1, <2>5 DEF PrTypeOK
  <2>9. StarsInv'
    <3>1. ASSUME NEW k \in DOMAIN prStars'
          PROVE  /\ prStars'[k] \in DOMAIN prInvoices
                 /\ prInvoices'[prStars'[k]].currency = "xtr" /\ prInvoices'[prStars'[k]].paid
      <4>1. CASE k \in DOMAIN prStars /\ prStars'[k] = prStars[k]
        BY <4>1, <2>6 DEF StarsInv
      <4>2. CASE prStars'[k] = i
        BY <4>2, <2>1, <2>6
      <4> QED BY <4>1, <4>2, <2>8
    <3>2. ASSUME NEW n \in DOMAIN prInvoices, prInvoices'[n].currency = "xtr", prInvoices'[n].paid
          PROVE  \E k \in DOMAIN prStars' : prStars'[k] = n
      <4>1. prInvoices[n].currency = "xtr" /\ prInvoices[n].paid
        <5>1. CASE n = i
          BY <5>1, <2>1
        <5>2. CASE n # i
          BY <5>2, <2>6, <3>2
        <5> QED BY <5>1, <5>2
      <4>2. PICK k \in DOMAIN prStars : prStars[k] = n
        BY <4>1 DEF StarsInv
      <4> QED BY <4>2, <2>8
    <3> QED BY <2>7, <3>1, <3>2 DEF StarsInv
  <2>10. PrTypeOK'
    BY <1>12, <2>6, <2>8 DEF PrTypeOK, StarsReturned
  <2>11. ListInv'
    BY <1>12 DEF ListInv, StarsReturned, PrPrices, Price, Override
  <2>12. \A o \in PrOperators : OpOK(prOps[o])'
    BY <1>12, <2>6 DEF PrTypeOK, StarsReturned
  <2> QED BY <1>12, <2>6, <2>9, <2>10, <2>11, <2>12 DEF StarsReturned, RowOK, RefundOK, InvoiceOK
<1>13. ASSUME NEW picked \in SUBSET (1..MaxInvoices), RevokePremium(picked) PROVE PrInv'
  <2>1. /\ prCatalogue.type = "subscription" /\ prRows \in Seq(SUBSET RowSet)
        /\ Len(prRows) = Len(prInvoices) /\ DOMAIN prRows = DOMAIN prInvoices
    BY <1>13 DEF RevokePremium, PrTypeOK
  <2> DEFINE left(i) == IF i \in picked THEN Ended(prRows[i], {"live"}, "revoked") ELSE prRows[i]
  <2>2. ASSUME NEW i \in DOMAIN prRows
        PROVE  left(i) \in SUBSET RowSet /\ \A rw \in left(i) : RowOK(prInvoices[i], rw)
    <3>1. CASE i \in picked
      BY <2>1, <3>1, EndedRows
    <3>2. CASE i \notin picked
      BY <2>1, <3>2
    <3> QED BY <3>1, <3>2
  <2>3. prRows' = [i \in DOMAIN prRows |-> left(i)]
    BY <1>13 DEF RevokePremium
  <2> HIDE DEF left
  <2>4. /\ prRows' \in Seq(SUBSET RowSet) /\ Len(prRows') = Len(prRows)
    BY <2>1, <2>2, <2>3
  <2>5. \A i \in DOMAIN prInvoices : \A rw \in prRows'[i] : RowOK(prInvoices[i], rw)
    BY <2>1, <2>2, <2>3
  <2>6. PrTypeOK'
    BY <1>13, <2>4 DEF PrTypeOK, RevokePremium
  <2>7. ListInv'
    BY <1>13 DEF ListInv, RevokePremium, PrPrices, Price, Override
  <2> QED BY <1>13, <2>5, <2>6, <2>7 DEF RevokePremium, RowOK, OpOK, RefundOK, InvoiceOK, StarsInv
<1>14. "xtr" \in Currencies /\ "rub" \in Currencies
  BY DEF Currencies
<1>15. CASE PrNext
  <2> USE <1>15
  <2> QED BY <1>1, <1>2, <1>3, <1>4, <1>5, <1>6, <1>7, <1>8, <1>9, <1>10, <1>12, <1>13, <1>14
          DEF PrNext, CreateInvoice, CreateYukassaPayment
<1> QED BY <1>11, <1>15

(* Whatever prices are edited between the list, the invoice, the payment, the row
   and the refund, in any order of webhooks, refunds and operators, the amounts
   agree. *)
THEOREM AmountsAgreeHolds == PrSpec => []AmountsAgree
<1>1. PrInit => PrInv
  BY PrInvInit
<1>2. PrInv /\ [PrNext]_prVars => PrInv'
  BY PrInvNext
<1>3. PrInv => AmountsAgree
  BY PrInvAgrees
<1> QED BY <1>1, <1>2, <1>3, PTL DEF PrSpec

-----------------------------------------------------------------------------
(* The bucket.  GrantsWithinRate is not inductive: what has been granted and
   what the bucket still holds stay within the time the bucket has counted, and a
   bucket that was forgotten had been full again for Lag. *)

LEMMA MinOfTwo ==
  ASSUME NEW a \in Int, NEW b \in Int
  PROVE  Min({a, b}) \in {a, b} /\ Min({a, b}) <= a /\ Min({a, b}) <= b
<1>1. \E x \in {a, b} : \A y \in {a, b} : x <= y
  <2>1. CASE a <= b
    BY <2>1
  <2>2. CASE b <= a
    BY <2>2
  <2> QED BY <2>1, <2>2
<1> QED BY <1>1 DEF Min

LEMMA MaxOfTwo ==
  ASSUME NEW a \in Int, NEW b \in Int
  PROVE  Max({a, b}) \in {a, b} /\ Max({a, b}) >= a /\ Max({a, b}) >= b
<1>1. \E x \in {a, b} : \A y \in {a, b} : x >= y
  <2>1. CASE a <= b
    BY <2>1
  <2>2. CASE b <= a
    BY <2>2
  <2> QED BY <2>1, <2>2
<1> QED BY <1>1 DEF Max

LEMMA MinOfThree ==
  ASSUME NEW a \in Int, NEW b \in Int, NEW c \in Int
  PROVE  Min({a, b, c}) \in Int
<1>1. \E x \in {a, b, c} : \A y \in {a, b, c} : x <= y
  <2>1. PICK m \in {a, b} : m <= a /\ m <= b
    BY MinOfTwo
  <2>2. CASE m <= c
    BY <2>1, <2>2
  <2>3. CASE c <= m
    BY <2>1, <2>3
  <2> QED BY <2>2, <2>3
<1> QED BY <1>1 DEF Min

-----------------------------------------------------------------------------

(* A reading on its way to the script is at most Lag old. *)
ReadingsInv ==
  \A c \in Callers : call[c].at = "script" => call[c].now <= ticks /\ ticks <= call[c].now + Lag

(* Granted and left together never exceed a bucket and the time counted. *)
CountInv ==
  /\ touched <= ticks
  /\ bucket.there => bucket.ts <= touched /\ granted + bucket.tokens <= Capacity + bucket.ts
  /\ ~bucket.there => granted = 0 \/ granted + Lag <= ticks

BucketIInv == BucketTypeOK /\ ReadingsInv /\ CountInv

THEOREM BucketInitInv == BucketInit => BucketIInv
BY BucketAssumption
DEF BucketInit, BucketIInv, BucketTypeOK, ReadingsInv, CountInv, NoCall, CallRecord

(* The script's refill with a reading that is at most Lag old. *)
LEMMA RefilledCounts ==
  ASSUME BucketIInv, NEW c \in Callers, call[c].at = "script"
  PROVE  LET b == Refilled(call[c].now)
         IN /\ b \in [there: BOOLEAN, tokens: 0..Capacity, ts: Nat]
            /\ b.there /\ b.ts <= ticks
            /\ granted + b.tokens <= Capacity + b.ts
<1> USE BucketAssumption
<1> DEFINE now == call[c].now
<1>t. BucketTypeOK /\ ReadingsInv /\ CountInv
  BY DEF BucketIInv
<1>1. now \in Nat /\ now <= ticks /\ ticks <= now + Lag
  BY <1>t DEF BucketTypeOK, CallRecord, ReadingsInv
<1>2. /\ bucket.there \in BOOLEAN /\ bucket.tokens \in 0..Capacity /\ bucket.ts \in Nat
      /\ ticks \in Nat /\ granted \in Nat /\ touched \in Nat
  BY <1>t DEF BucketTypeOK
<1> HIDE DEF now
<1>3. CASE ~bucket.there
  <2>1. granted <= now
    BY <1>1, <1>2, <1>3, <1>t DEF CountInv
  <2>2. Refilled(now) = [there |-> TRUE, tokens |-> Capacity, ts |-> now]
    BY <1>3 DEF Refilled
  <2> QED BY <1>1, <1>2, <2>1, <2>2 DEF now
<1>4. CASE bucket.there /\ now > bucket.ts
  <2> DEFINE m == Min({Capacity, bucket.tokens + (now - bucket.ts)})
  <2>1. m \in 0..Capacity /\ m <= bucket.tokens + (now - bucket.ts)
    <3> DEFINE sum == bucket.tokens + (now - bucket.ts)
    <3>1. Capacity \in Nat /\ sum \in Nat
      BY <1>1, <1>2, <1>4
    <3> HIDE DEF sum
    <3>2. Capacity \in Int /\ sum \in Int
      BY <3>1
    <3>3. Min({Capacity, sum}) \in {Capacity, sum}
      BY <3>2, MinOfTwo, Zenon
    <3>4. Min({Capacity, sum}) <= Capacity /\ Min({Capacity, sum}) <= sum
      BY <3>2, MinOfTwo, Zenon
    <3>5. m = Min({Capacity, sum})
      BY DEF sum
    <3>6. m \in 0..Capacity /\ m <= sum
      BY <3>1, <3>3, <3>4, <3>5
    <3> QED BY <3>6 DEF sum
  <2>2. Refilled(now) = [there |-> TRUE, tokens |-> m, ts |-> now]
    BY <1>4 DEF Refilled
  <2>3. granted + bucket.tokens <= Capacity + bucket.ts
    BY <1>4, <1>t DEF CountInv
  <2> HIDE DEF m
  <2>4. granted + m <= Capacity + now
    BY <1>1, <1>2, <2>1, <2>3
  <2> QED BY <1>1, <2>1, <2>2, <2>4 DEF now
<1>5. CASE bucket.there /\ ~(now > bucket.ts)
  <2>1. Refilled(now) = bucket
    BY <1>5 DEF Refilled
  <2>2. bucket.ts <= ticks
    BY <1>2, <1>5, <1>t DEF CountInv
  <2> QED BY <1>5, <1>t, <2>1, <2>2 DEF CountInv, BucketTypeOK, now
<1> QED BY <1>3, <1>4, <1>5

LEMMA BucketStep == BucketIInv /\ [BucketNext]_bucketVars => BucketIInv'
<1> SUFFICES ASSUME BucketIInv, [BucketNext]_bucketVars PROVE BucketIInv'
  OBVIOUS
<1> USE BucketAssumption
<1>t. BucketTypeOK /\ ReadingsInv /\ CountInv
  BY DEF BucketIInv
<1>1. ASSUME NEW c \in Callers, NEW estimate \in 0..Capacity + 1, Acquire(c, estimate)
      PROVE  BucketIInv'
  <2> DEFINE want == Max({1, Min({estimate, Capacity})})
  <2>1. want \in 0..Capacity
    <3> DEFINE least == Min({estimate, Capacity})
    <3>1. estimate \in Int /\ Capacity \in Int /\ 1 \in Int
      OBVIOUS
    <3>2. least \in {estimate, Capacity} /\ least <= estimate /\ least <= Capacity
      BY <3>1, MinOfTwo, Zenon
    <3>3. least \in Int /\ least <= Capacity
      BY <3>1, <3>2
    <3> HIDE DEF least
    <3>4. Max({1, least}) \in {1, least}
      BY <3>1, <3>3, MaxOfTwo, Zenon
    <3>5. Max({1, least}) >= 1
      BY <3>1, <3>3, MaxOfTwo, Zenon
    <3>6. want = Max({1, least})
      BY DEF least
    <3> QED BY <3>3, <3>4, <3>5, <3>6
  <2> DEFINE q == [at |-> "clock", want |-> want, now |-> 0,
                   deadline |-> ticks + WaitLimit, wake |-> 0]
  <2>2. call' = [call EXCEPT ![c] = q] /\ UNCHANGED <<ticks, bucket, touched, granted>>
    BY <1>1 DEF Acquire
  <2>3. q \in CallRecord /\ q.at = "clock"
    BY <2>1, <1>t DEF CallRecord, BucketTypeOK
  <2> HIDE DEF q
  <2> QED BY <2>2, <2>3, <1>t DEF BucketIInv, BucketTypeOK, ReadingsInv, CountInv
<1>2. ASSUME NEW c \in Callers, ReadTime(c)
      PROVE  BucketIInv'
  <2>1. UNCHANGED <<ticks, bucket, touched, granted>>
    BY <1>2 DEF ReadTime
  <2>2. call[c] \in CallRecord
    BY <1>t DEF BucketTypeOK
  <2>3. call' = [call EXCEPT ![c] = [call[c] EXCEPT !.at = "script", !.now = ticks]]
    BY <1>2 DEF ReadTime
  <2>4. [call[c] EXCEPT !.at = "script", !.now = ticks] \in CallRecord
    BY <2>2, <1>t DEF CallRecord, BucketTypeOK
  <2>5. call' \in [Callers -> CallRecord] /\ call'[c].now = ticks
        /\ \A d \in Callers \ {c} : call'[d] = call[d]
    BY <2>2, <2>3, <2>4, <1>t DEF CallRecord, BucketTypeOK
  <2> QED BY <2>1, <2>5, <1>t DEF BucketIInv, BucketTypeOK, ReadingsInv, CountInv
<1>3. ASSUME NEW c \in Callers, Granted(c)
      PROVE  BucketIInv'
  <2> DEFINE b == Refilled(call[c].now)
             want == call[c].want
  <2>1. /\ b \in [there: BOOLEAN, tokens: 0..Capacity, ts: Nat]
        /\ b.there /\ b.ts <= ticks /\ granted + b.tokens <= Capacity + b.ts
    BY <1>3, RefilledCounts DEF Granted
  <2>2. want \in 0..Capacity /\ want <= b.tokens
    BY <1>3, <1>t, <2>1 DEF Granted, BucketTypeOK, CallRecord
  <2>3. /\ bucket' = [b EXCEPT !.tokens = @ - want]
        /\ granted' = granted + want /\ touched' = ticks /\ ticks' = ticks
        /\ call' = [call EXCEPT ![c] = NoCall]
    BY <1>3 DEF Granted
  <2>4. NoCall \in CallRecord /\ NoCall.at = "idle"
    BY DEF NoCall, CallRecord
  <2> HIDE DEF b, want
  <2>5. /\ bucket' \in [there: BOOLEAN, tokens: 0..Capacity, ts: Nat]
        /\ bucket'.there /\ bucket'.ts = b.ts /\ bucket'.tokens = b.tokens - want
    BY <2>1, <2>2, <2>3
  <2>6. CountInv'
    BY <2>1, <2>2, <2>3, <2>5, <1>t DEF CountInv, BucketTypeOK
  <2> QED BY <2>2, <2>3, <2>4, <2>5, <2>6, <1>t DEF BucketIInv, BucketTypeOK, ReadingsInv
<1>4. ASSUME NEW c \in Callers, Refused(c)
      PROVE  BucketIInv'
  <2> DEFINE b == Refilled(call[c].now)
             later == [call[c] EXCEPT !.at = "sleep", !.wake = ticks + Sleep(c)]
  <2>1. /\ b \in [there: BOOLEAN, tokens: 0..Capacity, ts: Nat]
        /\ b.there /\ b.ts <= ticks /\ granted + b.tokens <= Capacity + b.ts
    BY <1>4, RefilledCounts DEF Refused
  <2>2. /\ bucket' = b /\ touched' = ticks /\ UNCHANGED <<ticks, granted>>
        /\ \/ call' = [call EXCEPT ![c] = NoCall]
           \/ call' = [call EXCEPT ![c] = later]
    BY <1>4 DEF Refused
  <2>3. NoCall \in CallRecord /\ NoCall.at = "idle"
    BY DEF NoCall, CallRecord
  <2>4. call[c] \in CallRecord /\ b.tokens \in Int
    BY <2>1, <1>t DEF BucketTypeOK
  <2>5. ticks + Sleep(c) \in Nat
    <3> DEFINE least == Min({call[c].want - b.tokens, Recheck, call[c].deadline - call[c].now})
    <3>1. least \in Int
      BY <2>4, MinOfThree DEF CallRecord
    <3>2. Sleep(c) = Max({1, least})
      BY DEF Sleep
    <3> HIDE DEF least
    <3>3. Max({1, least}) \in Int /\ Max({1, least}) >= 1
      BY <3>1, MaxOfTwo
    <3> QED BY <3>2, <3>3, <1>t DEF BucketTypeOK
  <2>6. later \in CallRecord /\ later.at = "sleep"
    BY <2>4, <2>5 DEF CallRecord
  <2> HIDE DEF b, later
  <2>7. call' \in [Callers -> CallRecord] /\ call'[c].at # "script"
        /\ \A d \in Callers \ {c} : call'[d] = call[d]
    BY <2>2, <2>3, <2>6, <1>t DEF BucketTypeOK
  <2>8. CountInv'
    BY <2>1, <2>2, <1>t DEF CountInv, BucketTypeOK
  <2> QED BY <2>1, <2>2, <2>7, <2>8, <1>t DEF BucketIInv, BucketTypeOK, ReadingsInv
<1>5. ASSUME NEW c \in Callers, Wake(c)
      PROVE  BucketIInv'
  <2>1. UNCHANGED <<ticks, bucket, touched, granted>>
    BY <1>5 DEF Wake
  <2>2. call[c] \in CallRecord
    BY <1>t DEF BucketTypeOK
  <2>3. call' = [call EXCEPT ![c] = [call[c] EXCEPT !.at = "clock"]]
    BY <1>5 DEF Wake
  <2>4. [call[c] EXCEPT !.at = "clock"] \in CallRecord
    BY <2>2 DEF CallRecord
  <2>5. call' \in [Callers -> CallRecord] /\ call'[c].at = "clock"
        /\ \A d \in Callers \ {c} : call'[d] = call[d]
    BY <2>2, <2>3, <2>4, <1>t DEF CallRecord, BucketTypeOK
  <2> QED BY <2>1, <2>5, <1>t DEF BucketIInv, BucketTypeOK, ReadingsInv, CountInv
<1>6. ASSUME BucketExpires
      PROVE  BucketIInv'
  <2>1. /\ bucket.there /\ touched + Capacity + Lag <= ticks
        /\ bucket' = [bucket EXCEPT !.there = FALSE]
        /\ UNCHANGED <<ticks, touched, call, granted>>
    BY <1>6, <1>t DEF BucketExpires, BucketTypeOK
  <2>2. granted + Lag <= ticks
    BY <2>1, <1>t DEF CountInv, BucketTypeOK
  <2>3. bucket' \in [there: BOOLEAN, tokens: 0..Capacity, ts: Nat] /\ ~bucket'.there
    BY <2>1, <1>t DEF BucketTypeOK
  <2> QED BY <2>1, <2>2, <2>3, <1>t DEF BucketIInv, BucketTypeOK, ReadingsInv, CountInv
<1>7. ASSUME Tick
      PROVE  BucketIInv'
  <2>1. /\ ticks' = ticks + 1 /\ UNCHANGED <<bucket, touched, call, granted>>
        /\ \A c \in Callers : call[c].at = "script" => ticks < call[c].now + Lag
    BY <1>7 DEF Tick
  <2>2. BucketTypeOK'
    BY <2>1, <1>t DEF BucketTypeOK
  <2>3. ReadingsInv'
    <3>1. ASSUME NEW c \in Callers, call[c].at = "script"
          PROVE  call[c].now <= ticks + 1 /\ ticks + 1 <= call[c].now + Lag
      BY <2>1, <3>1, <1>t DEF ReadingsInv, BucketTypeOK, CallRecord
    <3> QED BY <2>1, <3>1 DEF ReadingsInv
  <2>4. CountInv'
    BY <2>1, <1>t DEF CountInv, BucketTypeOK
  <2> QED BY <2>2, <2>3, <2>4 DEF BucketIInv
<1>8. CASE UNCHANGED bucketVars
  BY <1>8, <1>t DEF bucketVars, BucketIInv, BucketTypeOK, ReadingsInv, CountInv
<1> QED BY <1>1, <1>2, <1>3, <1>4, <1>5, <1>6, <1>7, <1>8 DEF BucketNext

(* Whatever the order of clock readings and scripts, the number of callers
   and the size of the bucket, and although an idle bucket is forgotten, no
   more is granted than one full bucket and what time regains. *)
THEOREM RateIsKept == BucketSpec => [](BucketTypeOK /\ GrantsWithinRate)
<1>1. BucketIInv => BucketTypeOK /\ GrantsWithinRate
  BY BucketAssumption DEF BucketIInv, BucketTypeOK, CountInv, GrantsWithinRate
<1> QED BY <1>1, BucketInitInv, BucketStep, PTL DEF BucketSpec

-----------------------------------------------------------------------------
(* The draws.  A request that began after another's commit sees its row, and
   the newest row stands for every earlier one because rows begun later are
   stamped later. *)

LEMMA MinIsMember ==
  ASSUME NEW T, T \subseteq Nat, T # {}
  PROVE  Min(T) \in T
<1>1. PICK x \in T : \A y \in T : x <= y
  BY LeastNatural
<1> QED BY <1>1 DEF Min

(* A set of records with a bounded number has one with the greatest. *)
LEMMA GreatestBegan ==
  ASSUME NEW rs, rs # {}, NEW n \in Nat, \A r \in rs : r.began \in 0..n
  PROVE  \E r \in rs : \A s \in rs : s.began <= r.began
<1> DEFINE T == {n - r.began : r \in rs}
<1>1. T \subseteq Nat /\ T # {}
  OBVIOUS
<1>2. PICK x \in T : \A y \in T : x <= y
  BY <1>1, LeastNatural
<1>3. PICK r \in rs : x = n - r.began
  OBVIOUS
<1>4. ASSUME NEW s \in rs PROVE s.began <= r.began
  <2>1. n - s.began \in T
    OBVIOUS
  <2>2. n - r.began <= n - s.began
    BY <2>1, <1>2, <1>3
  <2> QED BY <2>2
<1> QED BY <1>4

(* The periods of Minsk's days and weeks. *)
LEMMA Periods ==
  ASSUME NEW s \in Nat, NEW t \in Nat, NEW kind
  PROVE  /\ PeriodStart(t, kind) \in Int /\ PeriodEnd(t, kind) \in Int
         /\ t < PeriodEnd(t, kind)
         /\ PeriodStart(s, kind) = PeriodStart(t, kind) => PeriodEnd(s, kind) = PeriodEnd(t, kind)
         /\ s <= t => PeriodEnd(s, kind) <= PeriodEnd(t, kind)
<1> DEFINE w == Weekly(kind)
<1>1. CASE w
  BY <1>1 DEF PeriodStart, PeriodEnd
<1>2. CASE ~w
  BY <1>2 DEF PeriodStart, PeriodEnd
<1> QED BY <1>1, <1>2

-----------------------------------------------------------------------------
Active == {h \in DrawHandlers : dreq[h].at # "idle"}

(* When the rows, and the requests under way, began. *)
Begun == {<<r.began, r.created>> : r \in drawn}
           \cup {<<dreq[h].began, dreq[h].created>> : h \in Active}

DrawTypes ==
  /\ hourNow \in Instants /\ stamp \in 0..MaxStamp
  /\ drawn \subseteq DrawRow /\ dreq \in [DrawHandlers -> DrawRequest]
  /\ \A h \in Active : dreq[h].kind \in Kinds /\ dreq[h].created \in Instants
  /\ \A h \in DrawHandlers :
       dreq[h].at \in {"limit", "insert"} => dreq[h].decided \in Instants

(* What began later is stamped later, never in the future. *)
BegunInOrder ==
  /\ \A a \in Begun : a[1] < stamp /\ a[2] <= hourNow
  /\ \A a, b \in Begun : a[1] <= b[1] => a[2] <= b[2]

(* A request that has decided to draw began before every draw of its period
   was committed. *)
Same(q, s) ==
  /\ q.kind = s.kind
  /\ PeriodStart(q.created, q.kind) = PeriodStart(q.decided, q.kind)
  /\ PeriodStart(q.created, q.kind) = PeriodStart(s.created, s.kind)
DecidedInTime ==
  \A h \in DrawHandlers, s \in drawn :
    dreq[h].at \in {"limit", "insert"} /\ Same(dreq[h], s) => dreq[h].began < s.committed

DrawInv ==
  /\ DrawTypes /\ BegunInOrder /\ DecidedInTime
  /\ \A r \in drawn : r.committed < stamp
  /\ OneDrawPerPeriod

LEMMA IdleRequest == DrawsAssumption => DrawIdle \in DrawRequest /\ DrawIdle.at = "idle"
BY DEF DrawIdle, DrawRequest, DrawsAssumption

THEOREM DrawInvInit == DrawInit => DrawInv
<1> SUFFICES ASSUME DrawInit PROVE DrawInv
  OBVIOUS
<1> USE DrawsAssumption
<1>1. hourNow \in Instants
  BY MinIsMember DEF DrawInit, DrawsAssumption
<1>2. Active = {} /\ Begun = {} /\ drawn = {}
  BY IdleRequest DEF DrawInit, Active, Begun
<1>3. DrawTypes
  BY <1>1, <1>2, IdleRequest DEF DrawInit, DrawTypes, DrawsAssumption
<1> QED BY <1>2, <1>3 DEF DrawInv, BegunInOrder, DecidedInTime, OneDrawPerPeriod

LEMMA BegunTypes ==
  ASSUME DrawTypes, NEW a \in Begun
  PROVE  a[1] \in Nat /\ a[2] \in Nat
<1>1. Instants \subseteq Nat /\ 0..MaxStamp \subseteq Nat
  BY DrawsAssumption DEF DrawsAssumption
<1>2. ASSUME NEW r \in drawn, a = <<r.began, r.created>> PROVE a[1] \in Nat /\ a[2] \in Nat
  BY <1>1, <1>2 DEF DrawTypes, DrawRow
<1>3. ASSUME NEW h \in Active, a = <<dreq[h].began, dreq[h].created>>
      PROVE  a[1] \in Nat /\ a[2] \in Nat
  <2>1. dreq[h] \in DrawRequest /\ dreq[h].created \in Instants
    BY DEF DrawTypes, Active
  <2> QED BY <1>1, <1>3, <2>1 DEF DrawRequest
<1> QED BY <1>2, <1>3 DEF Begun

LEMMA OrderKept ==
  ASSUME DrawTypes, BegunInOrder, Begun' \subseteq Begun,
         stamp' \in {stamp, stamp + 1}, hourNow' \in Nat, hourNow' >= hourNow
  PROVE  BegunInOrder'
<1>1. stamp \in Nat /\ hourNow \in Nat
  BY DrawsAssumption DEF DrawTypes, DrawsAssumption
<1>2. ASSUME NEW a \in Begun' PROVE a[1] < stamp' /\ a[2] <= hourNow'
  <2>1. a \in Begun
    OBVIOUS
  <2>2. a[1] < stamp /\ a[2] <= hourNow /\ a[1] \in Nat /\ a[2] \in Nat
    BY <2>1, BegunTypes DEF BegunInOrder
  <2> QED BY <2>2, <1>1
<1>3. \A a, b \in Begun' : a[1] <= b[1] => a[2] <= b[2]
  BY DEF BegunInOrder
<1> QED BY <1>2, <1>3 DEF BegunInOrder

(* A request of h that ends, or goes on from where it was. *)
LEMMA BegunKept ==
  ASSUME DrawTypes, NEW h \in DrawHandlers, drawn' = drawn, dreq' \in [DrawHandlers -> DrawRequest],
         \A g \in DrawHandlers \ {h} : dreq'[g] = dreq[g],
         \/ dreq'[h].at = "idle"
         \/ dreq[h].at # "idle" /\ dreq'[h].began = dreq[h].began /\ dreq'[h].created = dreq[h].created
  PROVE  Begun' \subseteq Begun
<1>1. Active' \subseteq Active
  BY DEF Active
<1>2. \A g \in Active' : dreq'[g].began = dreq[g].began /\ dreq'[g].created = dreq[g].created
  BY DEF Active
<1> QED BY <1>1, <1>2 DEF Begun

LEMMA DrawInvStep == DrawInv /\ [DrawNext]_drawVars => DrawInv'
<1> SUFFICES ASSUME DrawInv, [DrawNext]_drawVars PROVE DrawInv'
  OBVIOUS
<1> USE DrawsAssumption
<1>t. /\ DrawTypes /\ BegunInOrder /\ DecidedInTime /\ OneDrawPerPeriod
      /\ \A r \in drawn : r.committed < stamp
      /\ stamp \in Nat /\ hourNow \in Nat /\ hourNow \in Instants /\ Instants \subseteq Nat
      /\ drawn \subseteq DrawRow /\ dreq \in [DrawHandlers -> DrawRequest]
      /\ MaxStamp \in Nat /\ stamp \in 0..MaxStamp
  BY DEF DrawInv, DrawTypes, DrawsAssumption
<1>i. DrawIdle \in DrawRequest /\ DrawIdle.at = "idle"
  BY IdleRequest
<1>1. ASSUME NEW h \in DrawHandlers, NEW kind \in Kinds, BeginDraw(h, kind)
      PROVE  DrawInv'
  <2> DEFINE q == [DrawIdle EXCEPT !.kind = kind, !.at = "look",
                                   !.created = hourNow, !.began = stamp]
  <2>1. /\ dreq[h] = DrawIdle /\ stamp < MaxStamp /\ stamp' = stamp + 1
        /\ dreq' = [dreq EXCEPT ![h] = q]
        /\ UNCHANGED <<hourNow, drawn, slots, drawFaults>>
    BY <1>1 DEF BeginDraw
  <2>2. /\ q \in DrawRequest /\ q.kind = kind /\ q.at = "look"
        /\ q.created = hourNow /\ q.began = stamp
    BY <1>t DEF DrawIdle, DrawRequest
  <2> HIDE DEF q
  <2>3. /\ dreq' \in [DrawHandlers -> DrawRequest] /\ dreq'[h] = q
        /\ \A g \in DrawHandlers \ {h} : dreq'[g] = dreq[g]
    BY <2>1, <2>2, <1>t
  <2>4. DrawTypes'
    <3>1. \A g \in Active' : dreq'[g].kind \in Kinds /\ dreq'[g].created \in Instants
      BY <2>2, <2>3, <1>t DEF Active, DrawTypes
    <3>2. \A g \in DrawHandlers : dreq'[g].at \in {"limit", "insert"} => dreq'[g].decided \in Instants
      BY <2>2, <2>3, <1>t DEF DrawTypes
    <3> QED BY <2>1, <2>3, <3>1, <3>2, <1>t DEF DrawTypes
  <2>5. BegunInOrder'
    <3>1. Begun' \subseteq Begun \cup {<<stamp, hourNow>>}
      <4>1. \A g \in Active' : g = h \/ (g \in Active /\ dreq'[g] = dreq[g])
        BY <2>3 DEF Active
      <4> QED BY <4>1, <2>1, <2>2, <2>3 DEF Begun
    <3>2. \A a \in Begun : /\ a[1] \in Nat /\ a[2] \in Nat
                           /\ a[1] < stamp /\ a[2] <= hourNow
      BY BegunTypes, <1>t DEF BegunInOrder
    <3>3. \A a \in Begun' : a[1] < stamp' /\ a[2] <= hourNow'
      BY <3>1, <3>2, <2>1, <1>t
    <3>4. \A a, b \in Begun' : a[1] <= b[1] => a[2] <= b[2]
      BY <3>1, <3>2, <2>1, <1>t DEF BegunInOrder
    <3> QED BY <3>3, <3>4 DEF BegunInOrder
  <2>6. DecidedInTime'
    BY <2>1, <2>2, <2>3, <1>t DEF DecidedInTime, Same
  <2>7. \A r \in drawn' : r.committed < stamp'
    BY <2>1, <1>t DEF DrawRow
  <2>8. OneDrawPerPeriod'
    BY <2>1, <1>t DEF OneDrawPerPeriod, WithinDay
  <2> QED BY <2>4, <2>5, <2>6, <2>7, <2>8 DEF DrawInv
<1>2. ASSUME NEW h \in DrawHandlers, UNCHANGED <<hourNow, drawn, stamp>>,
             dreq' \in [DrawHandlers -> DrawRequest],
             \A g \in DrawHandlers \ {h} : dreq'[g] = dreq[g],
             \/ dreq'[h].at = "idle"
             \/ /\ dreq[h].at # "idle"
                /\ dreq'[h].began = dreq[h].began /\ dreq'[h].created = dreq[h].created
                /\ dreq'[h].kind = dreq[h].kind
                /\ dreq'[h].at \in {"limit", "insert"} =>
                     /\ dreq'[h].decided \in Instants
                     /\ \A s \in drawn : Same(dreq'[h], s) => dreq'[h].began < s.committed
      PROVE  DrawInv'
  <2>1. DrawTypes'
    <3>1. \A g \in Active' : dreq'[g].kind \in Kinds /\ dreq'[g].created \in Instants
      BY <1>2, <1>t DEF Active, DrawTypes
    <3>2. \A g \in DrawHandlers : dreq'[g].at \in {"limit", "insert"} => dreq'[g].decided \in Instants
      BY <1>2, <1>t DEF DrawTypes
    <3> QED BY <1>2, <3>1, <3>2, <1>t DEF DrawTypes
  <2>2. BegunInOrder'
    <3>1. Begun' \subseteq Begun
      BY <1>2, <1>t, BegunKept
    <3> QED BY <3>1, <1>2, <1>t, OrderKept
  <2>3. DecidedInTime'
    <3> SUFFICES ASSUME NEW g \in DrawHandlers, NEW s \in drawn,
                        dreq'[g].at \in {"limit", "insert"}, Same(dreq'[g], s)
                 PROVE  dreq'[g].began < s.committed
      BY <1>2 DEF DecidedInTime, Same
    <3>1. CASE g = h
      BY <3>1, <1>2
    <3>2. CASE g # h
      BY <3>2, <1>2, <1>t DEF DecidedInTime
    <3> QED BY <3>1, <3>2
  <2> QED BY <2>1, <2>2, <2>3, <1>2, <1>t DEF DrawInv, OneDrawPerPeriod, WithinDay
<1>3. ASSUME NEW h \in DrawHandlers, Look(h)
      PROVE  DrawInv'
  <2> DEFINE kind == dreq[h].kind
             q == [dreq[h] EXCEPT !.at = IF kind = "mac" THEN "insert" ELSE "limit",
                                  !.decided = hourNow]
             seen == \E r \in Latest(kind) : ActivePeriod(r.created, kind, hourNow)
  <2>1. /\ dreq[h].at = "look" /\ UNCHANGED <<hourNow, drawn, stamp>>
        /\ dreq' = [dreq EXCEPT ![h] = IF seen THEN DrawIdle ELSE q]
    BY <1>3 DEF Look
  <2>2. /\ q \in DrawRequest /\ q.kind = kind /\ q.at \in {"insert", "limit"}
        /\ q.created = dreq[h].created /\ q.began = dreq[h].began /\ q.decided = hourNow
    <3>1. dreq[h] \in DrawRequest
      BY <1>t
    <3> QED BY <3>1, <1>t DEF DrawRequest
  <2>3. kind \in Kinds /\ q.created \in Nat
    BY <2>1, <2>2, <1>t DEF DrawTypes, Active
  <2>4. ASSUME ~seen, NEW s \in drawn, Same(q, s)
        PROVE  FALSE
    <3> DEFINE rs == {r \in drawn : r.kind = kind}
    <3>1. \A r \in rs : r.began \in 0..MaxStamp /\ r.created \in Nat
      BY <1>t DEF DrawRow
    <3>2. s \in rs
      BY <2>2, <2>4 DEF Same
    <3>3. PICK r \in rs : \A u \in rs : u.began <= r.began
      BY <3>1, <3>2, <1>t, GreatestBegan
    <3>4. r \in Latest(kind)
      BY <3>3 DEF Latest
    <3>5. s.created <= r.created
      <4>1. <<s.began, s.created>> \in Begun /\ <<r.began, r.created>> \in Begun
        BY DEF Begun
      <4>2. s.began <= r.began
        BY <3>2, <3>3
      <4> QED BY <4>1, <4>2, <1>t DEF BegunInOrder
    <3>6. PeriodStart(s.created, kind) = PeriodStart(hourNow, kind)
      BY <2>2, <2>4 DEF Same
    <3>7. /\ hourNow < PeriodEnd(hourNow, kind)
          /\ PeriodEnd(s.created, kind) = PeriodEnd(hourNow, kind)
          /\ PeriodEnd(s.created, kind) <= PeriodEnd(r.created, kind)
          /\ PeriodEnd(hourNow, kind) \in Int /\ PeriodEnd(r.created, kind) \in Int
      BY <3>1, <3>2, <3>5, <3>6, <1>t, Periods
    <3>8. hourNow < PeriodEnd(r.created, kind)
      BY <3>7, <1>t
    <3> QED BY <3>4, <3>8, <2>4 DEF ActivePeriod
  <2> HIDE DEF q, seen
  <2>5. CASE seen
    BY <2>1, <2>5, <1>2, <1>t, <1>i
  <2>6. CASE ~seen
    <3>1. dreq' \in [DrawHandlers -> DrawRequest] /\ dreq'[h] = q
          /\ \A g \in DrawHandlers \ {h} : dreq'[g] = dreq[g]
      BY <2>1, <2>2, <2>6, <1>t
    <3>2. \A s \in drawn : Same(dreq'[h], s) => dreq'[h].began < s.committed
      BY <3>1, <2>4, <2>6
    <3> QED BY <2>1, <2>2, <3>1, <3>2, <1>2, <1>t
  <2> QED BY <2>5, <2>6
<1>4. ASSUME NEW h \in DrawHandlers, TakeSlot(h)
      PROVE  DrawInv'
  <2> PICK at \in {"refund", "insert"} : at = IF slots + 1 > DrawLimit THEN "refund" ELSE "insert"
    OBVIOUS
  <2> DEFINE q == [dreq[h] EXCEPT !.at = at]
  <2>1. /\ dreq[h].at = "limit" /\ UNCHANGED <<hourNow, drawn, stamp>>
        /\ dreq' = [dreq EXCEPT ![h] = q]
    BY <1>4 DEF TakeSlot
  <2>2. /\ q \in DrawRequest /\ q.at = at /\ q.kind = dreq[h].kind
        /\ q.created = dreq[h].created /\ q.began = dreq[h].began /\ q.decided = dreq[h].decided
    <3>1. dreq[h] \in DrawRequest
      BY <1>t
    <3> QED BY <3>1 DEF DrawRequest
  <2> HIDE DEF q
  <2>3. dreq' \in [DrawHandlers -> DrawRequest] /\ dreq'[h] = q
        /\ \A g \in DrawHandlers \ {h} : dreq'[g] = dreq[g]
    BY <2>1, <2>2, <1>t
  <2>4. dreq[h].decided \in Instants
    BY <2>1, <1>t DEF DrawTypes
  <2>5. \A s \in drawn : Same(q, s) => q.began < s.committed
    BY <2>1, <2>2, <1>t DEF DecidedInTime, Same
  <2> QED BY <2>1, <2>2, <2>3, <2>4, <2>5, <1>2
<1>5. ASSUME NEW h \in DrawHandlers, ReturnSlot(h) \/ DrawDies(h)
      PROVE  DrawInv'
  BY <1>5, <1>2, <1>t, <1>i DEF ReturnSlot, DrawDies
<1>6. ASSUME NEW h \in DrawHandlers, CommitDraw(h)
      PROVE  DrawInv'
  <2> DEFINE q == dreq[h]
             rw == [kind |-> q.kind, created |-> q.created, began |-> q.began,
                     decided |-> q.decided, committed |-> stamp]
  <2>1. /\ dreq[h].at = "insert" /\ stamp < MaxStamp /\ stamp' = stamp + 1
        /\ drawn' = drawn \/ drawn' = drawn \cup {rw}
        /\ dreq' = [dreq EXCEPT ![h] = DrawIdle] /\ hourNow' = hourNow
    BY <1>6 DEF CommitDraw
  <2>2. /\ dreq' \in [DrawHandlers -> DrawRequest] /\ dreq'[h] = DrawIdle
        /\ \A g \in DrawHandlers \ {h} : dreq'[g] = dreq[g]
    BY <2>1, <1>t, <1>i
  <2>3. /\ q.kind \in Kinds /\ q.created \in Instants /\ q.decided \in Instants
        /\ q.began \in 0..MaxStamp /\ h \in Active
    BY <2>1, <1>t DEF DrawTypes, Active, DrawRequest
  <2>4. /\ rw \in DrawRow /\ rw.committed = stamp /\ rw.began = q.began
        /\ rw.kind = q.kind /\ rw.created = q.created /\ rw.decided = q.decided
    BY <2>3, <1>t DEF DrawRow
  <2>5. \A g \in Active : dreq[g].began < stamp
    <3>1. \A g \in Active : <<dreq[g].began, dreq[g].created>> \in Begun
      BY DEF Begun
    <3> QED BY <3>1, <1>t DEF BegunInOrder
  <2>6. \A s \in drawn : Same(q, s) => q.began < s.committed
    BY <2>1, <1>t DEF DecidedInTime
  <2> HIDE DEF rw, q
  <2>7. \A g \in Active' : g \in Active /\ g # h /\ dreq'[g] = dreq[g]
    BY <2>2, <1>i DEF Active
  <2>8. DrawTypes'
    <3>1. \A g \in Active' : dreq'[g].kind \in Kinds /\ dreq'[g].created \in Instants
      BY <2>7, <1>t DEF DrawTypes
    <3>2. \A g \in DrawHandlers : dreq'[g].at \in {"limit", "insert"} => dreq'[g].decided \in Instants
      BY <2>2, <1>t, <1>i DEF DrawTypes
    <3> QED BY <2>1, <2>2, <2>4, <3>1, <3>2, <1>t DEF DrawTypes
  <2>9. BegunInOrder'
    <3>1. Begun' \subseteq Begun
      BY <2>1, <2>3, <2>4, <2>7 DEF Begun, q
    <3> QED BY <3>1, <2>1, <1>t, OrderKept
  <2>10. DecidedInTime'
    <3> SUFFICES ASSUME NEW g \in DrawHandlers, NEW s \in drawn',
                        dreq'[g].at \in {"limit", "insert"}, Same(dreq'[g], s)
                 PROVE  dreq'[g].began < s.committed
      BY DEF DecidedInTime, Same
    <3>1. g \in Active /\ dreq'[g] = dreq[g]
      BY <2>2, <2>7, <1>i DEF Active
    <3>2. CASE s \in drawn
      BY <3>1, <3>2, <1>t DEF DecidedInTime
    <3>3. CASE s = rw
      BY <3>1, <3>3, <2>4, <2>5
    <3> QED BY <3>2, <3>3, <2>1
  <2>11. \A s \in drawn' : s.committed < stamp'
    <3>1. \A s \in drawn : s.committed \in Nat
      BY <1>t DEF DrawRow
    <3> QED BY <3>1, <2>1, <2>4, <1>t
  <2>12. OneDrawPerPeriod'
    <3> SUFFICES ASSUME NEW r \in drawn', NEW s \in drawn',
                        r.kind = s.kind, WithinDay(r), WithinDay(s),
                        PeriodStart(r.created, r.kind) = PeriodStart(s.created, s.kind)
                 PROVE  r.began < s.committed
      BY DEF OneDrawPerPeriod, WithinDay
    <3>1. \A u \in drawn' : u.began \in Nat /\ u.began < stamp
      <4>1. \A u \in drawn : <<u.began, u.created>> \in Begun
        BY DEF Begun
      <4>2. \A u \in drawn : u.began \in Nat
        BY <1>t DEF DrawRow
      <4>3. \A u \in drawn : u.began < stamp
        BY <4>1, <1>t DEF BegunInOrder
      <4> QED BY <4>2, <4>3, <2>1, <2>3, <2>4, <2>5 DEF q
    <3>2. CASE r \in drawn /\ s \in drawn
      BY <3>2, <1>t DEF OneDrawPerPeriod
    <3>3. CASE s = rw
      BY <3>1, <3>3, <2>4
    <3>4. CASE r = rw /\ s \in drawn
      <4>1. Same(q, s)
        BY <3>4, <2>4 DEF Same, WithinDay
      <4> QED BY <4>1, <3>4, <2>4, <2>6
    <3> QED BY <3>2, <3>3, <3>4, <2>1
  <2> QED BY <2>8, <2>9, <2>10, <2>11, <2>12 DEF DrawInv
<1>7. CASE TimePasses
  <2> DEFINE later == {t \in Instants : t > hourNow}
  <2>1. /\ later # {} /\ hourNow' = Min(later)
        /\ UNCHANGED <<drawn, dreq, slots, stamp, drawFaults>>
    BY <1>7 DEF TimePasses
  <2>2. hourNow' \in later
    BY <2>1, <1>t, MinIsMember
  <2>3. DrawTypes'
    BY <2>1, <2>2, <1>t DEF DrawTypes, Active
  <2>4. BegunInOrder'
    <3>1. Begun' = Begun
      BY <2>1 DEF Begun, Active
    <3> QED BY <3>1, <2>1, <2>2, <1>t, OrderKept
  <2> QED BY <2>1, <2>3, <2>4, <1>t DEF DrawInv, DecidedInTime, Same, OneDrawPerPeriod, WithinDay
<1>8. CASE UNCHANGED drawVars
  BY <1>8, <1>t DEF drawVars, DrawInv, DrawTypes, BegunInOrder, Begun, Active, DecidedInTime,
     Same, OneDrawPerPeriod, WithinDay
<1> QED BY <1>1, <1>3, <1>4, <1>5, <1>6, <1>7, <1>8 DEF DrawNext

(* "Once per day", for any number of requests, any spreads and any hours: two
   rows of one kind in one of Minsk's days or weeks come only from requests
   that overlapped, or that midnight passed. *)
THEOREM DrawnOnce == DrawSpec => []OneDrawPerPeriod
<1>1. DrawInv => OneDrawPerPeriod
  BY DEF DrawInv
<1> QED BY <1>1, DrawInvInit, DrawInvStep, PTL DEF DrawSpec

(* The month's counter counts every request that is about to give a slot back,
   however many there are: this is why a refund never takes it below zero. *)
Refunding == {h \in DrawHandlers : dreq[h].at = "refund"}
SlotsInv ==
  /\ slots \in Nat /\ drawFaults \in 0..MaxDrawFaults
  /\ IsFiniteSet(Refunding) /\ Cardinality(Refunding) <= slots

LEMMA SlotsInvInit == DrawInit => SlotsInv
<1> SUFFICES ASSUME DrawInit PROVE SlotsInv
  OBVIOUS
<1>1. Refunding = {}
  BY DEF DrawInit, Refunding, DrawIdle
<1> QED BY <1>1, FS_EmptySet, DrawsAssumption DEF DrawInit, SlotsInv

(* A step by which no request comes to give a slot back. *)
LEMMA FewerRefunds ==
  ASSUME SlotsInv, Refunding' \subseteq Refunding, slots' = slots,
         drawFaults' \in 0..MaxDrawFaults
  PROVE  SlotsInv'
<1>1. IsFiniteSet(Refunding') /\ Cardinality(Refunding') <= Cardinality(Refunding)
  BY FS_Subset DEF SlotsInv
<1>2. Cardinality(Refunding) \in Nat /\ Cardinality(Refunding') \in Nat
  BY <1>1, FS_CardinalityType DEF SlotsInv
<1> QED BY <1>1, <1>2 DEF SlotsInv

LEMMA SlotsInvStep == DrawInv /\ SlotsInv /\ [DrawNext]_drawVars => SlotsInv'
<1> SUFFICES ASSUME DrawInv, SlotsInv, [DrawNext]_drawVars PROVE SlotsInv'
  OBVIOUS
<1>t. /\ dreq \in [DrawHandlers -> DrawRequest] /\ DrawIdle.at = "idle"
      /\ slots \in Nat /\ drawFaults \in 0..MaxDrawFaults
      /\ MaxDrawFaults \in Nat /\ DrawLimit \in Nat
  BY DrawsAssumption, IdleRequest DEF DrawInv, DrawTypes, SlotsInv
<1>f. IsFiniteSet(Refunding) /\ Cardinality(Refunding) \in Nat /\ Cardinality(Refunding) <= slots
  BY FS_CardinalityType DEF SlotsInv
<1>1. ASSUME NEW h \in DrawHandlers, NEW kind \in Kinds, BeginDraw(h, kind) PROVE SlotsInv'
  <2>1. Refunding' \subseteq Refunding
    BY <1>1, <1>t DEF BeginDraw, Refunding
  <2> QED BY <1>1, <1>t, <2>1, FewerRefunds DEF BeginDraw
<1>2. ASSUME NEW h \in DrawHandlers, Look(h) PROVE SlotsInv'
  <2>1. Refunding' \subseteq Refunding
    BY <1>2, <1>t DEF Look, Refunding
  <2> QED BY <1>2, <1>t, <2>1, FewerRefunds DEF Look
<1>3. ASSUME NEW h \in DrawHandlers, TakeSlot(h) PROVE SlotsInv'
  <2>1. Refunding' \subseteq Refunding \cup {h} /\ slots' = slots + 1 /\ drawFaults' = drawFaults
    BY <1>3, <1>t DEF TakeSlot, Refunding
  <2>2. /\ IsFiniteSet(Refunding \cup {h})
        /\ Cardinality(Refunding \cup {h}) \in Nat
        /\ Cardinality(Refunding \cup {h}) <= Cardinality(Refunding) + 1
    <3>1. /\ IsFiniteSet(Refunding \cup {h})
          /\ Cardinality(Refunding \cup {h}) \in {Cardinality(Refunding), Cardinality(Refunding) + 1}
      BY <1>f, FS_AddElement, Zenon
    <3> QED BY <1>f, <3>1
  <2>3. IsFiniteSet(Refunding') /\ Cardinality(Refunding') <= Cardinality(Refunding \cup {h})
    BY <2>1, <2>2, FS_Subset
  <2>4. Cardinality(Refunding') \in Nat
    BY <2>3, FS_CardinalityType
  <2> QED BY <1>f, <1>t, <2>1, <2>2, <2>3, <2>4 DEF SlotsInv
<1>4. ASSUME NEW h \in DrawHandlers, ReturnSlot(h) PROVE SlotsInv'
  <2>1. h \in Refunding /\ Refunding' = Refunding \ {h}
    BY <1>4, <1>t DEF ReturnSlot, Refunding
  <2>2. slots' = slots - 1 /\ drawFaults' = drawFaults
    BY <1>4 DEF ReturnSlot
  <2>3. /\ IsFiniteSet(Refunding') /\ Cardinality(Refunding') \in Nat
        /\ Cardinality(Refunding') = Cardinality(Refunding) - 1
    BY <1>f, <2>1, FS_RemoveElement, FS_CardinalityType
  <2> QED BY <1>f, <1>t, <2>2, <2>3 DEF SlotsInv
<1>5. ASSUME NEW h \in DrawHandlers, CommitDraw(h) PROVE SlotsInv'
  <2>1. Refunding' \subseteq Refunding
    BY <1>5, <1>t DEF CommitDraw, Refunding
  <2> QED BY <1>5, <1>t, <2>1, FewerRefunds DEF CommitDraw
<1>6. ASSUME NEW h \in DrawHandlers, DrawDies(h) PROVE SlotsInv'
  <2>1. Refunding' \subseteq Refunding
    BY <1>6, <1>t DEF DrawDies, Refunding
  <2>2. slots' = slots /\ drawFaults' \in 0..MaxDrawFaults
    BY <1>6, <1>t DEF DrawDies
  <2> QED BY <2>1, <2>2, FewerRefunds
<1>7. CASE TimePasses \/ UNCHANGED drawVars
  <2>1. Refunding' \subseteq Refunding
    BY <1>7 DEF TimePasses, drawVars, Refunding
  <2> QED BY <1>7, <1>t, <2>1, FewerRefunds DEF TimePasses, drawVars
<1> QED BY <1>1, <1>2, <1>3, <1>4, <1>5, <1>6, <1>7 DEF DrawNext

(* Every variable of the draws keeps its type; in particular a refused draw
   never takes the month's counter below zero. *)
THEOREM DrawTypesHold == DrawSpec => []DrawTypeOK
<1>1. DrawInv /\ SlotsInv => DrawTypeOK
  BY DEF DrawInv, DrawTypes, SlotsInv, DrawTypeOK
<1> QED BY <1>1, DrawInvInit, DrawInvStep, SlotsInvInit, SlotsInvStep, PTL DEF DrawSpec

-----------------------------------------------------------------------------
(* The paid texts.  A request for a PDF is taken up only while there is
   access, and carries that with it to the end. *)

DlRequest == [report: DlReports, birth: Int, had: {TRUE}]

DownloadsInv ==
  /\ dlSubs \in Seq({"live", "ended"}) /\ dlBirth \in Int
  /\ dlAsk \in [DlHandlers -> {NoPdf} \cup DlRequest]
  /\ dlGiven.own /\ (dlGiven.paid => dlGiven.had)
  /\ dlReport \in {"none", "reader's"}

LEMMA GreatestIndex ==
  ASSUME NEW n \in Nat, NEW S \in SUBSET (1..n), S # {}
  PROVE  \E i \in S : \A j \in S : j <= i
<1> DEFINE T == {n - i : i \in S}
<1>1. T \subseteq Nat /\ T # {}
  <2>1. \A i \in S : i \in Int /\ i <= n
    OBVIOUS
  <2>2. \A i \in S : n - i \in Nat
    BY <2>1
  <2>3. PICK i \in S : TRUE
    OBVIOUS
  <2> QED
    BY <2>2, <2>3
<1>2. PICK x \in T : \A y \in T : x <= y
  BY <1>1, LeastNatural
<1>3. PICK i \in S : x = n - i
  OBVIOUS
<1>4. ASSUME NEW j \in S PROVE j <= i
  <2>1. n - j \in T
    OBVIOUS
  <2> QED
    BY <1>2, <1>3, <2>1
<1> QED
  BY <1>4

(* The profile shows a running subscription exactly when there is one. *)
LEMMA ShownIsRunning ==
  ASSUME DownloadsInv
  PROVE  ActiveSubscription # 0 <=> IsPremium
<1> DEFINE live == {i \in DOMAIN dlSubs : dlSubs[i] = "live"}
<1>1. DOMAIN dlSubs = 1..Len(dlSubs) /\ Len(dlSubs) \in Nat
  BY DEF DownloadsInv
<1>2. IsPremium <=> live # {}
  BY DEF IsPremium
<1>3. ASSUME live # {} PROVE ActiveSubscription \in live
  <2>1. \E i \in live : \A j \in live : j <= i
    BY <1>1, <1>3, GreatestIndex
  <2> QED
    BY <1>3, <2>1 DEF ActiveSubscription
<1>4. live = {} => ActiveSubscription = 0
  BY DEF ActiveSubscription
<1> QED
  BY <1>1, <1>2, <1>3, <1>4

LEMMA DownloadsInvInit == DlInit => DownloadsInv
BY DEF DlInit, DownloadsInv

(* A request that begins while there is access. *)
LEMMA TakenUp ==
  ASSUME DownloadsInv, NEW h \in DlHandlers, NEW k \in DlReports, HasFullAccess(k), Read(h, k)
  PROVE  dlAsk' \in [DlHandlers -> {NoPdf} \cup DlRequest]
<1>1. PICK had \in BOOLEAN : had = HasFullAccess(k)
  BY DEF HasFullAccess
<1>2. had = TRUE
  BY <1>1
<1> DEFINE q == [report |-> k, birth |-> IF k = "natal" THEN 0 ELSE dlBirth, had |-> HasFullAccess(k)]
<1>3. q = [report |-> k, birth |-> IF k = "natal" THEN 0 ELSE dlBirth, had |-> TRUE]
  BY <1>1, <1>2
<1>4. q \in DlRequest
  BY <1>3 DEF DownloadsInv, DlRequest
<1> QED
  BY <1>4 DEF Read, DownloadsInv

LEMMA DownloadsInvStep == DownloadsInv /\ [DlNext]_dlVars => DownloadsInv'
<1> SUFFICES ASSUME DownloadsInv, [DlNext]_dlVars PROVE DownloadsInv'
  OBVIOUS
<1>1. CASE RightsChange
  <2>1. dlSubs' \in Seq({"live", "ended"})
    <3>1. ASSUME NEW i \in DOMAIN dlSubs, dlSubs' = [dlSubs EXCEPT ![i] = "ended"]
          PROVE  dlSubs' \in Seq({"live", "ended"})
      BY <3>1 DEF DownloadsInv
    <3>2. CASE dlSubs' = Append(dlSubs, "live")
      BY <3>2 DEF DownloadsInv
    <3> QED
      BY <1>1, <3>1, <3>2 DEF RightsChange, DownloadsInv
  <2> QED
    BY <1>1, <2>1 DEF RightsChange, DownloadsInv
<1>2. CASE BirthEdit
  BY <1>2 DEF BirthEdit, rights, DownloadsInv
<1>3. ASSUME NEW k \in DlReports, CreateLink(k) \/ LinkExpires(k)
      PROVE  DownloadsInv'
  BY <1>3 DEF CreateLink, LinkExpires, rights, DownloadsInv
<1>4. ASSUME NEW k \in DlReports, ReadSections(k)
      PROVE  DownloadsInv'
  <2> DEFINE full == HasFullAccess(k)
  <2>1. PICK had \in BOOLEAN : had = full
    BY DEF HasFullAccess
  <2> DEFINE shown == Visible(dlTexts', full)
  <2> HIDE DEF shown
  <2>3. dlGiven' = [paid |-> "paid" \in shown, had |-> had, own |-> TRUE]
    BY <1>4, <2>1 DEF ReadSections, shown
  <2>4. ~full => "paid" \notin shown
    BY DEF Visible, shown
  <2>5. "paid" \in shown => had
    BY <2>1, <2>4
  <2>6. dlGiven'.own /\ (dlGiven'.paid => dlGiven'.had)
    BY <2>3, <2>5
  <2> QED
    BY <1>4, <2>6 DEF ReadSections, rights, DownloadsInv
<1>5. ASSUME NEW h \in DlHandlers, NEW k \in DlReports, OpenLink(h, k) \/ AskPdf(h, k)
      PROVE  DownloadsInv'
  BY <1>5, TakenUp DEF OpenLink, StillAllowed, AskPdf, rights, DownloadsInv
<1>6. ASSUME NEW h \in DlHandlers, BuildFails(h)
      PROVE  DownloadsInv'
  BY <1>6 DEF BuildFails, PdfAnswered, rights, DownloadsInv
<1>7. ASSUME NEW h \in DlHandlers, DeliverPdf(h)
      PROVE  DownloadsInv'
  <2>1. dlAsk[h].had = TRUE
    BY <1>7 DEF DeliverPdf, DownloadsInv, DlRequest
  <2>2. PICK own \in BOOLEAN : own = (dlAsk[h].report = "natal" \/ BirthDrawn(dlAsk[h]) = dlAsk[h].birth)
    OBVIOUS
  <2>3. own = TRUE
    BY <2>2 DEF BirthDrawn
  <2>4. dlGiven' = [paid |-> TRUE, had |-> TRUE, own |-> TRUE]
    BY <1>7, <2>1, <2>2, <2>3 DEF DeliverPdf
  <2> QED
    <3>1. dlGiven'.own /\ (dlGiven'.paid => dlGiven'.had)
      BY <2>4
    <3>2. dlAsk' \in [DlHandlers -> {NoPdf} \cup DlRequest]
      BY <1>7 DEF DeliverPdf, PdfAnswered, DownloadsInv
    <3>3. dlReport' \in {"none", "reader's"}
      BY <1>7, <2>1 DEF DeliverPdf, DownloadsInv
    <3> QED
      BY <1>7, <3>1, <3>2, <3>3 DEF DeliverPdf, rights, DownloadsInv
<1>8. CASE UNCHANGED dlVars
  BY <1>8 DEF dlVars, DownloadsInv
<1>9. CASE ReadFull \/ ReadDescriptions
  <2>1. PICK had \in BOOLEAN : had = HasFullAccess("natal")
    BY DEF HasFullAccess
  <2>2. PICK asked \in BOOLEAN : asked = (dlReport = "reader's")
    OBVIOUS
  <2>3. dlReport # "none" => asked = TRUE
    BY <2>2 DEF DownloadsInv
  <2>4. dlGiven' = [paid |-> TRUE, had |-> TRUE, own |-> TRUE]
    <3>1. CASE ReadFull
      <4>1. had = TRUE
        BY <2>1, <3>1 DEF ReadFull
      <4> QED
        BY <2>1, <3>1, <4>1 DEF ReadFull, ReadNatal
    <3>2. CASE ReadDescriptions
      BY <2>2, <2>3, <3>2 DEF ReadDescriptions, ReadNatal
    <3> QED
      BY <1>9, <3>1, <3>2
  <2>5. dlGiven'.own /\ (dlGiven'.paid => dlGiven'.had)
    BY <2>4
  <2> QED
    BY <1>9, <2>5 DEF ReadFull, ReadDescriptions, ReadNatal, rights, DownloadsInv
<1> QED
  BY <1>1, <1>2, <1>3, <1>4, <1>5, <1>6, <1>7, <1>8, <1>9 DEF DlNext

(* Paid text leaves only on requests made while there was access, but for the
   descriptions of a natal report, which is only known to have been asked for with
   access; a matrix is of the birth date of its request, and the profile shows
   what there is. *)
THEOREM PaidTextsHold == DlSpec => []PaidTextsArePaidFor
<1>1. DownloadsInv => PaidTextsArePaidFor
  <2> SUFFICES ASSUME DownloadsInv PROVE PaidTextsArePaidFor
    OBVIOUS
  <2>1. dlGiven.own
    BY DEF DownloadsInv
  <2>2. \A k \in DlReports : MyReports[k] <=> HasFullAccess(k)
    BY DEF MyReports, HasFullAccess
  <2> QED
    BY <2>1, <2>2, ShownIsRunning DEF DownloadsInv, PaidTextsArePaidFor
<1> QED
  BY DownloadsInvInit, DownloadsInvStep, <1>1, PTL DEF DlSpec
-----------------------------------------------------------------------------
(* The wheel in the PDF. *)

(* Births only rise, and what was loaded is of a b that has been. *)
WlOrdered ==
  /\ wlRow.data <= wlRow.birth /\ wlPdf.key.birth <= wlRow.birth
  /\ \A h \in WlHandlers : wlReq[h].row.data <= wlReq[h].row.birth /\ wlReq[h].row.birth <= wlRow.birth

(* As long as the pictures posted under a b are of one chart, another picture in
   Redis is left over from before, and the row has had none under this b: nothing
   was loaded, drawn or kept of a row that carries its own. *)
Pictured == [birth |-> wlRow.birth, data |-> wlRow.data, picture |-> wlRow.data]
Leftover == wlHot \notin {NoWheel, wlRow.data}
WlExact ==
  /\ wlRow.picture \in {NoWheel, wlRow.data}
  /\ \A h \in WlHandlers : wlReq[h].at \in {"hot", "save"} =>
       /\ wlReq[h].picture = wlRow.data /\ wlReq[h].row.data = wlRow.data
       /\ wlReq[h].row.birth = wlRow.birth
  /\ Leftover =>
       /\ wlRow.picture = NoWheel /\ wlPdf.key # Pictured
       /\ \A h \in WlHandlers : wlReq[h].at # "save" /\ wlReq[h].row # Pictured
  /\ wlPdf.key = Pictured => wlPdf.wheel = wlRow.data
  /\ \A h \in WlHandlers : wlReq[h].at = "drawn" /\ wlReq[h].row = Pictured => wlReq[h].picture = wlRow.data
WlInv == WlTypeOK /\ WlOrdered /\ (wlClean => WlExact)

WlRequest == [at: {"idle", "hot", "save", "edit", "look", "drawn"}, row: WlRows, picture: Pictures]

LEMMA WlIdleType ==
  /\ WlIdle \in WlRequest /\ WlIdle.at = "idle" /\ WlIdle.row = WlRow0 /\ WlRow0 \in WlRows
  /\ WlRow0.data = 0 /\ WlRow0.birth = 0 /\ WlRow0.picture = NoWheel /\ NoWheel \notin WlBirths
BY WheelsAssumption DEF WlIdle, WlRequest, WlRow0, WlRows, Pictures, WlBirths, NoWheel

LEMMA WlInvInit == WlInit => WlInv
<1> SUFFICES ASSUME WlInit PROVE WlInv
  OBVIOUS
<1>1. /\ wlRow = WlRow0 /\ wlHot = NoWheel /\ wlPdf.key = WlRow0 /\ wlPdf.wheel = 0
      /\ wlReq \in [WlHandlers -> WlRequest] /\ \A h \in WlHandlers : wlReq[h] = WlIdle
  BY WlIdleType DEF WlInit
<1>2. wlPdf \in [key: WlRows, wheel: Pictures] /\ wlHot \in Pictures /\ wlClean \in BOOLEAN
  BY WlIdleType, WheelsAssumption DEF WlInit, WlBirths, Pictures
<1>3. WlTypeOK
  BY <1>1, <1>2, WlIdleType DEF WlTypeOK, WlRequest
<1>4. WlOrdered
  BY <1>1, WlIdleType DEF WlOrdered
<1>5. WlExact
  BY <1>1, WlIdleType DEF WlExact, Leftover, Pictured
<1> QED BY <1>3, <1>4, <1>5 DEF WlInv

(* One request moves, and the rows stay. *)
LEMMA WlMoves ==
  ASSUME WlInv, NEW h \in WlHandlers, NEW q \in WlRequest, wlReq' = [wlReq EXCEPT ![h] = q],
         UNCHANGED wlRow, wlClean' \in BOOLEAN, wlClean' => wlClean,
         q.row \in {wlReq[h].row, wlRow, WlRow0},
         q.at = "hot" => (wlClean' => q.picture = wlRow.data) /\ q.row = wlRow,
         q.at = "save" => /\ wlReq[h].at = "hot" /\ q.row = wlReq[h].row
                          /\ q.picture = wlReq[h].picture /\ wlHot' = q.picture,
         wlHot' \in {wlHot, NoWheel} \/ q.at = "save",
         q.at = "drawn" => /\ wlReq[h].at = "look" /\ q.row = wlReq[h].row
                           /\ q.picture = Drawn(q.row, IF wlHot # NoWheel THEN wlHot ELSE q.row.picture),
         \/ UNCHANGED wlPdf
         \/ wlReq[h].at = "drawn" /\ wlPdf' = [key |-> wlReq[h].row, wheel |-> wlReq[h].picture] /\ wlReq[h].picture \in Pictures
  PROVE  WlInv'
<1>1. /\ wlRow \in WlRows /\ wlHot \in Pictures /\ wlPdf \in [key: WlRows, wheel: Pictures]
      /\ wlReq \in [WlHandlers -> WlRequest] /\ wlReq[h] \in WlRequest
  BY DEF WlInv, WlTypeOK, WlRequest
<1>2. wlReq' \in [WlHandlers -> WlRequest] /\ wlReq'[h] = q /\ \A k \in WlHandlers \ {h} : wlReq'[k] = wlReq[k]
  BY <1>1
<1>3. /\ wlRow.data \in WlBirths /\ wlRow.birth \in WlBirths
      /\ wlReq[h].row \in WlRows /\ q.row \in WlRows
  BY <1>1 DEF WlRows, WlRequest
<1>4. WlTypeOK'
  <2>1. wlHot' \in Pictures
    BY <1>1, WlIdleType DEF WlRequest, Pictures
  <2>2. wlPdf' \in [key: WlRows, wheel: Pictures]
    BY <1>1, <1>3
  <2> QED BY <1>1, <1>2, <2>1, <2>2 DEF WlTypeOK, WlRequest
<1>5. WlOrdered'
  <2>1. wlPdf'.key.birth <= wlRow.birth
    BY DEF WlInv, WlOrdered
  <2>2. q.row.data <= q.row.birth /\ q.row.birth <= wlRow.birth
    <3>1. 0 <= wlRow.birth /\ 0 <= 0
      BY <1>3, WheelsAssumption DEF WlBirths
    <3>2. wlReq[h].row.data <= wlReq[h].row.birth /\ wlReq[h].row.birth <= wlRow.birth /\ wlRow.data <= wlRow.birth
      BY DEF WlInv, WlOrdered
    <3>3. wlRow.birth <= wlRow.birth
      BY <1>3, WheelsAssumption DEF WlBirths
    <3>4. CASE q.row = wlReq[h].row
      BY <3>2, <3>4
    <3>5. CASE q.row = wlRow
      BY <3>2, <3>3, <3>5
    <3>6. CASE q.row = WlRow0
      BY <3>1, <3>6, WlIdleType
    <3> QED BY <3>4, <3>5, <3>6
  <2>3. \A k \in WlHandlers : wlReq'[k].row.data <= wlReq'[k].row.birth /\ wlReq'[k].row.birth <= wlRow.birth
    BY <1>2, <2>2 DEF WlInv, WlOrdered
  <2> QED BY <2>1, <2>3 DEF WlInv, WlOrdered
<1>6. ASSUME wlClean' PROVE WlExact'
  <2>1. WlExact /\ Pictured' = Pictured
    BY <1>6 DEF WlInv, Pictured
  <2>2. NoWheel # wlRow.data /\ WlRow0 # Pictured
    BY <1>3, WlIdleType DEF Pictured
  <2>3. ASSUME NEW k \in WlHandlers, wlReq'[k].at \in {"hot", "save"}
        PROVE  /\ wlReq'[k].picture = wlRow.data /\ wlReq'[k].row.data = wlRow.data
               /\ wlReq'[k].row.birth = wlRow.birth
    BY <1>2, <1>6, <2>1, <2>3 DEF WlExact
  <2>4. Leftover' => Leftover /\ q.at # "save"
    <3>1. q.at = "save" => wlHot' = wlRow.data
      BY <2>1 DEF WlExact
    <3> QED BY <3>1 DEF Leftover
  <2>5. ASSUME Leftover'
        PROVE  /\ wlRow.picture = NoWheel /\ wlPdf'.key # Pictured
               /\ \A k \in WlHandlers : wlReq'[k].at # "save" /\ wlReq'[k].row # Pictured
    <3>1. wlRow.picture = NoWheel /\ wlPdf.key # Pictured
          /\ \A k \in WlHandlers : wlReq[k].at # "save" /\ wlReq[k].row # Pictured
      BY <2>1, <2>4, <2>5 DEF WlExact
    <3>2. wlRow # Pictured
      BY <2>2, <3>1 DEF Pictured
    <3>3. q.row # Pictured /\ q.at # "save" /\ wlPdf'.key # Pictured
      BY <2>2, <2>4, <2>5, <3>1, <3>2
    <3> QED BY <1>2, <3>1, <3>3
  <2>6. wlPdf'.key = Pictured => wlPdf'.wheel = wlRow.data
    BY <2>1 DEF WlExact
  <2>7. ASSUME NEW k \in WlHandlers, wlReq'[k].at = "drawn", wlReq'[k].row = Pictured
        PROVE  wlReq'[k].picture = wlRow.data
    <3>1. CASE k # h
      BY <1>2, <2>1, <2>7, <3>1 DEF WlExact
    <3>2. CASE k = h
      <4>1. q.row = Pictured /\ wlReq[h].row = Pictured
        BY <1>2, <2>7, <3>2
      <4>2. wlHot \in {NoWheel, wlRow.data}
        BY <2>1, <4>1 DEF WlExact, Leftover
      <4>3. q.row.picture = wlRow.data /\ q.row.data = wlRow.data
        BY <4>1 DEF Pictured
      <4> QED BY <1>2, <2>2, <2>7, <3>2, <4>2, <4>3 DEF Drawn
    <3> QED BY <3>1, <3>2
  <2> QED BY <2>1, <2>3, <2>5, <2>6, <2>7 DEF WlExact
<1> QED BY <1>4, <1>5, <1>6 DEF WlInv

LEMMA WlInvStep == WlInv /\ [WlNext]_wlVars => WlInv'
<1> SUFFICES ASSUME WlInv, [WlNext]_wlVars PROVE WlInv'
  OBVIOUS
<1>1. /\ wlRow \in WlRows /\ wlHot \in Pictures /\ wlClean \in BOOLEAN
      /\ wlReq \in [WlHandlers -> WlRequest] /\ wlPdf \in [key: WlRows, wheel: Pictures]
      /\ wlRow.data \in WlBirths /\ wlRow.birth \in WlBirths /\ wlRow.picture \in Pictures
  BY DEF WlInv, WlTypeOK, WlRequest, WlRows
<1>2. \A n \in WlBirths : n \in Nat
  BY WheelsAssumption DEF WlBirths
(* A load. *)
<1>3. ASSUME NEW h \in WlHandlers, NEW at \in {"hot", "edit", "look"}, NEW picture \in Pictures,
             WlLoad(h, at, picture), wlClean' \in BOOLEAN, wlClean' => wlClean,
             at = "hot" => (wlClean' => picture = wlRow.data)
      PROVE  WlInv'
  <2> DEFINE q == [at |-> at, row |-> wlRow, picture |-> picture]
  <2>1. q \in WlRequest /\ q.at = at /\ q.row = wlRow /\ q.picture = picture
    BY <1>1 DEF WlRequest
  <2> HIDE DEF q
  <2>2. wlReq' = [wlReq EXCEPT ![h] = q] /\ UNCHANGED <<wlRow, wlHot, wlPdf>>
    BY <1>3 DEF WlLoad, q
  <2> QED BY <1>3, <2>1, <2>2, WlMoves
(* An end that writes nothing. *)
<1>4. ASSUME NEW h \in WlHandlers, WlDone(h), UNCHANGED <<wlRow, wlHot, wlPdf, wlClean>>
      PROVE  WlInv'
  BY <1>1, <1>4, WlIdleType, WlMoves DEF WlDone
<1>5. ASSUME NEW h \in WlHandlers, UploadLoad(h)
      PROVE  WlInv'
  <2>1. PICK picture \in 0..wlRow.birth : WlLoad(h, "hot", picture) /\ wlClean' = (wlClean /\ picture = wlRow.data)
    BY <1>5 DEF UploadLoad
  <2>2. picture \in Pictures
    BY <1>1, <2>1, WheelsAssumption DEF Pictures, WlBirths
  <2> QED BY <1>1, <1>3, <2>1, <2>2
<1>6. ASSUME NEW h \in WlHandlers, EditLoad(h) \/ PdfLoad(h)
      PROVE  WlInv'
  BY <1>1, <1>3, <1>6 DEF EditLoad, PdfLoad, Pictures
<1>7. ASSUME NEW h \in WlHandlers, NEW at \in {"save", "drawn"}, NEW picture \in Pictures
      PROVE  /\ [wlReq[h] EXCEPT !.at = at, !.picture = picture] \in WlRequest
             /\ [wlReq[h] EXCEPT !.at = at, !.picture = picture].at = at
             /\ [wlReq[h] EXCEPT !.at = at, !.picture = picture].row = wlReq[h].row
             /\ [wlReq[h] EXCEPT !.at = at, !.picture = picture].picture = picture
             /\ WlGoto(h, at, picture) =>
                  wlReq' = [wlReq EXCEPT ![h] = [wlReq[h] EXCEPT !.at = at, !.picture = picture]]
  <2>1. wlReq[h] \in WlRequest
    BY <1>1
  <2> QED BY <1>1, <2>1 DEF WlRequest, WlGoto
<1>8. ASSUME NEW h \in WlHandlers, UploadHot(h)
      PROVE  WlInv'
  <2> DEFINE q == [wlReq[h] EXCEPT !.at = "save", !.picture = wlReq[h].picture]
  <2>1. wlReq[h].picture \in Pictures
    BY <1>1 DEF WlRequest
  <2>2. /\ wlHot' = wlReq[h].picture /\ wlReq[h].at = "hot" /\ WlGoto(h, "save", wlReq[h].picture)
        /\ UNCHANGED <<wlRow, wlPdf, wlClean>>
    BY <1>8 DEF UploadHot, WlAt
  <2>3. /\ q \in WlRequest /\ q.at = "save" /\ q.row = wlReq[h].row /\ q.picture = wlReq[h].picture
        /\ wlReq' = [wlReq EXCEPT ![h] = q]
    BY <1>7, <2>1, <2>2
  <2> HIDE DEF q
  <2> QED BY <1>1, <2>2, <2>3, WlMoves
<1>9. ASSUME NEW h \in WlHandlers, PdfDraw(h)
      PROVE  WlInv'
  <2> DEFINE picture == Drawn(wlReq[h].row, IF wlHot # NoWheel THEN wlHot ELSE wlReq[h].row.picture)
  <2>1. picture \in Pictures
    BY <1>1 DEF Drawn, WlRequest, WlRows, Pictures
  <2>2. wlReq[h].at = "look" /\ WlGoto(h, "drawn", picture) /\ UNCHANGED <<wlRow, wlHot, wlPdf, wlClean>>
    BY <1>9 DEF PdfDraw, WlAt
  <2>5. picture = Drawn(wlReq[h].row, IF wlHot # NoWheel THEN wlHot ELSE wlReq[h].row.picture)
    OBVIOUS
  <2> HIDE DEF picture
  <2> DEFINE q == [wlReq[h] EXCEPT !.at = "drawn", !.picture = picture]
  <2>3. /\ q \in WlRequest /\ q.at = "drawn" /\ q.row = wlReq[h].row /\ q.picture = picture
        /\ wlReq' = [wlReq EXCEPT ![h] = q]
    BY <1>7, <2>1, <2>2
  <2>4. q.picture = Drawn(q.row, IF wlHot # NoWheel THEN wlHot ELSE q.row.picture)
    BY <2>3, <2>5
  <2> HIDE DEF q
  <2> QED BY <1>1, <2>2, <2>3, <2>4, WlMoves
<1>10. ASSUME NEW h \in WlHandlers, PdfKeep(h)
       PROVE  WlInv'
  <2>1. /\ wlPdf' = [key |-> wlReq[h].row, wheel |-> wlReq[h].picture] /\ wlReq[h].at = "drawn"
        /\ wlReq' = [wlReq EXCEPT ![h] = WlIdle] /\ UNCHANGED <<wlRow, wlHot, wlClean>>
    BY <1>10 DEF PdfKeep, PdfKey, WlAt, WlDone
  <2>2. wlReq[h].picture \in Pictures
    BY <1>1 DEF WlRequest
  <2> QED BY <1>1, <2>1, <2>2, WlIdleType, WlMoves
<1>11. ASSUME NEW h \in WlHandlers, UploadSave(h)
       PROVE  WlInv'
  <2>1. /\ wlReq[h].at = "save" /\ wlReq' = [wlReq EXCEPT ![h] = WlIdle]
        /\ wlRow' = IF wlReq[h].row.picture = wlReq[h].picture THEN wlRow
                    ELSE [wlRow EXCEPT !.data = wlReq[h].row.data, !.picture = wlReq[h].picture]
        /\ UNCHANGED <<wlHot, wlPdf, wlClean>>
    BY <1>11 DEF UploadSave, WlAt, WlDone
  <2>2. wlReq[h] \in WlRequest /\ wlReq[h].row \in WlRows /\ wlReq[h].picture \in Pictures
        /\ wlReq[h].row.data \in WlBirths /\ wlReq[h].row.birth \in WlBirths
    BY <1>1 DEF WlRequest, WlRows
  <2>3. /\ wlRow' \in WlRows /\ wlRow'.birth = wlRow.birth
        /\ wlRow'.data \in {wlRow.data, wlReq[h].row.data}
        /\ wlRow'.picture \in {wlRow.picture, wlReq[h].picture}
    BY <1>1, <2>1, <2>2 DEF WlRows
  <2>4. wlReq' \in [WlHandlers -> WlRequest] /\ wlReq'[h] = WlIdle
        /\ \A k \in WlHandlers \ {h} : wlReq'[k] = wlReq[k]
    BY <1>1, <2>1, WlIdleType
  <2>5. WlTypeOK'
    BY <1>1, <2>1, <2>3, <2>4 DEF WlTypeOK, WlRequest
  <2>6. WlOrdered'
    <3>1. wlRow'.data <= wlRow'.birth /\ 0 <= wlRow'.birth
      <4>1. wlReq[h].row.data <= wlReq[h].row.birth /\ wlReq[h].row.birth <= wlRow.birth /\ wlRow.data <= wlRow.birth
        BY DEF WlInv, WlOrdered
      <4> QED BY <1>1, <1>2, <2>2, <2>3, <4>1
    <3>2. \A k \in WlHandlers : wlReq'[k].row.data <= wlReq'[k].row.birth /\ wlReq'[k].row.birth <= wlRow'.birth
      BY <2>3, <2>4, <3>1, WlIdleType DEF WlInv, WlOrdered
    <3> QED BY <2>1, <2>3, <3>1, <3>2 DEF WlInv, WlOrdered
  <2>7. ASSUME wlClean' PROVE WlExact'
    <3>1. WlExact
      BY <2>1, <2>7 DEF WlInv
    <3>2. wlReq[h].picture = wlRow.data /\ wlReq[h].row.data = wlRow.data
      BY <2>1, <3>1 DEF WlExact
    <3>3. wlRow'.data = wlRow.data
      BY <2>3, <3>2
    <3>4. Pictured' = Pictured /\ Leftover' = Leftover
      BY <2>1, <2>3, <3>3 DEF Pictured, Leftover
    <3>5. ~Leftover
      BY <2>1, <3>1 DEF WlExact
    <3>6. wlRow'.picture \in {NoWheel, wlRow.data}
      BY <2>3, <3>1, <3>2 DEF WlExact
    <3>7. \A k \in WlHandlers : wlReq'[k].at \in {"hot", "save"} =>
            /\ wlReq'[k].picture = wlRow.data /\ wlReq'[k].row.data = wlRow.data
            /\ wlReq'[k].row.birth = wlRow.birth
      BY <2>4, <3>1, WlIdleType DEF WlExact
    <3>8. \A k \in WlHandlers : wlReq'[k].at = "drawn" /\ wlReq'[k].row = Pictured => wlReq'[k].picture = wlRow.data
      BY <2>4, <3>1, WlIdleType DEF WlExact
    <3> QED BY <2>1, <2>3, <3>1, <3>3, <3>4, <3>5, <3>6, <3>7, <3>8 DEF WlExact
  <2> QED BY <2>5, <2>6, <2>7 DEF WlInv
<1>12. ASSUME NEW h \in WlHandlers, EditSave(h)
       PROVE  WlInv'
  <2> DEFINE seen == wlReq[h].row
  <2>1. PICK b \in {seen.birth, wlRow.birth + 1} \cap WlBirths :
          /\ wlRow' = [birth |-> IF b = seen.birth THEN wlRow.birth ELSE b,
                       data    |-> IF b = seen.data /\ seen.picture = NoWheel
                                   THEN wlRow.data ELSE b,
                       picture |-> IF b = seen.data /\ seen.picture = NoWheel
                                   THEN wlRow.picture ELSE NoWheel]
          /\ wlClean' = IF wlRow'.birth = wlRow.birth THEN wlClean /\ wlRow'.data = wlRow.data
                        ELSE ~WlUploading
    BY <1>12 DEF EditSave
  <2>2. /\ wlReq' = [wlReq EXCEPT ![h] = WlIdle] /\ UNCHANGED <<wlHot, wlPdf>>
    BY <1>12 DEF EditSave, WlDone
  <2>3. /\ wlReq[h] \in WlRequest /\ seen \in WlRows /\ seen.birth \in WlBirths /\ seen.data \in WlBirths
        /\ seen.data <= seen.birth /\ seen.birth <= wlRow.birth /\ wlRow.data <= wlRow.birth
    BY <1>1 DEF WlRequest, WlRows, WlInv, WlOrdered
  <2>4. /\ b \in WlBirths /\ b \in Nat /\ wlRow.birth \in Nat /\ wlRow.data \in Nat
        /\ seen.birth \in Nat /\ seen.data \in Nat
    BY <1>1, <1>2, <2>1, <2>3
  <2>5. wlReq' \in [WlHandlers -> WlRequest] /\ wlReq'[h] = WlIdle
        /\ \A k \in WlHandlers \ {h} : wlReq'[k] = wlReq[k]
    BY <1>1, <2>2, WlIdleType
  <2>6. wlRow' \in WlRows
    BY <1>1, <2>1, <2>4 DEF WlRows, Pictures
  <2>7. /\ b = seen.birth \/ b = wlRow.birth + 1
        /\ wlRow'.birth = IF b = seen.birth THEN wlRow.birth ELSE b
        /\ wlRow'.data \in {wlRow.data, b}
        /\ b = seen.birth => wlRow'.birth = wlRow.birth
    BY <2>1
  <2>8. wlRow.birth <= wlRow'.birth /\ wlRow'.data <= wlRow'.birth
    BY <2>3, <2>4, <2>7
  <2>9. WlTypeOK'
    <3>1. wlClean' \in BOOLEAN
      BY <1>1, <2>1
    <3> QED BY <1>1, <2>2, <2>5, <2>6, <3>1 DEF WlTypeOK, WlRequest
  <2>10. WlOrdered'
    <3>1. wlPdf.key.birth \in Nat /\ wlPdf.key.birth <= wlRow.birth /\ wlRow'.birth \in Nat
      BY <1>1, <1>2, <2>4, <2>7 DEF WlRows, WlInv, WlOrdered
    <3>2. wlPdf'.key.birth <= wlRow'.birth
      BY <2>2, <2>4, <2>8, <3>1
    <3>3. ASSUME NEW k \in WlHandlers
          PROVE  wlReq'[k].row.data <= wlReq'[k].row.birth /\ wlReq'[k].row.birth <= wlRow'.birth
      <4>1. CASE k = h
        BY <2>5, <3>1, <4>1, WlIdleType
      <4>2. CASE k # h
        <5>1. wlReq'[k] = wlReq[k] /\ wlReq[k].row.birth \in Nat /\ wlReq[k].row.birth <= wlRow.birth
              /\ wlReq[k].row.data <= wlReq[k].row.birth
          BY <1>1, <1>2, <2>5, <4>2 DEF WlRequest, WlRows, WlInv, WlOrdered
        <5> QED BY <2>4, <2>8, <3>1, <5>1
      <4> QED BY <4>1, <4>2
    <3> QED BY <2>8, <3>2, <3>3 DEF WlOrdered
  <2>11. CASE b = seen.birth
    <3>1. /\ wlRow'.birth = wlRow.birth /\ wlClean' = (wlClean /\ wlRow'.data = wlRow.data)
      BY <2>1, <2>7, <2>11
    <3>2. wlRow'.picture \in {wlRow.picture, NoWheel}
      BY <2>1
    <3>3. ASSUME wlClean' PROVE WlExact'
      <4>1. WlExact /\ wlRow'.data = wlRow.data
        BY <3>1, <3>3 DEF WlInv
      <4>2. Pictured' = Pictured /\ Leftover' = Leftover
        BY <2>2, <3>1, <4>1 DEF Pictured, Leftover
      <4>3. wlRow'.picture \in {NoWheel, wlRow.data} /\ (Leftover => wlRow'.picture = NoWheel)
        BY <3>2, <4>1 DEF WlExact
      <4>4. WlRow0 # Pictured
        <5>1. wlRow.data # NoWheel
          BY <1>1, WlIdleType
        <5> QED BY <5>1, WlIdleType DEF Pictured
      <4>5. \A k \in WlHandlers : wlReq'[k].at \in {"hot", "save"} =>
              /\ wlReq'[k].picture = wlRow.data /\ wlReq'[k].row.data = wlRow.data
              /\ wlReq'[k].row.birth = wlRow.birth
        BY <2>5, <4>1, WlIdleType DEF WlExact
      <4>6. Leftover => \A k \in WlHandlers : wlReq'[k].at # "save" /\ wlReq'[k].row # Pictured
        BY <2>5, <4>1, <4>4, WlIdleType DEF WlExact
      <4>7. \A k \in WlHandlers : wlReq'[k].at = "drawn" /\ wlReq'[k].row = Pictured => wlReq'[k].picture = wlRow.data
        BY <2>5, <4>1, WlIdleType DEF WlExact
      <4> QED BY <2>2, <3>1, <4>1, <4>2, <4>3, <4>5, <4>6, <4>7 DEF WlExact
    <3> QED BY <2>9, <2>10, <3>3 DEF WlInv
  <2>12. CASE b # seen.birth
    <3>1. b = wlRow.birth + 1 /\ b # seen.data /\ b # wlRow.birth
      BY <2>3, <2>4, <2>7, <2>12
    <3>2. /\ wlRow'.birth = b /\ wlRow'.data = b /\ wlRow'.picture = NoWheel
          /\ wlClean' = ~WlUploading
      BY <2>1, <2>12, <3>1
    <3>3. Pictured' = [birth |-> b, data |-> b, picture |-> b]
      BY <3>2 DEF Pictured
    <3>4. wlPdf.key.birth # b /\ WlRow0.birth # b
      <4>1. wlPdf.key.birth \in Nat /\ wlPdf.key.birth <= wlRow.birth
        BY <1>1, <1>2 DEF WlRows, WlInv, WlOrdered
      <4> QED BY <2>4, <3>1, <4>1, WlIdleType
    <3>5. \A k \in WlHandlers : wlReq[k].row.birth # b
      <4>1. \A k \in WlHandlers : wlReq[k].row.birth \in Nat /\ wlReq[k].row.birth <= wlRow.birth
        BY <1>1, <1>2 DEF WlRequest, WlRows, WlInv, WlOrdered
      <4> QED BY <2>4, <3>1, <4>1
    <3>6. \A k \in WlHandlers : wlReq'[k].row.birth # b
      BY <2>5, <3>4, <3>5, WlIdleType
    <3>7. wlPdf'.key # Pictured' /\ \A k \in WlHandlers : wlReq'[k].row # Pictured'
      BY <2>2, <3>3, <3>4, <3>6
    <3>8. ASSUME wlClean' PROVE \A k \in WlHandlers : wlReq'[k].at \notin {"hot", "save"}
      BY <2>5, <3>2, <3>8, WlIdleType DEF WlUploading
    <3>9. wlClean' => WlExact'
      BY <3>2, <3>7, <3>8 DEF WlExact
    <3> QED BY <2>9, <2>10, <3>9 DEF WlInv
  <2> QED BY <2>11, <2>12
<1>13. CASE HotExpires
  <2>1. wlHot' = NoWheel /\ UNCHANGED <<wlRow, wlPdf, wlReq, wlClean>>
    BY <1>13 DEF HotExpires
  <2>2. WlTypeOK' /\ WlOrdered'
    BY <2>1, WlIdleType DEF WlInv, WlTypeOK, WlOrdered, Pictures
  <2>3. ~Leftover' /\ Pictured' = Pictured
    BY <2>1 DEF Leftover, Pictured
  <2> QED BY <2>1, <2>2, <2>3 DEF WlInv, WlExact
<1>14. ASSUME NEW h \in WlHandlers, PdfKept(h) \/ WlDies(h)
       PROVE  WlInv'
  BY <1>4, <1>14 DEF PdfKept, WlDies
<1>15. CASE UNCHANGED wlVars
  BY <1>15 DEF wlVars, WlInv, WlTypeOK, WlOrdered, WlExact, Leftover, Pictured
<1> QED
  BY <1>5, <1>6, <1>8, <1>9, <1>10, <1>11, <1>12, <1>13, <1>14, <1>15 DEF WlNext

(* The types of the wheel's variables, and what the PDF draws and keeps. *)
THEOREM WheelIsExactHolds == WlSpec => [](WlTypeOK /\ WheelIsExact)
<1>1. WlInv => WlTypeOK /\ WheelIsExact
  <2> SUFFICES ASSUME WlInv, wlClean, wlRow.picture = wlRow.data
      PROVE  /\ wlPdf.key = wlRow => wlPdf.wheel = wlRow.data
             /\ \A h \in WlHandlers : wlReq[h].at = "drawn" /\ wlReq[h].row = wlRow => wlReq[h].picture = wlRow.data
    BY DEF WlInv, WheelIsExact, PdfKey, WlAt
  <2>1. wlRow = Pictured
    BY DEF Pictured, WlInv, WlTypeOK, WlRows
  <2> QED BY <2>1 DEF WlInv, WlExact
<1> QED BY <1>1, WlInvInit, WlInvStep, PTL DEF WlSpec

-----------------------------------------------------------------------------
(* The process that serves them all.  Each of its steps is one of a single
   component and leaves the others alone, so that its behaviours are behaviours
   of every component. *)

LEMMA StepOfOne ==
  ASSUME [MCNext]_mcVars
  PROVE  /\ [Next]_vars /\ [NatalNext]_natalVars /\ [WlNext]_wlVars /\ [MxNext]_mxVars
         /\ [DrawNext]_drawVars /\ [BucketNext]_bucketVars /\ [SupportNext]_supportVars /\ [NewsNext]_newsVars
         /\ [AcctNext]_acctVars /\ [TxNext]_txVars
<1>1. CASE MCNext
  BY <1>1, Zenon DEF MCNext, TxNext
<1>2. CASE UNCHANGED mcVars
  BY <1>2 DEF mcVars
<1> QED BY <1>1, <1>2

(* Every variable of every component keeps its type, whatever requests, jobs,
   updates and faults come in whatever order. *)
THEOREM RequestTypesHold == MCSpec => []TypesOK
<1>1. MCSpec => /\ Spec /\ NatalSpec /\ WlSpec /\ MxSpec /\ DrawSpec /\ BucketSpec
                /\ SupportSpec /\ NewsSpec /\ AcctSpec /\ TxSpec
  <2>1. MCInit => /\ Init /\ NatalInit /\ WlInit /\ MxInit /\ DrawInit /\ BucketInit
                  /\ SupportInit /\ NewsInit /\ AcctInit /\ TxInit
    BY DEF MCInit
  <2> QED BY <2>1, StepOfOne, PTL DEF MCSpec, Spec, NatalSpec, WlSpec, MxSpec, DrawSpec, BucketSpec,
                                     SupportSpec, NewsSpec, AcctSpec, TxSpec
<1>2. /\ TypeOK /\ NatalTypeOK /\ WlTypeOK /\ MxTypeOK /\ DrawTypeOK /\ BucketTypeOK
      /\ SupportTypeOK /\ NewsTypeOK /\ AcctTypeOK /\ TxTypeOK
      => TypesOK
  BY DEF TypesOK
<1> QED BY <1>1, <1>2, TypeCorrect, NatalTextsHold, WheelIsExactHolds, NumbersTypeCorrect, DrawTypesHold, RateIsKept,
           AnsweredWasSentHolds, NewsIsNotMissed, AccountTypesHold, KeptTextsHold, PTL

LEMMA StepOfNumbers ==
  ASSUME [MCNext]_mcVars
  PROVE  [ArcanaNext]_arcanaVars /\ [SkNext]_skVars
<1>1. CASE MCNext
  BY <1>1, Zenon DEF MCNext
<1>2. CASE UNCHANGED mcVars
  BY <1>2 DEF mcVars
<1> QED BY <1>1, <1>2

(* What is shown of a birth chart, its texts and its wheel, is that chart's,
   whatever the other components do. *)
THEOREM NatalIsOwnHolds == MCSpec => []NatalIsOwn
<1>1. MCSpec => NatalSpec /\ WlSpec
  <2>1. MCInit => NatalInit /\ WlInit
    BY DEF MCInit
  <2> QED BY <2>1, StepOfOne, PTL DEF MCSpec, NatalSpec, WlSpec
<1>2. NatalTextsAreOwn /\ WheelIsExact => NatalIsOwn
  BY DEF NatalIsOwn
<1> QED BY <1>1, <1>2, NatalTextsHold, WheelIsExactHolds, PTL

(* The numbers a page is built on are those they are computed from, whichever part
   of the process is asked. *)
THEOREM NumbersAgreeHolds == MCSpec => []NumbersAgree
<1>1. MCSpec => ArcanaSpec /\ SkSpec
  <2>1. MCInit => ArcanaInit /\ SkInit
    BY DEF MCInit
  <2> QED BY <2>1, StepOfNumbers, PTL DEF MCSpec, ArcanaSpec, SkSpec
<1>2. SkyAgrees /\ ArcanaAgree => NumbersAgree
  BY DEF NumbersAgree
<1> QED BY <1>1, <1>2, SkyAgreesHolds, ArcanaAgreeHolds, PTL
=============================================================================
