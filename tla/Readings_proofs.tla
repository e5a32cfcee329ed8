---------------------------- MODULE Readings_proofs ----------------------------
(***************************************************************************)
(* Proofs about the readings that are kept, for any number of requests and *)
(* background tasks: the natal texts, in the row and in the cached entry   *)
(* that every endpoint reads and writes back whole; the texts of transits, *)
(* pairs, horoscopes and spreads; and the destiny matrix, its reading, the *)
(* sections of its long report and the one that a birthday renews.  Then   *)
(* about the numbers behind them, for any dates, births and skies: the     *)
(* arcana of a birth date (Arcana) and what is read off the sky            *)
(* (SkyEvents).                                                            *)
(***************************************************************************)
EXTENDS NatalCache, GeneratedTexts, MatrixReading, MatrixSections, YearSection, Arcana, SkyEvents, Texts_proofs

-----------------------------------------------------------------------------
(* The natal readings. *)

(* A copy of the row or of the entry speaks for itself, wherever it is kept:
   this is why a blind write of an old copy does no harm. *)
OwnReading(v) == v.hash \in Input => v.text = v.hash
OwnEntry(e) == OwnReading(e) /\ e.mini.gender = e.mini.mark
OwnRow(r) == r \in NatalRow /\ OwnReading(r) /\ (r.text = Nothing <=> r.hash = Nothing)

OwnRequest(q) ==
  /\ OwnEntry(q.cached)
  /\ q.at # "idle" => OwnRow(q.row)
  /\ q.ready # Nothing => q.at # "idle" /\ q.ready = InputOf(q.row)
  /\ q.at = "cache" => q.cached.text = InputOf(q.row)

NatalInv ==
  /\ NatalTypeOK
  /\ OwnRow(row) /\ OwnEntry(entry) /\ honest
  /\ \A h \in NatalHandlers : OwnRequest(nreq[h])

(* A birth edit that has flushed is the only one that has, and is still the
   edit it was when it looked at the row. *)
Holding == {h \in NatalHandlers : nreq[h].at \in {"uncache", "commit"}}
HeldInv == \A h \in Holding : Holding = {h} /\ row.signs < MaxBirths

(* The signs of a mini text are nowhere marked.  They are the row's in every copy
   as long as nobody holds one from before the edit. *)
OfRow(mini) == mini = NoMini \/ mini.signs = row.signs
MiniInv ==
  ~crossed =>
    /\ OfRow(entry.mini)
    /\ \A h \in NatalHandlers : nreq[h].kind \in Rewriters =>
         nreq[h].row.signs = row.signs /\ OfRow(nreq[h].cached.mini)
    /\ (\E h \in NatalHandlers : nreq[h].at = "commit") => entry.mini = NoMini /\ ~Rewriting

LEMMA InputOfRow == ASSUME NEW r \in NatalRow PROVE InputOf(r) \in Input /\ InputOf(r) # Nothing
BY NatalAssumption DEF InputOf, NatalRow, Input

LEMMA NoEntryType == NoEntry \in Entry /\ OwnEntry(NoEntry)
BY NatalAssumption DEF NoEntry, Entry, Hash, NoMini, OwnEntry, OwnReading

LEMMA NatalIdleType ==
  NatalIdle \in NatalRequest /\ OwnRequest(NatalIdle) /\ NatalIdle.at = "idle"
BY NoEntryType DEF NatalIdle, NatalRequest, OwnRequest, NatalKinds

(* A request that moves on by itself leaves the others as they were. *)
LEMMA OneRequest ==
  ASSUME NatalInv, NEW h \in NatalHandlers, NEW q \in NatalRequest, OwnRequest(q),
         nreq' = [nreq EXCEPT ![h] = q]
  PROVE  nreq' \in [NatalHandlers -> NatalRequest] /\ \A k \in NatalHandlers : OwnRequest(nreq'[k])
<1>1. nreq \in [NatalHandlers -> NatalRequest]
  BY DEF NatalInv, NatalTypeOK
<1>2. ASSUME NEW k \in NatalHandlers PROVE OwnRequest(nreq'[k])
  <2>1. CASE k = h
    BY <1>1, <2>1
  <2>2. CASE k # h
    <3>1. nreq'[k] = nreq[k]
      BY <1>1, <2>2
    <3> QED
      BY <3>1 DEF NatalInv
  <2> QED
    BY <2>1, <2>2
<1> QED
  BY <1>1, <1>2

LEMMA ClosedRequest ==
  ASSUME NatalInv, NEW h \in NatalHandlers, Close(h)
  PROVE  nreq' \in [NatalHandlers -> NatalRequest] /\ \A k \in NatalHandlers : OwnRequest(nreq'[k])
BY NatalIdleType, OneRequest DEF Close

(* A fresh reading is the text of the row it is compared with. *)
LEMMA FreshIsOwn ==
  ASSUME NEW v, NEW r \in NatalRow, OwnReading(v), FreshReading(v, r)
  PROVE  v.text = InputOf(r)
BY InputOfRow DEF FreshReading, OwnReading

LEMMA NatalInvInit == NatalInit => NatalInv
<1> SUFFICES ASSUME NatalInit PROVE NatalInv
  OBVIOUS
<1>1. row \in NatalRow /\ OwnRow(row)
  BY NatalAssumption DEF NatalInit, NatalRow, OwnRow, OwnReading, Births, Hash
<1>2. honest \in BOOLEAN /\ honest /\ crossed \in BOOLEAN
  BY DEF NatalInit
<1>5. asks \in 0..MaxNatalAsks
  BY NatalAssumption DEF NatalInit
<1>3. entry \in Entry /\ OwnEntry(entry)
  BY NoEntryType DEF NatalInit
<1>4. nreq \in [NatalHandlers -> NatalRequest] /\ \A h \in NatalHandlers : OwnRequest(nreq[h])
  BY NatalIdleType DEF NatalInit
<1> QED
  BY <1>1, <1>2, <1>3, <1>4, <1>5 DEF NatalInv, NatalTypeOK

LEMMA HeldInvStep == NatalInv /\ HeldInv /\ [NatalNext]_natalVars => HeldInv'
<1> SUFFICES ASSUME NatalInv, HeldInv, [NatalNext]_natalVars PROVE HeldInv'
  OBVIOUS
<1>1. row \in NatalRow /\ nreq \in [NatalHandlers -> NatalRequest]
  BY DEF NatalInv, NatalTypeOK
(* Every step but those of an edit leaves the signs alone and lets nobody in. *)
<1>2. ASSUME Holding' \subseteq Holding, row'.signs = row.signs
      PROVE  HeldInv'
  BY <1>2 DEF HeldInv
<1>3. ASSUME NEW h \in NatalHandlers, NEW q, q.at \notin {"uncache", "commit"} \/ h \in Holding,
             nreq' = [nreq EXCEPT ![h] = q]
      PROVE  Holding' \subseteq Holding
  BY <1>1, <1>3 DEF Holding
<1>4. ASSUME NEW h \in NatalHandlers, Close(h)
      PROVE  Holding' \subseteq Holding \ {h}
  BY <1>1, <1>4 DEF Close, NatalIdle, Holding
<1>5. ASSUME NEW h \in NatalHandlers, NEW k \in NatalKinds, OpenNatal(h, k)
      PROVE  HeldInv'
  BY <1>1, <1>2, <1>5 DEF OpenNatal, Holding
<1>6. ASSUME NEW h \in NatalHandlers, MiniRead(h)
      PROVE  HeldInv'
  <2>1. CASE Close(h)
    BY <1>2, <1>4, <1>6, <2>1 DEF MiniRead
  <2>2. CASE ~Close(h)
    <3>1. nreq' = [nreq EXCEPT ![h].cached = entry, ![h].at = "write"]
      BY <1>6, <2>2 DEF MiniRead
    <3>2. Holding' \subseteq Holding
      BY <1>1, <3>1 DEF Holding, NatalRequest
    <3> QED
      BY <1>2, <1>6, <3>2 DEF MiniRead
  <2> QED
    BY <2>1, <2>2
<1>7. ASSUME NEW h \in NatalHandlers,
             MiniWrite(h) \/ FullAnswer(h) \/ ReportCache(h)
      PROVE  HeldInv'
  BY <1>2, <1>4, <1>7 DEF MiniWrite, FullAnswer, ReportCache
<1>8. ASSUME NEW h \in NatalHandlers, FullRead(h)
      PROVE  HeldInv'
  BY <1>1, <1>2, <1>8 DEF FullRead, Holding
<1>9. ASSUME NEW h \in NatalHandlers, FindReady(h)
      PROVE  HeldInv'
  <2>1. row'.signs = row.signs
    BY <1>1, <1>9 DEF FindReady, NatalRow
  <2>2. Holding' \subseteq Holding
    <3>1. CASE Close(h)
      BY <3>1, <1>4
    <3>2. CASE ~Close(h)
      <4>1. PICK r : nreq' = [nreq EXCEPT ![h].ready = r,
                                ![h].at = IF nreq[h].kind = "full" THEN "answer" ELSE "generate"]
        BY <1>9, <3>2 DEF FindReady
      <4> QED
        BY <1>1, <4>1 DEF Holding, NatalRequest
    <3> QED
      BY <3>1, <3>2
  <2> QED
    BY <1>2, <2>1, <2>2
<1>10. ASSUME NEW h \in NatalHandlers, ReportSave(h)
       PROVE  HeldInv'
  <2>1. row'.signs = row.signs
    BY <1>1, <1>10 DEF ReportSave, NatalRow
  <2>2. CASE \E in, hash : nreq' = [nreq EXCEPT ![h].at = "cache", ![h].cached.text = in,
                                                ![h].cached.hash = hash]
    <3>1. Holding' \subseteq Holding
      BY <1>1, <2>2 DEF Holding, NatalRequest
    <3> QED
      BY <1>2, <2>1, <3>1
  <2>3. CASE Close(h)
    BY <1>2, <1>4, <2>1, <2>3
  <2> QED
    BY <1>10, <2>2, <2>3, Zenon DEF ReportSave
<1>11. ASSUME NEW h \in NatalHandlers, WheelStore(h)
       PROVE  HeldInv'
  <2>1. row'.signs = row.signs
    BY <1>1, <1>11 DEF WheelStore, NatalRow
  <2> QED
    BY <1>2, <1>4, <1>11, <2>1 DEF WheelStore
<1>12. ASSUME NEW h \in NatalHandlers, BirthFlush(h)
       PROVE  HeldInv'
  <2>1. Holding = {}
    BY <1>12 DEF BirthFlush, RowOpen, Holding
  <2>2. Holding' \subseteq {h}
    BY <1>1, <1>12, <2>1 DEF BirthFlush, Step, Holding
  <2>3. row'.signs < MaxBirths
    BY <1>12 DEF BirthFlush
  <2> QED
    BY <2>2, <2>3 DEF HeldInv
<1>13. ASSUME NEW h \in NatalHandlers, BirthUncache(h)
       PROVE  HeldInv'
  <2>1. Holding' \subseteq Holding
    BY <1>1, <1>13 DEF BirthUncache, Stands, Step, Holding
  <2> QED
    BY <1>2, <1>13, <2>1 DEF BirthUncache
<1>14. ASSUME NEW h \in NatalHandlers, BirthCommit(h)
       PROVE  HeldInv'
  <2>1. Holding = {h}
    BY <1>14 DEF BirthCommit, Stands, HeldInv, Holding
  <2>2. Holding' = {}
    BY <1>4, <1>14, <2>1 DEF BirthCommit
  <2> QED
    BY <2>2 DEF HeldInv
<1>15. ASSUME NEW h \in NatalHandlers, NEW g \in Genders, SetGender(h, g)
       PROVE  HeldInv'
  <2>1. row'.signs = row.signs
    BY <1>1, <1>15 DEF SetGender, NatalRow
  <2> QED
    BY <1>2, <1>4, <1>15, <2>1 DEF SetGender
<1>16. CASE EntryExpires \/ UNCHANGED natalVars
  BY <1>2, <1>16 DEF EntryExpires, natalVars, Holding
<1> QED
  BY <1>5, <1>6, <1>7, <1>8, <1>9, <1>10, <1>11, <1>12, <1>13, <1>14, <1>15, <1>16 DEF NatalNext

LEMMA MiniInvStep == NatalInv /\ MiniInv /\ [NatalNext]_natalVars => MiniInv'
<1> SUFFICES ASSUME NatalInv, MiniInv, [NatalNext]_natalVars, ~crossed' PROVE MiniInv'
  BY DEF MiniInv
<1>t. /\ row \in NatalRow /\ entry \in Entry /\ nreq \in [NatalHandlers -> NatalRequest]
      /\ NatalIdle.kind = "none" /\ NatalIdle.at = "idle" /\ NoEntry.mini = NoMini
  BY DEF NatalInv, NatalTypeOK, NatalIdle, NoEntry
(* One request moves on, and what it writes comes of copies of its own. *)
<1>o. ASSUME ~crossed, NEW h \in NatalHandlers, NEW q, nreq' = [nreq EXCEPT ![h] = q],
             row'.signs = row.signs,
             \/ entry'.mini \in {entry.mini, NoMini}
             \/ nreq[h].kind \in Rewriters /\ OfRow(entry'.mini),
             q.kind \in Rewriters =>
               nreq[h].kind \in Rewriters /\ q.row = nreq[h].row /\ OfRow(q.cached.mini),
             q.at = "commit" => nreq[h].at = "commit"
      PROVE  MiniInv'
  <2>1. \A k \in NatalHandlers \ {h} : nreq'[k] = nreq[k]
    BY <1>o, <1>t
  <2>2. nreq'[h] = q
    BY <1>o, <1>t
  <2>3. OfRow(entry.mini)
        /\ \A k \in NatalHandlers : nreq[k].kind \in Rewriters =>
             nreq[k].row.signs = row.signs /\ OfRow(nreq[k].cached.mini)
    BY <1>o DEF MiniInv
  <2>4. \A mini : OfRow(mini) => (OfRow(mini))'
    BY <1>o DEF OfRow
  <2>5. (OfRow(entry.mini))'
    BY <1>o, <2>3 DEF OfRow
  <2>6. ASSUME NEW k \in NatalHandlers, nreq'[k].kind \in Rewriters
        PROVE  nreq'[k].row.signs = row'.signs /\ (OfRow(nreq[k].cached.mini))'
    <3>1. CASE k = h
      BY <1>o, <2>2, <2>3, <2>6, <3>1 DEF OfRow
    <3>2. CASE k # h
      BY <1>o, <2>1, <2>3, <2>6, <3>2 DEF OfRow
    <3> QED BY <3>1, <3>2
  <2>7. ASSUME NEW k \in NatalHandlers, nreq'[k].at = "commit"
        PROVE  entry'.mini = NoMini /\ ~Rewriting'
    <3>1. nreq[k].at = "commit"
      BY <1>o, <2>1, <2>2, <2>7
    <3>2. entry.mini = NoMini /\ ~Rewriting
      BY <1>o, <3>1 DEF MiniInv
    <3> QED BY <1>o, <2>1, <2>2, <3>2 DEF Rewriting
  <2> QED BY <2>5, <2>6, <2>7 DEF MiniInv
<1>c. ASSUME ~crossed, NEW h \in NatalHandlers, Close(h), row'.signs = row.signs,
             \/ entry'.mini \in {entry.mini, NoMini}
             \/ nreq[h].kind \in Rewriters /\ OfRow(entry'.mini)
      PROVE  MiniInv'
  BY <1>c, <1>o, <1>t DEF Close, Rewriters
<1>s. ASSUME ~crossed, NEW h \in NatalHandlers, nreq[h].kind \in Rewriters
      PROVE  nreq[h].row.signs = row.signs /\ OfRow(nreq[h].cached.mini) /\ OfRow(entry.mini)
  BY <1>s DEF MiniInv
<1>1. ASSUME NEW h \in NatalHandlers, NEW k \in NatalKinds, OpenNatal(h, k)
      PROVE  MiniInv'
  <2> DEFINE q == [kind |-> k, at |-> "read", row |-> row, cached |-> NoEntry, ready |-> Nothing]
  <2>1. /\ nreq' = [nreq EXCEPT ![h] = q] /\ UNCHANGED <<row, entry>> /\ ~crossed
        /\ k \in Rewriters => \A i \in NatalHandlers : nreq[i].at # "commit"
    BY <1>1 DEF OpenNatal
  <2>2. q.kind = k /\ q.at = "read" /\ q.row = row /\ q.cached = NoEntry
    OBVIOUS
  <2> HIDE DEF q
  <2>3. nreq'[h] = q /\ \A i \in NatalHandlers \ {h} : nreq'[i] = nreq[i]
    BY <2>1, <1>t
  <2>4. (OfRow(entry.mini))'
    BY <2>1 DEF MiniInv, OfRow
  <2>5. ASSUME NEW i \in NatalHandlers, nreq'[i].kind \in Rewriters
        PROVE  nreq'[i].row.signs = row'.signs /\ (OfRow(nreq[i].cached.mini))'
    <3>1. CASE i = h
      BY <2>1, <2>2, <2>3, <3>1, <1>t DEF OfRow
    <3>2. CASE i # h
      BY <2>1, <2>3, <2>5, <3>2 DEF MiniInv, OfRow
    <3> QED BY <3>1, <3>2
  <2>6. ASSUME NEW i \in NatalHandlers, nreq'[i].at = "commit"
        PROVE  entry'.mini = NoMini /\ ~Rewriting'
    <3>1. i # h /\ nreq[i].at = "commit"
      BY <2>2, <2>3, <2>6
    <3>2. entry.mini = NoMini /\ ~Rewriting /\ k \notin Rewriters
      BY <2>1, <3>1 DEF MiniInv
    <3> QED BY <2>1, <2>2, <2>3, <3>2 DEF Rewriting
  <2> QED BY <2>4, <2>5, <2>6 DEF MiniInv
<1>2. ASSUME NEW h \in NatalHandlers, MiniRead(h)
      PROVE  MiniInv'
  <2>1. nreq[h].kind \in Rewriters /\ ~crossed /\ UNCHANGED <<row, entry>>
    BY <1>2 DEF MiniRead, Stands, Rewriters
  <2>2. CASE Close(h)
    BY <2>1, <2>2, <1>c
  <2>3. CASE ~Close(h)
    <3> DEFINE q == [nreq[h] EXCEPT !.cached = entry, !.at = "write"]
    <3>1. nreq' = [nreq EXCEPT ![h] = q]
      BY <1>2, <2>3, <1>t DEF MiniRead, NatalRequest
    <3>2. q.row = nreq[h].row /\ q.at = "write" /\ q.cached = entry
      BY <1>t DEF NatalRequest
    <3> HIDE DEF q
    <3> QED BY <2>1, <3>1, <3>2, <1>o, <1>s
  <2> QED BY <2>2, <2>3
<1>3. ASSUME NEW h \in NatalHandlers, MiniWrite(h)
      PROVE  MiniInv'
  <2>1. nreq[h].kind \in Rewriters /\ ~crossed /\ UNCHANGED row /\ Close(h)
    BY <1>3 DEF MiniWrite, Stands, Rewriters
  <2>2. entry'.mini = entry.mini \/ entry'.mini.signs = nreq[h].row.signs
    BY <1>3, <1>t DEF MiniWrite, NatalRequest, Entry
  <2>3. entry'.mini = entry.mini \/ OfRow(entry'.mini)
    BY <2>1, <2>2, <1>s DEF OfRow
  <2> QED BY <2>1, <2>3, <1>c
<1>4. ASSUME NEW h \in NatalHandlers, FullRead(h)
      PROVE  MiniInv'
  <2> DEFINE q == [nreq[h] EXCEPT !.cached = entry, !.at = "ready"]
  <2>1. nreq[h].kind \in Rewriters /\ ~crossed /\ UNCHANGED <<row, entry>>
    BY <1>4 DEF FullRead, Stands, Rewriters
  <2>2. nreq' = [nreq EXCEPT ![h] = q]
    BY <1>4, <1>t DEF FullRead, NatalRequest
  <2>3. q.row = nreq[h].row /\ q.at = "ready" /\ q.cached = entry
    BY <1>t DEF NatalRequest
  <2> HIDE DEF q
  <2> QED BY <2>1, <2>2, <2>3, <1>o, <1>s
<1>5. ASSUME NEW h \in NatalHandlers, FindReady(h)
      PROVE  MiniInv'
  <2>1. /\ nreq[h].kind \in Rewriters /\ ~crossed /\ UNCHANGED entry
        /\ row'.signs = row.signs
    BY <1>5, <1>t DEF FindReady, Stands, Rewriters, NatalRow
  <2>2. CASE Close(h)
    BY <2>1, <2>2, <1>c
  <2>3. CASE ~Close(h)
    <3>1. PICK r : \E at \in {"answer", "generate"} : nreq' = [nreq EXCEPT ![h].ready = r, ![h].at = at]
      BY <1>5, <2>3 DEF FindReady
    <3>4. PICK at \in {"answer", "generate"} : nreq' = [nreq EXCEPT ![h].ready = r, ![h].at = at]
      BY <3>1
    <3> DEFINE q == [nreq[h] EXCEPT !.ready = r, !.at = at]
    <3>2. nreq' = [nreq EXCEPT ![h] = q]
      BY <3>4, <1>t DEF NatalRequest
    <3>3. q.row = nreq[h].row /\ q.at = at /\ q.cached = nreq[h].cached
      BY <1>t DEF NatalRequest
    <3> HIDE DEF q
    <3> QED BY <2>1, <3>2, <3>3, <1>o, <1>s
  <2> QED BY <2>2, <2>3
<1>6. ASSUME NEW h \in NatalHandlers, FullAnswer(h)
      PROVE  MiniInv'
  <2>1. nreq[h].kind \in Rewriters /\ ~crossed /\ UNCHANGED row /\ Close(h)
    BY <1>6 DEF FullAnswer, Stands, Rewriters
  <2>2. entry'.mini \in {nreq[h].cached.mini, NoMini}
    BY <1>6, <1>t DEF FullAnswer, Rebuilt, NatalRequest, Entry
  <2>3. OfRow(entry'.mini)
    BY <2>1, <2>2, <1>s DEF OfRow
  <2> QED BY <2>1, <2>3, <1>c
<1>7. ASSUME NEW h \in NatalHandlers, ReportSave(h)
      PROVE  MiniInv'
  <2>1. /\ nreq[h].kind \in Rewriters /\ ~crossed /\ UNCHANGED entry
        /\ row'.signs = row.signs
    BY <1>7, <1>t DEF ReportSave, Stands, Rewriters, NatalRow
  <2>2. CASE Close(h)
    BY <2>1, <2>2, <1>c
  <2>3. CASE ~Close(h)
    <3>1. PICK in, hash : nreq' = [nreq EXCEPT ![h].at = "cache", ![h].cached.text = in,
                                             ![h].cached.hash = hash]
      BY <1>7, <2>3, Zenon DEF ReportSave
    <3> DEFINE q == [nreq[h] EXCEPT !.at = "cache", !.cached.text = in, !.cached.hash = hash]
    <3>2. nreq' = [nreq EXCEPT ![h] = q]
      BY <3>1, <1>t DEF NatalRequest
    <3>3. q.row = nreq[h].row /\ q.at = "cache" /\ q.kind = nreq[h].kind
      BY <1>t DEF NatalRequest
    <3>4. nreq[h].cached \in Entry
      BY <1>t DEF NatalRequest
    <3>5. q.cached = [nreq[h].cached EXCEPT !.text = in, !.hash = hash]
      BY <1>t DEF NatalRequest
    <3>6. q.cached.mini = nreq[h].cached.mini
      BY <3>4, <3>5 DEF Entry
    <3> HIDE DEF q
    <3> QED BY <2>1, <3>2, <3>3, <3>6, <1>o, <1>s
  <2> QED BY <2>2, <2>3
<1>8. ASSUME NEW h \in NatalHandlers, ReportCache(h)
      PROVE  MiniInv'
  <2>1. /\ nreq[h].kind \in Rewriters /\ ~crossed /\ UNCHANGED row /\ Close(h)
        /\ entry' = nreq[h].cached
    BY <1>8 DEF ReportCache, Stands, Rewriters
  <2> QED BY <2>1, <1>c, <1>s
<1>9. ASSUME NEW h \in NatalHandlers,
             WheelStore(h) \/ \E g \in Genders : SetGender(h, g)
      PROVE  MiniInv'
  <2>1. ~crossed /\ UNCHANGED entry /\ Close(h) /\ row'.signs = row.signs
    BY <1>9, <1>t DEF WheelStore, SetGender, NatalRow
  <2> QED BY <2>1, <1>c
<1>10. ASSUME NEW h \in NatalHandlers, BirthFlush(h)
       PROVE  MiniInv'
  <2> DEFINE q == [nreq[h] EXCEPT !.at = "uncache"]
  <2>1. ~crossed /\ UNCHANGED <<row, entry>> /\ nreq[h].kind = "birth"
    BY <1>10 DEF BirthFlush, Stands
  <2>2. nreq' = [nreq EXCEPT ![h] = q]
    BY <1>10, <1>t DEF BirthFlush, Step, NatalRequest
  <2>3. q.kind = "birth" /\ q.at = "uncache"
    BY <2>1, <1>t DEF NatalRequest
  <2> HIDE DEF q
  <2> QED BY <2>1, <2>2, <2>3, <1>o DEF Rewriters
<1>11. ASSUME NEW h \in NatalHandlers, BirthUncache(h)
       PROVE  MiniInv'
  <2> DEFINE q == [nreq[h] EXCEPT !.at = "commit"]
  <2>1. entry' = NoEntry /\ ~Rewriting
    BY <1>11 DEF BirthUncache
  <2>2. nreq' = [nreq EXCEPT ![h] = q]
    BY <1>11, <1>t DEF BirthUncache, Step, NatalRequest
  <2>3. q.kind = nreq[h].kind
    BY <1>t DEF NatalRequest
  <2> HIDE DEF q
  <2>4. \A k \in NatalHandlers : nreq'[k].kind \notin Rewriters
    BY <2>1, <2>2, <2>3, <1>t DEF Rewriting
  <2> QED BY <2>1, <2>4, <1>t DEF MiniInv, OfRow, Rewriting
<1>12. ASSUME NEW h \in NatalHandlers, BirthCommit(h)
       PROVE  MiniInv'
  <2>1. nreq[h].at = "commit" /\ ~crossed /\ UNCHANGED entry /\ Close(h)
    BY <1>12 DEF BirthCommit, Stands
  <2>2. entry.mini = NoMini /\ ~Rewriting
    BY <2>1 DEF MiniInv
  <2>3. \A k \in NatalHandlers : nreq'[k].kind \notin Rewriters
    BY <2>1, <2>2, <1>t DEF Rewriting, Close, Rewriters
  <2> QED BY <2>1, <2>2, <2>3 DEF MiniInv, OfRow, Rewriting
<1>13. CASE EntryExpires \/ UNCHANGED natalVars
  <2>1. UNCHANGED <<row, nreq>> /\ ~crossed /\ entry' \in {entry, NoEntry}
    BY <1>13 DEF EntryExpires, natalVars
  <2>2. entry'.mini \in {entry.mini, NoMini}
    BY <2>1, <1>t
  <2> QED BY <2>1, <2>2 DEF MiniInv, OfRow, Rewriting
<1> QED
  BY <1>1, <1>2, <1>3, <1>4, <1>5, <1>6, <1>7, <1>8, <1>9, <1>10, <1>11, <1>12, <1>13
  DEF NatalNext

LEMMA NatalInvStep == NatalInv /\ HeldInv /\ MiniInv /\ [NatalNext]_natalVars => NatalInv'
<1> SUFFICES ASSUME NatalInv, HeldInv, MiniInv, [NatalNext]_natalVars PROVE NatalInv'
  OBVIOUS
<1> USE DEF NatalInv, NatalTypeOK
<1>1. /\ row \in NatalRow /\ entry \in Entry /\ asks \in 0..MaxNatalAsks /\ honest
      /\ crossed \in BOOLEAN
      /\ nreq \in [NatalHandlers -> NatalRequest]
      /\ OwnRow(row) /\ OwnEntry(entry)
  OBVIOUS
<1>2. ASSUME NEW h \in NatalHandlers, NEW k \in NatalKinds, OpenNatal(h, k)
      PROVE  NatalInv'
  <2>1. asks' \in 0..MaxNatalAsks /\ crossed' \in BOOLEAN
    BY <1>1, <1>2, NatalAssumption DEF OpenNatal
  <2> DEFINE q == [kind |-> k, at |-> "read", row |-> row, cached |-> NoEntry, ready |-> Nothing]
  <2>2. q \in NatalRequest /\ OwnRequest(q)
    BY <1>1, NoEntryType DEF NatalRequest, OwnRequest
  <2> HIDE DEF q
  <2>3. nreq' = [nreq EXCEPT ![h] = q]
    BY <1>2 DEF OpenNatal, q
  <2> QED
    BY <1>1, <1>2, <2>1, <2>2, <2>3, OneRequest DEF OpenNatal
<1>3. ASSUME NEW h \in NatalHandlers PROVE MiniRead(h) => NatalInv'
  <2> SUFFICES ASSUME MiniRead(h) PROVE NatalInv'
    OBVIOUS
  <2>1. CASE FreshMini(entry.mini, nreq[h].row)
    <3>1. entry.mini.gender = nreq[h].row.gender
      BY <1>1, <2>1 DEF OwnEntry, FreshMini
    <3>4. crossed \/ entry.mini.signs = nreq[h].row.signs
      BY <2>1 DEF FreshMini, MiniInv, MiniRead, Stands, Rewriters, OfRow
    <3>5. honest' /\ Close(h)
      BY <1>1, <2>1, <3>1, <3>4 DEF MiniRead
    <3> QED
      BY <1>1, <3>5, ClosedRequest DEF MiniRead
  <2>2. CASE ~FreshMini(entry.mini, nreq[h].row)
    <3> DEFINE q == [nreq[h] EXCEPT !.cached = entry, !.at = "write"]
    <3>1. q \in NatalRequest /\ OwnRequest(q)
      BY <1>1 DEF MiniRead, Stands, NatalRequest, OwnRequest
    <3>2. nreq' = [nreq EXCEPT ![h] = q]
      BY <1>1, <2>2 DEF MiniRead, NatalRequest
    <3> HIDE DEF q
    <3>3. UNCHANGED <<row, entry, honest, crossed, asks>>
      BY <2>2 DEF MiniRead
    <3> QED
      BY <1>1, <3>1, <3>2, <3>3, OneRequest
  <2> QED
    BY <2>1, <2>2
<1>4. ASSUME NEW h \in NatalHandlers PROVE MiniWrite(h) => NatalInv'
  <2> SUFFICES ASSUME MiniWrite(h) PROVE NatalInv'
    OBVIOUS
  <2>1. nreq[h].row \in NatalRow /\ nreq[h].cached \in Entry /\ OwnEntry(nreq[h].cached)
    BY <1>1 DEF MiniWrite, Stands, OwnRequest, OwnRow, NatalRequest
  <2>2. entry' \in Entry /\ OwnEntry(entry')
    BY <1>1, <2>1 DEF MiniWrite, Entry, Mini, NatalRow, OwnEntry, OwnReading
  <2> QED
    BY <1>1, <2>2, ClosedRequest DEF MiniWrite
<1>5. ASSUME NEW h \in NatalHandlers PROVE FullRead(h) => NatalInv'
  <2> SUFFICES ASSUME FullRead(h) PROVE NatalInv'
    OBVIOUS
  <2> DEFINE q == [nreq[h] EXCEPT !.cached = entry, !.at = "ready"]
  <2>1. q \in NatalRequest /\ OwnRequest(q)
    BY <1>1 DEF FullRead, Stands, NatalRequest, OwnRequest
  <2>2. nreq' = [nreq EXCEPT ![h] = q]
    BY <1>1 DEF FullRead, NatalRequest
  <2> HIDE DEF q
  <2> QED
    BY <1>1, <2>1, <2>2, OneRequest DEF FullRead
<1>6. ASSUME NEW h \in NatalHandlers PROVE FindReady(h) => NatalInv'
  <2> SUFFICES ASSUME FindReady(h) PROVE NatalInv'
    OBVIOUS
  <2> DEFINE mine == nreq[h].row
             ready == IF FreshReading(entry, mine) THEN entry.text
                      ELSE IF FreshReading(mine, mine) THEN mine.text ELSE Nothing
  <2>1. mine \in NatalRow /\ OwnRow(mine) /\ InputOf(mine) \in Input /\ InputOf(mine) # Nothing
    BY <1>1, InputOfRow DEF FindReady, Stands, OwnRequest, OwnRow
  <2>2. ready \in {Nothing, InputOf(mine)}
    BY <1>1, <2>1, FreshIsOwn DEF OwnEntry, OwnRow
  <2>3. \/ row' = row
        \/ row' = [row EXCEPT !.text = entry.text, !.hash = InputOf(mine)] /\ FreshReading(entry, mine)
    BY DEF FindReady
  <2>4. OwnRow(row')
    <3>1. CASE row' = row
      BY <1>1, <3>1
    <3>2. CASE row' = [row EXCEPT !.text = entry.text, !.hash = InputOf(mine)] /\ FreshReading(entry, mine)
      <4>1. entry.text = InputOf(mine)
        BY <1>1, <2>1, <3>2, FreshIsOwn DEF OwnEntry
      <4> QED
        BY <1>1, <2>1, <3>2, <4>1 DEF OwnRow, OwnReading, NatalRow, Hash
    <3> QED
      BY <2>3, <3>1, <3>2
  <2>5. CASE nreq[h].kind = "report" /\ ready # Nothing
    <3>1. honest' /\ Close(h)
      BY <1>1, <2>2, <2>5 DEF FindReady, Show
    <3> QED
      BY <1>1, <2>4, <3>1, ClosedRequest DEF FindReady, OwnRow
  <2>6. CASE ~(nreq[h].kind = "report" /\ ready # Nothing)
    <3> DEFINE q == [nreq[h] EXCEPT !.ready = ready,
                                    !.at = IF nreq[h].kind = "full" THEN "answer" ELSE "generate"]
    <3>1. q \in NatalRequest /\ OwnRequest(q)
      BY <1>1, <2>1, <2>2 DEF FindReady, Stands, NatalRequest, OwnRequest
    <3>2. nreq' = [nreq EXCEPT ![h] = q]
      BY <1>1, <2>6 DEF FindReady, NatalRequest
    <3>3. UNCHANGED <<entry, honest, crossed, asks>>
      BY <2>6 DEF FindReady
    <3> HIDE DEF q
    <3> QED
      BY <1>1, <2>4, <3>1, <3>2, <3>3, OneRequest DEF OwnRow
  <2> QED
    BY <2>5, <2>6
<1>7. ASSUME NEW h \in NatalHandlers PROVE FullAnswer(h) => NatalInv'
  <2> SUFFICES ASSUME FullAnswer(h) PROVE NatalInv'
    OBVIOUS
  <2> DEFINE q == nreq[h]
  <2>1. /\ q.row \in NatalRow /\ q.cached \in Entry /\ q.ready \in Input \cup {Nothing}
        /\ OwnEntry(q.cached) /\ (q.ready # Nothing => q.ready = InputOf(q.row))
        /\ InputOf(q.row) \in Input
    BY <1>1, InputOfRow DEF FullAnswer, Stands, OwnRequest, OwnRow, NatalRequest
  <2>2. CASE q.cached.planets # Nothing /\ q.ready # Nothing
    <3>1. entry' = [q.cached EXCEPT !.text = q.ready, !.hash = InputOf(q.row)]
      BY <2>2 DEF FullAnswer
    <3> HIDE DEF q
    <3>2. entry' \in Entry /\ OwnEntry(entry')
      BY <2>1, <2>2, <3>1 DEF Entry, OwnEntry, OwnReading, Hash
    <3>3. honest'
      BY <1>1, <2>1, <2>2 DEF FullAnswer, Show, q
    <3> QED
      BY <1>1, <3>2, <3>3, ClosedRequest DEF FullAnswer
  <2>3. CASE ~(q.cached.planets # Nothing /\ q.ready # Nothing)
    <3>1. entry' = Rebuilt(q.row, q.ready)
      BY <2>3 DEF FullAnswer
    <3> HIDE DEF q
    <3>2. /\ entry'.mini = NoMini /\ NoMini.gender = NoMini.mark
          /\ entry'.hash \in Input => entry'.text = entry'.hash
      BY <2>1, <3>1, NatalAssumption DEF Rebuilt, NoMini
    <3>4. entry' \in Entry
      BY <2>1, <3>1 DEF Rebuilt, Entry, NatalRow, Hash
    <3>5. OwnEntry(entry')
      BY <3>2 DEF OwnEntry, OwnReading
    <3>3. honest'
      BY <1>1, <2>1 DEF FullAnswer, Show, q
    <3> QED
      BY <1>1, <3>3, <3>4, <3>5, ClosedRequest DEF FullAnswer
  <2> QED
    BY <2>2, <2>3
<1>8. ASSUME NEW h \in NatalHandlers PROVE ReportSave(h) => NatalInv'
  <2> SUFFICES ASSUME ReportSave(h) PROVE NatalInv'
    OBVIOUS
  <2>1. nreq[h].row \in NatalRow /\ InputOf(nreq[h].row) \in Input /\ InputOf(nreq[h].row) # Nothing
    BY <1>1, InputOfRow DEF ReportSave, Stands, OwnRequest, OwnRow
  <2>2. ASSUME NEW hash \in {InputOf(nreq[h].row), Reduced},
               row' = [row EXCEPT !.text = InputOf(nreq[h].row), !.hash = hash],
               nreq' = [nreq EXCEPT ![h].at = "cache", ![h].cached.text = InputOf(nreq[h].row),
                                    ![h].cached.hash = hash],
               UNCHANGED <<entry, honest, crossed, asks>>
        PROVE  NatalInv'
    <3>1. hash \in Hash /\ hash # Nothing /\ (hash \in Input => hash = InputOf(nreq[h].row))
      BY <2>1, <2>2, NatalAssumption DEF Hash
    <3>2. OwnRow(row')
      BY <1>1, <2>1, <2>2, <3>1 DEF OwnRow, OwnReading, NatalRow
    <3> DEFINE q == [nreq[h] EXCEPT !.at = "cache", !.cached.text = InputOf(nreq[h].row),
                                    !.cached.hash = hash]
    <3>3. nreq' = [nreq EXCEPT ![h] = q]
      BY <1>1, <2>2 DEF NatalRequest
    <3>4. nreq[h] \in NatalRequest /\ OwnRequest(nreq[h]) /\ nreq[h].at # "idle"
      BY <1>1 DEF ReportSave, Stands
    <3>5. /\ q.cached \in Entry /\ OwnEntry(q.cached) /\ q.cached.text = InputOf(nreq[h].row)
          /\ q.row = nreq[h].row /\ q.ready = nreq[h].ready /\ q.at = "cache"
      <4>1. nreq[h].cached \in Entry /\ OwnEntry(nreq[h].cached)
        BY <3>4 DEF NatalRequest, OwnRequest
      <4>2. q.cached = [nreq[h].cached EXCEPT !.text = InputOf(nreq[h].row), !.hash = hash]
        BY <3>4 DEF NatalRequest
      <4>3. q.row = nreq[h].row /\ q.ready = nreq[h].ready /\ q.at = "cache"
        BY <3>4 DEF NatalRequest
      <4>4. [nreq[h].cached EXCEPT !.text = InputOf(nreq[h].row), !.hash = hash] \in Entry
        BY <4>1, <2>1, <3>1 DEF Entry
      <4>5. OwnEntry([nreq[h].cached EXCEPT !.text = InputOf(nreq[h].row), !.hash = hash])
        BY <4>1, <2>1, <3>1 DEF Entry, OwnEntry, OwnReading
      <4>6. q.cached.text = InputOf(nreq[h].row)
        BY <4>1, <4>2 DEF Entry
      <4> HIDE DEF q
      <4> QED BY <4>2, <4>3, <4>4, <4>5, <4>6
    <3>6. q \in NatalRequest
      <4>1. q = [nreq[h] EXCEPT !.at = "cache", !.cached = q.cached]
        BY <3>4 DEF NatalRequest
      <4> HIDE DEF q
      <4> QED BY <3>4, <3>5, <4>1 DEF NatalRequest
    <3> HIDE DEF q
    <3>7. OwnRequest(q)
      BY <3>4, <3>5 DEF OwnRequest
    <3> QED
      BY <1>1, <2>2, <3>2, <3>3, <3>6, <3>7, OneRequest DEF OwnRow
  <2>3. CASE Close(h) /\ UNCHANGED row
    BY <1>1, <2>3, ClosedRequest DEF ReportSave
  <2> QED
    BY <2>2, <2>3 DEF ReportSave
<1>9. ASSUME NEW h \in NatalHandlers PROVE ReportCache(h) => NatalInv'
  <2> SUFFICES ASSUME ReportCache(h) PROVE NatalInv'
    OBVIOUS
  <2>1. entry' \in Entry /\ OwnEntry(entry')
    BY <1>1 DEF ReportCache, Stands, OwnRequest, NatalRequest
  <2>2. honest'
    BY <1>1 DEF ReportCache, Stands, OwnRequest, Show
  <2> QED
    BY <1>1, <2>1, <2>2, ClosedRequest DEF ReportCache
<1>10. ASSUME NEW h \in NatalHandlers PROVE WheelStore(h) => NatalInv'
  <2> SUFFICES ASSUME WheelStore(h) PROVE NatalInv'
    OBVIOUS
  <2>1. nreq[h].row \in NatalRow
    BY <1>1 DEF WheelStore, Stands, OwnRequest, OwnRow
  <2>2. OwnRow(row')
    BY <1>1, <2>1 DEF WheelStore, OwnRow, OwnReading, NatalRow
  <2> QED
    BY <1>1, <2>2, ClosedRequest DEF WheelStore, OwnRow
<1>11. ASSUME NEW h \in NatalHandlers PROVE BirthFlush(h) => NatalInv'
  <2> SUFFICES ASSUME BirthFlush(h) PROVE NatalInv'
    OBVIOUS
  <2> DEFINE q == [nreq[h] EXCEPT !.at = "uncache"]
  <2>1. q \in NatalRequest /\ OwnRequest(q)
    BY <1>1 DEF BirthFlush, Stands, NatalRequest, OwnRequest
  <2>2. nreq' = [nreq EXCEPT ![h] = q]
    BY <1>1 DEF BirthFlush, Step, NatalRequest
  <2> HIDE DEF q
  <2> QED
    BY <1>1, <2>1, <2>2, OneRequest DEF BirthFlush
<1>12. ASSUME NEW h \in NatalHandlers PROVE BirthUncache(h) => NatalInv'
  <2> SUFFICES ASSUME BirthUncache(h) PROVE NatalInv'
    OBVIOUS
  <2> DEFINE q == [nreq[h] EXCEPT !.at = "commit"]
  <2>1. q \in NatalRequest /\ OwnRequest(q)
    BY <1>1 DEF BirthUncache, Stands, NatalRequest, OwnRequest
  <2>2. nreq' = [nreq EXCEPT ![h] = q]
    BY <1>1 DEF BirthUncache, Step, NatalRequest
  <2> HIDE DEF q
  <2>3. nreq' \in [NatalHandlers -> NatalRequest] /\ \A k \in NatalHandlers : OwnRequest(nreq'[k])
    BY <1>1, <2>1, <2>2, OneRequest
  <2>4. crossed' \in BOOLEAN
    BY DEF BirthUncache, Rewriting
  <2> QED
    BY <1>1, <2>3, <2>4, NoEntryType DEF BirthUncache
<1>13. ASSUME NEW h \in NatalHandlers PROVE BirthCommit(h) => NatalInv'
  <2> SUFFICES ASSUME BirthCommit(h) PROVE NatalInv'
    OBVIOUS
  <2>1. nreq[h].row.text = Nothing <=> nreq[h].row.hash = Nothing
    BY <1>1 DEF BirthCommit, Stands, OwnRequest, OwnRow
  <2>2. row.signs + 1 \in Births
    BY <1>1, NatalAssumption DEF BirthCommit, Stands, HeldInv, Holding, NatalRow, Births
  <2>3. OwnRow(row')
    BY <1>1, <2>1, <2>2 DEF BirthCommit, OwnRow, OwnReading, NatalRow, Hash
  <2> QED
    BY <1>1, <2>3, ClosedRequest DEF BirthCommit, OwnRow
<1>14. ASSUME NEW h \in NatalHandlers, NEW g \in Genders PROVE SetGender(h, g) => NatalInv'
  <2> SUFFICES ASSUME SetGender(h, g) PROVE NatalInv'
    OBVIOUS
  <2>1. OwnRow(row')
    BY <1>1 DEF SetGender, OwnRow, OwnReading, NatalRow
  <2> QED
    BY <1>1, <2>1, ClosedRequest DEF SetGender, OwnRow
<1>15. CASE EntryExpires
  BY <1>1, <1>15, NoEntryType DEF EntryExpires
<1>16. CASE UNCHANGED natalVars
  BY <1>1, <1>16 DEF natalVars
<1> QED
  BY <1>2, <1>3, <1>4, <1>5, <1>6, <1>7, <1>8, <1>9, <1>10, <1>11, <1>12, <1>13, <1>14,
     <1>15, <1>16 DEF NatalNext

(* Whatever order the blind writes of the entry and of the row come in, a text
   that carries an input hash was written from that input, a mini text is marked
   with the gender it was written for and is about the row's signs unless a
   request crossed the last edit, and a text served as fresh is about the row its
   request loaded. *)
THEOREM NatalTextsHold == NatalSpec => [](NatalTypeOK /\ NatalTextsAreOwn)
<1>1. NatalInit => HeldInv
  <2>1. NatalInit => \A h \in NatalHandlers : nreq[h].at = "idle"
    <3>1. NatalIdle.at = "idle"
      BY Zenon DEF NatalIdle
    <3> QED BY <3>1 DEF NatalInit
  <2>2. NatalInit => Holding = {}
    BY <2>1 DEF Holding
  <2> QED
    BY <2>2 DEF HeldInv
<1>2. NatalInit => MiniInv
  BY DEF NatalInit, MiniInv, OfRow, NoEntry, NatalIdle, Rewriters
<1>3. NatalInv /\ MiniInv => NatalTypeOK /\ NatalTextsAreOwn
  BY DEF NatalInv, MiniInv, OfRow, NatalTextsAreOwn, OwnRow, OwnEntry, OwnReading
<1> QED
  BY NatalInvInit, NatalInvStep, HeldInvStep, MiniInvStep, <1>1, <1>2, <1>3, PTL DEF NatalSpec
-----------------------------------------------------------------------------
(* The texts of transits, pairs, horoscopes and spreads. *)

TxRow == [tab: {"transit", "synastry", "pair"},
          t: Transits \cup Opened \cup PairAspects \cup {PairKey},
          ver: {"current", "legacy"},
          text: {"sound", "filler"}, advice: SUBSET AdviceBlocks]
TxPage == [texts: UNION {[S -> {"sound", "filler"}] : S \in SUBSET Transits}, long: BOOLEAN]
TxRequest ==
  [at: {"rest", "answer", "ask", "store", "pair"},
   service: {"", "page", "advice", "aspects", "pair", "horoscope", "tarot"},
   key: Pages \cup Opened \cup {"", "sign", "own"}, want: SUBSET (PairAspects \cup TxRow),
   got: {"none", "sound"}, page: TxPage, gender: TxGenders \cup {""}]
TxTask == [at: {"rest", "ask", "store", "drop"}, key: Pages \cup {""},
           want: SUBSET Transits, got: {"none", "sound"}]

(* At most one row of a table for a key and version. *)
Unique(R) == \A r, s \in R : r.tab = s.tab /\ r.t = s.t /\ r.ver = s.ver => r = s

(* What a page that is to be kept for long shows. *)
GoodPage(page) ==
  page.long => \A t \in DOMAIN page.texts :
                 Stored("transit", {t}) # {} /\ page.texts[t] = TextOf("transit", t)

RowsInv == txRows \subseteq TxRow /\ Unique(txRows)
CachesInv ==
  /\ txPages \in [Pages -> TxPage]
  /\ txHoros \in [{"sign", "own"} -> {"none", "sound", "generic"}]
  /\ \A e \in txTarot : e.text = "sound"
  /\ txChart \in Charts /\ txGender \in TxGenders
AsksInv ==
  /\ txReq \in [TxHandlers -> TxRequest]
  /\ \A h \in TxHandlers :
       /\ txReq[h].at = "store" /\ txReq[h].service # "horoscope" => txReq[h].got = "sound"
       /\ txReq[h].service = "aspects" => txReq[h].want \subseteq PairAspects
       /\ txReq[h].service = "advice" => txReq[h].key \in Opened /\ txReq[h].want \subseteq TxRow
       /\ txReq[h].at \in {"ask", "store"} => txReq[h].service # "page"
TasksInv ==
  /\ txTask \in [TxHandlers -> TxTask]
  /\ \A h \in TxHandlers : txTask[h].at = "store" <=> txTask[h].got = "sound"
(* A long page has what the table has, in the cache and on its way there. *)
PagesInv ==
  /\ \A p \in Pages : GoodPage(txPages[p])
  /\ \A h \in TxHandlers : GoodPage(txReq[h].page)
TxInv == RowsInv /\ CachesInv /\ AsksInv /\ TasksInv /\ PagesInv

LEMMA AnswersAreSound == ASSUME NEW service PROVE Answers(service) \subseteq {"none", "sound"}
BY DEF Answers, Judged

LEMMA NoPageType == NoPage \in TxPage /\ NoPage.long = FALSE
<1>1. <<>> \in [{} -> {"sound", "filler"}]
  OBVIOUS
<1>2. {} \in SUBSET Transits
  OBVIOUS
<1>3. <<>> \in UNION {[S -> {"sound", "filler"}] : S \in SUBSET Transits}
  BY <1>1, <1>2
<1> QED
  BY <1>3 DEF NoPage, TxPage

LEMMA AtRest == NoAsk \in TxRequest /\ NoFill \in TxTask /\ ~NoAsk.page.long
BY NoPageType DEF NoAsk, NoFill, TxRequest, TxTask

StoredIn(R, t) == {r \in R : r.tab = "transit" /\ r.ver = "current" /\ r.t \in {t}}

LEMMA OnlyRow ==
  ASSUME NEW R, Unique(R), NEW t, NEW r \in StoredIn(R, t)
  PROVE  (CHOOSE s \in StoredIn(R, t) : TRUE) = r
<1>1. \A s \in StoredIn(R, t) : s = r
  BY DEF StoredIn, Unique
<1>2. (CHOOSE s \in StoredIn(R, t) : TRUE) \in StoredIn(R, t)
  OBVIOUS
<1> QED
  BY <1>1, <1>2

LEMMA TextIs ==
  ASSUME NEW t
  PROVE  TextOf("transit", t) = IF StoredIn(txRows, t) = {} THEN "filler"
                                ELSE (CHOOSE s \in StoredIn(txRows, t) : TRUE).text
BY DEF TextOf, Stored, StoredIn

(* The text of a row stays what it is. *)
TextsKept ==
  \A r \in txRows : r.tab = "transit" /\ r.ver = "current" =>
     \E s \in txRows' : s.tab = r.tab /\ s.ver = r.ver /\ s.t = r.t /\ s.text = r.text

LEMMA PagesStayGood ==
  ASSUME RowsInv, RowsInv', TextsKept, NEW page, GoodPage(page)
  PROVE  GoodPage(page)'
<1> SUFFICES ASSUME page.long, NEW t \in DOMAIN page.texts
             PROVE  Stored("transit", {t})' # {} /\ page.texts[t] = TextOf("transit", t)'
  BY DEF GoodPage
<1>1. StoredIn(txRows, t) # {} /\ page.texts[t] = TextOf("transit", t)
  BY DEF GoodPage, Stored, StoredIn
<1>2. PICK r \in StoredIn(txRows, t) : TRUE
  BY <1>1
<1>3. page.texts[t] = r.text
  BY <1>1, <1>2, OnlyRow, TextIs DEF RowsInv
<1>4. PICK s \in StoredIn(txRows', t) : s.text = r.text
  BY <1>2 DEF TextsKept, StoredIn
<1>5. (CHOOSE u \in StoredIn(txRows', t) : TRUE) = s
  BY <1>4, OnlyRow DEF RowsInv
<1>6. TextOf("transit", t)' = s.text /\ Stored("transit", {t})' # {}
  BY <1>4, <1>5 DEF TextOf, Stored, StoredIn
<1> QED
  BY <1>3, <1>4, <1>6

LEMMA SameRows == ASSUME RowsInv, txRows' = txRows PROVE RowsInv' /\ TextsKept
BY DEF RowsInv, TextsKept

(* A commit of new texts adds rows for keys that had none. *)
LEMMA InsertedRows ==
  ASSUME RowsInv, NEW tab \in {"transit", "synastry", "pair"},
         NEW keys \in SUBSET (Transits \cup Opened \cup PairAspects \cup {PairKey}),
         InsertAll(tab, keys, "sound")
  PROVE  RowsInv' /\ TextsKept
<1>1. CASE txRows' = txRows
  BY <1>1, SameRows
<1>2. CASE txRows' # txRows
  <2> DEFINE new == {TextRow(tab, t, "current", "sound", {}) : t \in keys}
  <2>1. txRows' = txRows \cup new /\ Lacking(tab, keys) = keys
    BY <1>2 DEF InsertAll
  <2>2. new \subseteq TxRow
    BY DEF TextRow, TxRow
  <2>3. \A r \in new : r.tab = tab /\ r.ver = "current" /\ r.t \in keys
    BY DEF TextRow
  <2>4. \A r, s \in new : r.t = s.t => r = s
    BY DEF TextRow
  <2> HIDE DEF new
  <2>5. \A r \in txRows, s \in new : ~(r.tab = s.tab /\ r.t = s.t /\ r.ver = s.ver)
    BY <2>1, <2>3 DEF Lacking, Stored
  <2>6. Unique(txRows')
    BY <2>1, <2>3, <2>4, <2>5 DEF RowsInv, Unique
  <2> QED
    BY <2>1, <2>2, <2>6 DEF RowsInv, TextsKept
<1> QED
  BY <1>1, <1>2

(* Advice is added to the row it belongs to, or to a new one of the old version. *)
LEMMA AdvisedRows ==
  ASSUME RowsInv, AsksInv, NEW h \in TxHandlers, StoreAdvice(h)
  PROVE  RowsInv' /\ TextsKept
<1> DEFINE t == txReq[h].key
           seen == txReq[h].want
           mine == Stored("transit", {t})
           other == {r \in txRows : r.tab = "transit" /\ r.t = t /\ r.ver = "legacy"}
<1>1. t \in Opened
  BY DEF StoreAdvice, AsksInv
<1>2. PICK new \in NewAdvice :
          IF seen # {}
          THEN txRows' = (txRows \ mine) \cup
                 {[r EXCEPT !.advice = new \cup UNION {s.advice : s \in seen}] : r \in mine}
          ELSE txRows' = IF other # {} THEN txRows
                         ELSE txRows \cup {TextRow("transit", t, "legacy", "filler", new)}
  BY DEF StoreAdvice
<1>3. new \subseteq AdviceBlocks
  BY DEF NewAdvice
<1>4. CASE seen # {}
  <2> DEFINE all == new \cup UNION {s.advice : s \in seen}
             upd == {[r EXCEPT !.advice = all] : r \in mine}
  <2>1. txRows' = (txRows \ mine) \cup upd
    BY <1>2, <1>4
  <2>2. \A s \in seen : s.advice \subseteq AdviceBlocks
    BY DEF StoreAdvice, AsksInv, TxRow
  <2>3. all \subseteq AdviceBlocks
    BY <1>3, <2>2
  <2> HIDE DEF all, seen
  <2>4. \A r \in mine : r \in txRows /\ r \in TxRow /\ r.tab = "transit" /\ r.t = t /\ r.ver = "current"
    BY DEF Stored, RowsInv
  <2>5. \A r \in upd : /\ r \in TxRow
                      /\ \E s \in mine : r = [s EXCEPT !.advice = all]
    BY <2>3, <2>4 DEF TxRow
  <2>6. \A r, s \in mine : r = s
    BY <2>4 DEF RowsInv, Unique
  <2>7. \A r \in upd : r.tab = "transit" /\ r.t = t /\ r.ver = "current"
    BY <2>4 DEF TxRow
  <2>8. \A r \in txRows \ mine : ~(r.tab = "transit" /\ r.t = t /\ r.ver = "current")
    BY DEF Stored
  <2>9. \A r, s \in upd : r = s
    BY <2>6
  <2>10. \A r \in mine : \E s \in upd : s.tab = r.tab /\ s.ver = r.ver /\ s.t = r.t /\ s.text = r.text
    <3> SUFFICES ASSUME NEW r \in mine
                 PROVE  \E s \in upd : s.tab = r.tab /\ s.ver = r.ver /\ s.t = r.t /\ s.text = r.text
      OBVIOUS
    <3> DEFINE s == [r EXCEPT !.advice = all]
    <3>1. s \in upd
      OBVIOUS
    <3>2. s.tab = r.tab /\ s.ver = r.ver /\ s.t = r.t /\ s.text = r.text
      BY <2>4 DEF TxRow
    <3> QED
      BY <3>1, <3>2
  <2> HIDE DEF upd, mine
  <2>11. RowsInv'
    BY <2>1, <2>5, <2>7, <2>8, <2>9 DEF RowsInv, Unique
  <2> QED
    BY <2>1, <2>10, <2>11 DEF TextsKept
<1>5. CASE seen = {}
  <2> HIDE DEF seen
  <2>1. CASE other # {}
    <3>1. txRows' = txRows
      BY <1>2, <1>5, <2>1
    <3> QED
      BY <3>1, SameRows
  <2>2. CASE other = {}
    <3> DEFINE row1 == TextRow("transit", t, "legacy", "filler", new)
    <3>1. txRows' = txRows \cup {row1}
      BY <1>2, <1>5, <2>2
    <3>2. row1 \in TxRow /\ row1.tab = "transit" /\ row1.t = t /\ row1.ver = "legacy"
      BY <1>1, <1>3 DEF TextRow, TxRow
    <3> HIDE DEF row1
    <3>3. \A r \in txRows : ~(r.tab = row1.tab /\ r.t = row1.t /\ r.ver = row1.ver)
      BY <2>2, <3>2
    <3> QED
      BY <3>1, <3>2, <3>3 DEF RowsInv, Unique, TextsKept
  <2> QED
    BY <2>1, <2>2
<1> QED
  BY <1>4, <1>5

LEMMA TxInvInit == TxInit => TxInv
<1> SUFFICES ASSUME TxInit PROVE TxInv
  OBVIOUS
<1>1. RowsInv
  BY DEF TxInit, RowsInv, Unique
<1>2. CachesInv
  BY NoPageType DEF TxInit, CachesInv
<1>3. AsksInv
  <2>1. NoAsk.at = "rest" /\ NoAsk.service = ""
    BY DEF NoAsk
  <2> QED
    BY AtRest, <2>1 DEF TxInit, AsksInv
<1>4. TasksInv
  BY AtRest DEF TxInit, TasksInv, NoFill
<1>5. PagesInv
  BY AtRest, NoPageType DEF TxInit, PagesInv, GoodPage
<1> QED
  BY <1>1, <1>2, <1>3, <1>4, <1>5 DEF TxInv

(* A request that moves on by itself, over rows whose texts stay. *)
GoodAsk(q) ==
  /\ q.at = "store" /\ q.service # "horoscope" => q.got = "sound"
  /\ q.service = "aspects" => q.want \subseteq PairAspects
  /\ q.service = "advice" => q.key \in Opened /\ q.want \subseteq TxRow
  /\ q.at \in {"ask", "store"} => q.service # "page"

LEMMA NoAskIsGood == GoodAsk(NoAsk)
BY DEF NoAsk, GoodAsk

LEMMA OneAsk ==
  ASSUME TxInv, RowsInv', TextsKept, NEW h \in TxHandlers, NEW q \in TxRequest, GoodAsk(q), GoodPage(q.page),
         txReq' = [txReq EXCEPT ![h] = q]
  PROVE  AsksInv' /\ \A k \in TxHandlers : GoodPage(txReq[k].page)'
<1>1. AsksInv'
  BY DEF TxInv, AsksInv, GoodAsk
<1>2. ASSUME NEW k \in TxHandlers PROVE GoodPage(txReq[k].page)'
  <2> DEFINE page == txReq'[k].page
  <2>1. page = q.page \/ page = txReq[k].page
    BY DEF TxInv, AsksInv
  <2>2. GoodPage(page)
    BY <2>1 DEF TxInv, PagesInv
  <2> QED
    BY <2>2, PagesStayGood DEF TxInv, GoodPage
<1> QED
  BY <1>1, <1>2

LEMMA SameAsks ==
  ASSUME TxInv, RowsInv', TextsKept, txReq' = txReq
  PROVE  AsksInv' /\ \A k \in TxHandlers : GoodPage(txReq[k].page)'
<1>1. AsksInv'
  BY DEF TxInv, AsksInv
<1>2. ASSUME NEW k \in TxHandlers PROVE GoodPage(txReq[k].page)'
  <2> DEFINE page == txReq[k].page
  <2>1. txReq'[k].page = page /\ GoodPage(page)
    BY DEF TxInv, PagesInv
  <2> QED
    BY <2>1, PagesStayGood DEF TxInv, GoodPage
<1> QED
  BY <1>1, <1>2

LEMMA SamePages ==
  ASSUME TxInv, RowsInv', TextsKept, txPages' = txPages
  PROVE  \A p \in Pages : GoodPage(txPages[p])'
<1> SUFFICES ASSUME NEW p \in Pages PROVE GoodPage(txPages[p])'
  OBVIOUS
<1> DEFINE page == txPages[p]
<1>1. txPages'[p] = page /\ GoodPage(page)
  BY DEF TxInv, PagesInv
<1> QED
  BY <1>1, PagesStayGood DEF TxInv, GoodPage

(* One cached page is replaced by another good one. *)
LEMMA OneCached ==
  ASSUME TxInv, txRows' = txRows, NEW k, NEW page \in TxPage, GoodPage(page),
         txPages' = [txPages EXCEPT ![k] = page]
  PROVE  txPages' \in [Pages -> TxPage] /\ \A p \in Pages : GoodPage(txPages[p])'
<1>1. txPages' \in [Pages -> TxPage]
  BY DEF TxInv, CachesInv
<1>2. \A p \in Pages : txPages'[p] = page \/ txPages'[p] = txPages[p]
  BY DEF TxInv, CachesInv
<1>3. ASSUME NEW p \in Pages PROVE GoodPage(txPages[p])'
  <2> DEFINE kept == txPages'[p]
  <2>1. GoodPage(kept)
    BY <1>2 DEF TxInv, PagesInv
  <2> QED
    BY <2>1, SameRows, PagesStayGood DEF TxInv, GoodPage
<1> QED
  BY <1>1, <1>3

LEMMA OneTaskMoves ==
  ASSUME TxInv, NEW h \in TxHandlers, NEW q \in TxTask, q.at = "store" <=> q.got = "sound",
         txTask' = [txTask EXCEPT ![h] = q]
  PROVE  TasksInv'
BY DEF TxInv, TasksInv

LEMMA TaskEnds ==
  ASSUME TxInv, NEW h \in TxHandlers, txTask' = [txTask EXCEPT ![h] = NoFill]
  PROVE  TasksInv'
BY AtRest, OneTaskMoves DEF NoFill

LEMMA Concluded ==
  ASSUME TxInv, RowsInv', TextsKept, NEW h \in TxHandlers, Conclude(h)
  PROVE  AsksInv' /\ \A k \in TxHandlers : GoodPage(txReq[k].page)'
BY AtRest, NoAskIsGood, OneAsk DEF Conclude, GoodPage

(* A page as it is built shows what the table has. *)
LEMMA BuiltPage ==
  ASSUME RowsInv, NEW want \in SUBSET Transits
  PROVE  /\ PageOf(want, Lacking("transit", want) = {}) \in TxPage
         /\ GoodPage(PageOf(want, Lacking("transit", want) = {}))
<1> DEFINE lack == Lacking("transit", want)
           page == PageOf(want, lack = {})
<1>1. \A t \in want : TextOf("transit", t) \in {"sound", "filler"}
  BY DEF TextOf, Stored, RowsInv, TxRow
<1>2. page.texts \in [want -> {"sound", "filler"}]
  BY <1>1 DEF PageOf, PageTexts
<1>3. page \in TxPage
  BY <1>2 DEF PageOf, TxPage
<1>4. ASSUME lack = {}, NEW t \in want PROVE Stored("transit", {t}) # {}
  BY <1>4 DEF Lacking, Stored
<1>5. GoodPage(page)
  BY <1>4 DEF GoodPage, PageOf, PageTexts
<1> QED
  BY <1>3, <1>5

LEMMA TxInvStep == TxInv /\ [TxNext]_txVars => TxInv'
<1> SUFFICES ASSUME TxInv, [TxNext]_txVars PROVE TxInv'
  OBVIOUS
<1>1. RowsInv /\ CachesInv /\ AsksInv /\ TasksInv
  BY DEF TxInv
<1>2. txRows' = txRows => RowsInv' /\ TextsKept
  BY <1>1, SameRows
(* A step of one request that touches no row and no cache. *)
<1>3. ASSUME NEW h \in TxHandlers, NEW q \in TxRequest, GoodAsk(q), ~q.page.long,
             txReq' = [txReq EXCEPT ![h] = q],
             UNCHANGED <<txRows, txPages, txHoros, txTarot, txTask, txChart, txGender>>
      PROVE  TxInv'
  <2>1. GoodPage(q.page)
    BY <1>3 DEF GoodPage
  <2>2. AsksInv' /\ \A k \in TxHandlers : GoodPage(txReq[k].page)'
    BY <1>2, <1>3, <2>1, OneAsk
  <2> QED
    BY <1>1, <1>2, <1>3, <2>2, SamePages DEF TxInv, CachesInv, TasksInv, PagesInv
<1>4. ASSUME NEW h \in TxHandlers, Conclude(h),
             UNCHANGED <<txRows, txPages, txHoros, txTarot, txTask, txChart, txGender>>
      PROVE  TxInv'
  BY <1>3, <1>4, AtRest, NoAskIsGood DEF Conclude
(* A commit of rows by a request that then ends. *)
<1>5. ASSUME NEW h \in TxHandlers, Conclude(h), RowsInv', TextsKept,
             UNCHANGED <<txPages, txHoros, txTarot, txTask, txChart, txGender>>
      PROVE  TxInv'
  BY <1>1, <1>5, Concluded, SamePages DEF TxInv, CachesInv, TasksInv, PagesInv
(* A task that moves on, alone. *)
<1>6. ASSUME RowsInv', TextsKept, TasksInv',
             UNCHANGED <<txPages, txHoros, txTarot, txReq, txChart, txGender>>
      PROVE  TxInv'
  BY <1>1, <1>6, SameAsks, SamePages DEF TxInv, CachesInv, PagesInv
<1>7. ASSUME NEW h \in TxHandlers, NEW p \in Pages, OpenPage(h, p)
      PROVE  TxInv'
  <2> DEFINE want == PageAspects[p][txChart]
             lack == Lacking("transit", want)
             page == PageOf(want, lack = {})
             q == [NoAsk EXCEPT !.at = "answer", !.service = "page", !.key = p, !.page = page]
             task == IF lack = {} THEN NoFill
                     ELSE [at |-> "ask", key |-> p, want |-> lack, got |-> "none"]
  <2>1. want \subseteq Transits /\ lack \subseteq Transits
    BY <1>1 DEF CachesInv, Transits, Lacking
  <2>2. page \in TxPage /\ GoodPage(page)
    BY <1>1, <2>1, BuiltPage
  <2>3. txReq' = [txReq EXCEPT ![h] = q] /\ txTask' = [txTask EXCEPT ![h] = task]
    BY <1>7 DEF OpenPage, Engage
  <2>4. task \in TxTask /\ (task.at = "store" <=> task.got = "sound")
    BY <2>1, AtRest DEF NoFill, TxTask
  <2> HIDE DEF page, task, lack
  <2>5. q \in TxRequest /\ GoodAsk(q) /\ q.page = page
    BY <2>2 DEF NoAsk, TxRequest, GoodAsk
  <2> HIDE DEF q
  <2>6. TasksInv'
    BY <2>3, <2>4, OneTaskMoves
  <2>7. AsksInv' /\ \A k \in TxHandlers : GoodPage(txReq[k].page)'
    BY <1>2, <1>7, <2>2, <2>3, <2>5, OneAsk DEF OpenPage
  <2> QED
    BY <1>1, <1>2, <1>7, <2>6, <2>7, SamePages DEF OpenPage, TxInv, CachesInv, PagesInv
<1>8. ASSUME NEW h \in TxHandlers, AnswerPage(h)
      PROVE  TxInv'
  <2>1. txReq[h].page \in TxPage /\ GoodPage(txReq[h].page)
    BY <1>1 DEF AsksInv, TxRequest, TxInv, PagesInv
  <2>2. txPages' \in [Pages -> TxPage] /\ \A p \in Pages : GoodPage(txPages[p])'
    BY <1>8, <2>1, OneCached DEF AnswerPage
  <2> QED
    BY <1>1, <1>2, <1>8, <2>2, Concluded DEF AnswerPage, TxInv, CachesInv, TasksInv, PagesInv
<1>9. ASSUME NEW h \in TxHandlers, TaskAsk(h)
      PROVE  TxInv'
  <2>1. PICK a \in Answers("batch"), some \in SUBSET txTask[h].want :
          txTask' = [txTask EXCEPT ![h].at = IF a = "none" THEN "drop" ELSE "store",
                                   ![h].want = some, ![h].got = a]
    BY <1>9 DEF TaskAsk
  <2>2. a \in {"none", "sound"}
    BY AnswersAreSound
  <2> DEFINE q == [txTask[h] EXCEPT !.at = IF a = "none" THEN "drop" ELSE "store", !.want = some, !.got = a]
  <2>3. q \in TxTask /\ (q.at = "store" <=> q.got = "sound")
    BY <1>1, <2>2 DEF TasksInv, TxTask
  <2>4. txTask' = [txTask EXCEPT ![h] = q]
    BY <1>1, <2>1 DEF TasksInv, TxTask
  <2> HIDE DEF q
  <2> QED
    BY <1>2, <1>6, <1>9, <2>3, <2>4, OneTaskMoves DEF TaskAsk
<1>10. ASSUME NEW h \in TxHandlers, TaskStore(h)
       PROVE  TxInv'
  <2>1. txTask[h].got = "sound" /\ txTask[h].want \subseteq Transits
    BY <1>1, <1>10 DEF TaskStore, TasksInv, TxTask
  <2>2. InsertAll("transit", txTask[h].want, "sound")
    BY <1>10, <2>1 DEF TaskStore, InsertAll
  <2>3. RowsInv' /\ TextsKept
    BY <1>1, <2>1, <2>2, InsertedRows
  <2> DEFINE q == [txTask[h] EXCEPT !.at = "drop", !.got = "none"]
  <2>4. q \in TxTask /\ (q.at = "store" <=> q.got = "sound")
    BY <1>1 DEF TasksInv, TxTask
  <2>5. txTask' = [txTask EXCEPT ![h] = q]
    BY <1>1, <1>10 DEF TaskStore, TasksInv, TxTask
  <2> HIDE DEF q
  <2> QED
    BY <1>6, <1>10, <2>3, <2>4, <2>5, OneTaskMoves DEF TaskStore
<1>11. ASSUME NEW h \in TxHandlers, TaskDrop(h)
       PROVE  TxInv'
  <2>1. txPages' \in [Pages -> TxPage] /\ \A p \in Pages : GoodPage(txPages[p])'
    BY <1>11, NoPageType, OneCached DEF TaskDrop, GoodPage
  <2> QED
    BY <1>1, <1>2, <1>11, <2>1, SameAsks, TaskEnds DEF TaskDrop, TxInv, CachesInv, PagesInv
<1>12. ASSUME NEW h \in TxHandlers, TaskDies(h)
       PROVE  TxInv'
  BY <1>1, <1>2, <1>12, Concluded, TaskEnds, SamePages DEF TaskDies, TxInv, CachesInv, PagesInv
<1>13. ASSUME NEW h \in TxHandlers, NEW t \in Opened, Details(h, t)
       PROVE  TxInv'
  <2> DEFINE mine == Stored("transit", {t})
             q == [NoAsk EXCEPT !.at = "ask", !.service = "advice", !.key = t, !.want = mine]
  <2>1. mine \subseteq TxRow
    BY <1>1 DEF RowsInv, Stored
  <2> HIDE DEF mine
  <2>2. q \in TxRequest /\ GoodAsk(q) /\ ~q.page.long
    BY <2>1, NoPageType DEF NoAsk, TxRequest, GoodAsk
  <2>3. txReq' = [txReq EXCEPT ![h] = q]
    BY <1>13 DEF Details, Engage, mine
  <2> HIDE DEF q
  <2> QED
    BY <1>3, <1>13, <2>2, <2>3 DEF Details
<1>14. ASSUME NEW h \in TxHandlers, StoreAdvice(h)
       PROVE  TxInv'
  <2>1. RowsInv' /\ TextsKept
    BY <1>1, <1>14, AdvisedRows
  <2> QED
    BY <1>5, <1>14, <2>1 DEF StoreAdvice
<1>15. ASSUME NEW h \in TxHandlers, Compare(h)
       PROVE  TxInv'
  <2> DEFINE lack == Lacking("synastry", PairAspects)
             q == [NoAsk EXCEPT !.at = IF lack = {} THEN "pair" ELSE "ask",
                                !.service = "aspects", !.want = lack]
  <2>1. lack \subseteq PairAspects
    BY DEF Lacking
  <2>2. txReq' = [txReq EXCEPT ![h] = q]
    BY <1>15 DEF Compare, Engage
  <2> HIDE DEF lack
  <2>3. q \in TxRequest /\ GoodAsk(q) /\ ~q.page.long
    BY <2>1, NoPageType DEF NoAsk, TxRequest, GoodAsk
  <2> HIDE DEF q
  <2> QED
    BY <1>3, <1>15, <2>2, <2>3 DEF Compare
<1>16. ASSUME NEW h \in TxHandlers, StoreAspects(h)
       PROVE  TxInv'
  <2>1. txReq[h].got = "sound" /\ txReq[h].want \subseteq PairAspects
    BY <1>1, <1>16 DEF StoreAspects, AsksInv
  <2>2. InsertAll("synastry", txReq[h].want, "sound")
    BY <1>16, <2>1 DEF StoreAspects, InsertAll
  <2>3. RowsInv' /\ TextsKept
    BY <1>1, <2>1, <2>2, InsertedRows
  <2>4. CASE Conclude(h)
    BY <1>5, <1>16, <2>3, <2>4 DEF StoreAspects
  <2>5. CASE Proceed(h, "pair")
    <3> DEFINE q == [txReq[h] EXCEPT !.at = "pair"]
    <3>1. q \in TxRequest /\ GoodAsk(q) /\ GoodPage(q.page)
      BY <1>1 DEF AsksInv, TxRequest, GoodAsk, TxInv, PagesInv
    <3>2. txReq' = [txReq EXCEPT ![h] = q]
      BY <1>1, <2>5 DEF Proceed, AsksInv, TxRequest
    <3> HIDE DEF q
    <3>3. AsksInv' /\ \A k \in TxHandlers : GoodPage(txReq[k].page)'
      BY <2>3, <3>1, <3>2, OneAsk
    <3> QED
      BY <1>1, <1>16, <2>3, <3>3, SamePages DEF StoreAspects, TxInv, CachesInv, TasksInv, PagesInv
  <2> QED
    BY <1>16, <2>4, <2>5 DEF StoreAspects
<1>17. ASSUME NEW h \in TxHandlers, PairPortrait(h)
       PROVE  TxInv'
  <2> DEFINE q == [NoAsk EXCEPT !.at = "ask", !.service = "pair"]
  <2>1. q \in TxRequest /\ GoodAsk(q) /\ ~q.page.long
    BY NoPageType DEF NoAsk, TxRequest, GoodAsk
  <2>2. CASE Stored("pair", {PairKey}) # {}
    BY <1>4, <1>17, <2>2 DEF PairPortrait, Conclude
  <2>3. CASE Stored("pair", {PairKey}) = {}
    <3>1. txReq' = [txReq EXCEPT ![h] = q]
      BY <1>17, <2>3 DEF PairPortrait
    <3> HIDE DEF q
    <3> QED
      BY <1>3, <1>17, <2>1, <3>1 DEF PairPortrait
  <2> QED
    BY <2>2, <2>3
<1>18. ASSUME NEW h \in TxHandlers, StorePair(h)
       PROVE  TxInv'
  <2>1. txReq[h].got = "sound"
    BY <1>1, <1>18 DEF StorePair, AsksInv
  <2>2. InsertAll("pair", {PairKey}, "sound")
    BY <1>18, <2>1 DEF StorePair, InsertAll
  <2>3. RowsInv' /\ TextsKept
    BY <1>1, <2>2, InsertedRows
  <2> QED
    BY <1>5, <1>18, <2>3 DEF StorePair
<1>19. ASSUME NEW h \in TxHandlers, NEW k \in {"sign", "own"}, OpenHoroscope(h, k) \/ NightlyHoroscope(h)
       PROVE  TxInv'
  <2> DEFINE q(key) == [NoAsk EXCEPT !.at = "ask", !.service = "horoscope", !.key = key]
  <2>1. \A key \in {"sign", "own"} : q(key) \in TxRequest /\ GoodAsk(q(key)) /\ ~q(key).page.long
    BY NoPageType DEF NoAsk, TxRequest, GoodAsk
  <2>2. \E key \in {"sign", "own"} : txReq' = [txReq EXCEPT ![h] = q(key)]
    BY <1>19 DEF OpenHoroscope, NightlyHoroscope, Engage
  <2> HIDE DEF q
  <2> QED
    BY <1>3, <1>19, <2>1, <2>2 DEF OpenHoroscope, NightlyHoroscope
<1>20. ASSUME NEW h \in TxHandlers, StoreHoroscope(h)
       PROVE  TxInv'
  <2>1. txReq[h].got \in {"none", "sound"}
    BY <1>1 DEF AsksInv, TxRequest
  <2>2. txHoros' \in [{"sign", "own"} -> {"none", "sound", "generic"}]
    BY <1>1, <1>20, <2>1 DEF StoreHoroscope, CachesInv
  <2> QED
    BY <1>1, <1>2, <1>20, <2>2, Concluded, SamePages
       DEF StoreHoroscope, TxInv, CachesInv, TasksInv, PagesInv
<1>21. ASSUME NEW h \in TxHandlers, Interpret(h)
       PROVE  TxInv'
  <2> DEFINE q == [NoAsk EXCEPT !.at = "ask", !.service = "tarot", !.gender = txGender]
  <2>1. q \in TxRequest /\ GoodAsk(q) /\ ~q.page.long
    BY <1>1, NoPageType DEF CachesInv, NoAsk, TxRequest, GoodAsk
  <2>2. txReq' = [txReq EXCEPT ![h] = q]
    BY <1>21 DEF Interpret, Engage
  <2> HIDE DEF q
  <2> QED
    BY <1>3, <1>21, <2>1, <2>2 DEF Interpret
<1>22. ASSUME NEW h \in TxHandlers, StoreNarrative(h)
       PROVE  TxInv'
  <2>1. txReq[h].got = "sound"
    BY <1>1, <1>22 DEF StoreNarrative, AsksInv
  <2>2. \A e \in txTarot' : e.text = "sound"
    BY <1>22, <2>1 DEF StoreNarrative
  <2> QED
    BY <1>1, <1>2, <1>22, <2>2, Concluded, SamePages
       DEF StoreNarrative, TxInv, CachesInv, TasksInv, PagesInv
<1>23. ASSUME NEW h \in TxHandlers, AskText(h)
       PROVE  TxInv'
  <2>1. PICK a \in Answers(txReq[h].service) :
          txReq' = [txReq EXCEPT ![h] =
            IF a # "none" \/ txReq[h].service = "horoscope"
            THEN [txReq[h] EXCEPT !.at = "store", !.got = a]
            ELSE IF txReq[h].service = "aspects" THEN [txReq[h] EXCEPT !.at = "pair"] ELSE NoAsk]
    BY <1>23 DEF AskText
  <2>2. a \in {"none", "sound"}
    BY AnswersAreSound
  <2> DEFINE q == IF a # "none" \/ txReq[h].service = "horoscope"
                  THEN [txReq[h] EXCEPT !.at = "store", !.got = a]
                  ELSE IF txReq[h].service = "aspects" THEN [txReq[h] EXCEPT !.at = "pair"] ELSE NoAsk
  <2>3. txReq[h] \in TxRequest /\ GoodAsk(txReq[h])
    BY <1>1 DEF AsksInv, GoodAsk
  <2>4. q \in TxRequest /\ GoodAsk(q)
    <3>1. CASE a # "none" \/ txReq[h].service = "horoscope"
      <4>1. q = [txReq[h] EXCEPT !.at = "store", !.got = a] /\ txReq[h].at = "ask"
        BY <1>23, <3>1 DEF AskText
      <4> HIDE DEF q
      <4> QED
        BY <2>2, <2>3, <3>1, <4>1 DEF TxRequest, GoodAsk
    <3>2. CASE ~(a # "none" \/ txReq[h].service = "horoscope") /\ txReq[h].service = "aspects"
      <4>1. q = [txReq[h] EXCEPT !.at = "pair"]
        BY <3>2
      <4> HIDE DEF q
      <4> QED
        BY <2>3, <4>1 DEF TxRequest, GoodAsk
    <3>3. CASE ~(a # "none" \/ txReq[h].service = "horoscope") /\ txReq[h].service # "aspects"
      <4>1. q = NoAsk
        BY <3>3
      <4> QED
        BY <4>1, AtRest, NoAskIsGood
    <3> QED
      BY <3>1, <3>2, <3>3
  <2>5. GoodPage(q.page)
    <3>1. q.page = txReq[h].page \/ q = NoAsk
      BY <2>3 DEF TxRequest
    <3> QED
      BY <3>1, AtRest DEF TxInv, PagesInv, GoodPage
  <2> HIDE DEF q
  <2>6. txReq' = [txReq EXCEPT ![h] = q]
    BY <2>1 DEF q
  <2>7. AsksInv' /\ \A k \in TxHandlers : GoodPage(txReq[k].page)'
    BY <1>2, <1>23, <2>4, <2>5, <2>6, OneAsk DEF AskText
  <2> QED
    BY <1>1, <1>2, <1>23, <2>7, SamePages DEF AskText, TxInv, CachesInv, TasksInv, PagesInv
<1>24. CASE EditChart \/ EditReader \/ ExpireText \/ UNCHANGED txVars
  <2>1. UNCHANGED <<txRows, txPages, txReq, txTask>>
    BY <1>24 DEF EditChart, EditReader, ExpireText, txVars
  <2>2. CachesInv'
    BY <1>1, <1>24 DEF EditChart, EditReader, ExpireText, txVars, CachesInv
  <2> QED
    BY <1>1, <1>2, <2>1, <2>2, SameAsks, SamePages DEF TxInv, TasksInv, PagesInv
<1>25. ASSUME NEW p \in Pages, ExpirePage(p)
       PROVE  TxInv'
  <2>1. txPages' \in [Pages -> TxPage] /\ \A k \in Pages : GoodPage(txPages[k])'
    BY <1>25, NoPageType, OneCached DEF ExpirePage, GoodPage
  <2> QED
    BY <1>1, <1>2, <1>25, <2>1, SameAsks DEF ExpirePage, TxInv, CachesInv, TasksInv, PagesInv
<1> QED
  BY <1>7, <1>8, <1>9, <1>10, <1>11, <1>12, <1>13, <1>14, <1>15, <1>16, <1>17, <1>18, <1>19,
     <1>20, <1>21, <1>22, <1>23, <1>24, <1>25 DEF TxNext, TransitsNext, PairNext, DailyNext

(* What is kept can be served again: no table and no cache holds an answer the
   validators rejected, and a page cached for hours shows for every aspect the
   text the table has, whatever tasks, collisions of commits, deaths and advice
   rows come between. *)
THEOREM KeptTextsHold == TxSpec => [](TxTypeOK /\ KeptTexts)
<1>1. TxInv => TxTypeOK
  BY DEF TxInv, RowsInv, TasksInv, TxTypeOK, TxRow, TxTask, Unique
<1>2. TxInv => KeptTexts
  <2> SUFFICES ASSUME TxInv PROVE KeptTexts
    OBVIOUS
  <2>1. \A r \in txRows : r.text # "rejected"
    BY DEF TxInv, RowsInv, TxRow
  <2>2. \A k \in DOMAIN txHoros : txHoros[k] # "rejected"
    BY DEF TxInv, CachesInv
  <2>3. \A e \in txTarot : e.text # "rejected"
    BY DEF TxInv, CachesInv
  <2> QED
    BY <2>1, <2>2, <2>3 DEF TxInv, PagesInv, GoodPage, KeptTexts
<1> QED
  BY TxInvInit, TxInvStep, <1>1, <1>2, PTL DEF TxSpec

-----------------------------------------------------------------------------
(* The reading.  The stored text speaks of the stored numbers because a
   writer who does not hold the reading started from new numbers, which no one
   takes back, and the holder replaces both. *)

(* Who is at work: only the holder may have found old numbers, or none. *)
WritersInv ==
  \A h \in MxHandlers :
    /\ holder = h => mreq[h].at = "llm"
    /\ mreq[h].at \in {"start", "llm"} /\ holder # h => numbers = "new"
    /\ mreq[h].at # "idle" => mreq[h].numbers = "new" /\ mreq[h].gender \in MxGenders
    /\ mreq[h].at = "waitnew" => numbers # "old"

(* Old numbers have at most the text they came with, which whoever replaces
   them has seen. *)
OldInv ==
  numbers = "old" /\ text # NoText =>
    \A h \in MxHandlers :
      /\ mreq[h].at = "wait" => mreq[h].saw = text
      /\ holder = h => mreq[h].drop

NumbersInv ==
  /\ MxTypeOK
  /\ WritersInv
  /\ OldInv
  /\ numbers = "none" => text = NoText
  /\ TextOfTheNumbers

LEMMA IdleType == MxIdle \in MxRequest /\ MxIdle.at = "idle" /\ NoText \in MxTexts
BY DEF MxIdle, MxRequest, MxTexts, NoText

THEOREM NumbersInit == MxInit => NumbersInv
<1> SUFFICES ASSUME MxInit PROVE NumbersInv
  OBVIOUS
<1>1. text \in MxTexts
  BY DEF MxInit, MxTexts
<1>2. MxTypeOK
  BY <1>1, IdleType, MatrixAssumption DEF MxInit, MxTypeOK
<1>3. WritersInv /\ OldInv
  BY MatrixAssumption DEF MxInit, WritersInv, OldInv, MxIdle
<1>4. (numbers = "none" => text = NoText) /\ TextOfTheNumbers
  BY DEF MxInit, TextOfTheNumbers, NoText
<1> QED BY <1>2, <1>3, <1>4 DEF NumbersInv

(* The end of a handler's work. *)
LEMMA Ends ==
  ASSUME MxTypeOK, NEW h \in MxHandlers, MxEnd(h)
  PROVE  /\ mreq' \in [MxHandlers -> MxRequest] /\ mreq'[h] = MxIdle
         /\ \A g \in MxHandlers \ {h} : mreq'[g] = mreq[g]
         /\ holder' \in MxHandlers \cup {NoOne} /\ holder' # h
         /\ \A g \in MxHandlers \ {h} : holder' = g <=> holder = g
BY IdleType, MatrixAssumption DEF MxTypeOK, MxEnd

LEMMA NumbersStep == NumbersInv /\ [MxNext]_mxVars => NumbersInv'
<1> SUFFICES ASSUME NumbersInv, [MxNext]_mxVars PROVE NumbersInv'
  OBVIOUS
<1> USE MatrixAssumption
<1>t. /\ MxTypeOK /\ WritersInv /\ OldInv /\ TextOfTheNumbers
      /\ numbers = "none" => text = NoText
      /\ gender \in MxGenders /\ numbers \in {"none", "old", "new"} /\ text \in MxTexts
      /\ holder \in MxHandlers \cup {NoOne} /\ mreq \in [MxHandlers -> MxRequest]
  BY DEF NumbersInv, MxTypeOK
<1>n. \A g, n, b : [gender |-> g, numbers |-> n, by |-> b].numbers = n
  OBVIOUS
<1>1. ASSUME Refreshed, holder = NoOne
      PROVE  /\ numbers' = "new"
             /\ text' \in MxTexts
             /\ text' # NoText => text'.numbers = "new"
             /\ \A h \in MxHandlers : mreq[h].at \in {"start", "llm"} => numbers = "new"
  <2>1. text' \in {NoText, text} /\ (text' = text /\ text # NoText => numbers = "new")
    BY <1>1, <1>t DEF Refreshed, Stale
  <2> QED BY <1>1, <2>1, <1>t, IdleType DEF Refreshed, TextOfTheNumbers, WritersInv
<1>2. ASSUME NEW h \in MxHandlers, Calculate(h)
      PROVE  NumbersInv'
  <2> DEFINE q == [kind |-> "pregen", at |-> "start", gender |-> gender,
                   numbers |-> "new", drop |-> FALSE, saw |-> NoText]
  <2>1. q \in MxRequest /\ q.at = "start" /\ q.numbers = "new" /\ q.gender = gender
    BY <1>t, IdleType DEF MxRequest
  <2>2. /\ mreq' = [mreq EXCEPT ![h] = q] /\ holder = NoOne /\ Refreshed
        /\ UNCHANGED <<gender, hasFull, looksOld, holder, mxEdits, mxFaults>>
    BY <1>2 DEF Calculate
  <2> HIDE DEF q
  <2>3. MxTypeOK'
    BY <2>1, <2>2, <1>1, <1>t DEF MxTypeOK
  <2>4. WritersInv'
    BY <2>1, <2>2, <1>1, <1>t DEF WritersInv
  <2> QED BY <2>2, <2>3, <2>4, <1>1 DEF NumbersInv, OldInv, TextOfTheNumbers
<1>3. CASE GetMe
  <2>1. MxTypeOK'
    BY <1>3, <1>1, <1>t DEF GetMe, MxTypeOK
  <2>2. WritersInv'
    BY <1>3, <1>1, <1>t DEF GetMe, WritersInv
  <2> QED BY <1>3, <2>1, <2>2, <1>1 DEF GetMe, NumbersInv, OldInv, TextOfTheNumbers
<1>4. ASSUME NEW h \in MxHandlers, PregenStart(h)
      PROVE  NumbersInv'
  <2> PICK d \in BOOLEAN : d = (text # NoText)
    OBVIOUS
  <2> DEFINE q == [mreq[h] EXCEPT !.at = "llm", !.drop = d]
  <2>1. /\ mreq[h].at = "start" /\ UNCHANGED <<gender, hasFull, looksOld, numbers, text, holder, mxEdits, mxFaults>>
        /\ mreq' = [mreq EXCEPT ![h] = MxIdle] \/ mreq' = [mreq EXCEPT ![h] = q]
    BY <1>4 DEF PregenStart
  <2>2. /\ numbers = "new" /\ holder # h /\ mreq[h].numbers = "new"
        /\ mreq[h].gender \in MxGenders
    BY <2>1, <1>t DEF WritersInv
  <2>3. /\ q \in MxRequest /\ q.at = "llm" /\ q.numbers = mreq[h].numbers
        /\ q.gender = mreq[h].gender
    <3>1. mreq[h] \in MxRequest
      BY <1>t
    <3> QED BY <3>1 DEF MxRequest
  <2> HIDE DEF q
  <2>4. /\ mreq' \in [MxHandlers -> MxRequest] /\ mreq'[h].at \in {"idle", "llm"}
        /\ mreq'[h].at # "idle" => mreq'[h].numbers = "new" /\ mreq'[h].gender \in MxGenders
        /\ \A g \in MxHandlers \ {h} : mreq'[g] = mreq[g]
    BY <2>1, <2>2, <2>3, <1>t, IdleType
  <2>5. MxTypeOK'
    BY <2>1, <2>4, <1>t DEF MxTypeOK
  <2>6. WritersInv'
    BY <2>1, <2>2, <2>4, <1>t DEF WritersInv
  <2> QED BY <2>1, <2>2, <2>5, <2>6, <1>t DEF NumbersInv, OldInv, TextOfTheNumbers
<1>5. ASSUME NEW h \in MxHandlers, NEW kind \in {"interp", "pdf"}, Ask(h, kind)
      PROVE  NumbersInv'
  <2> DEFINE writes == numbers = "none" \/ Stale
             sheds  == text # NoText
  <2>1. /\ UNCHANGED <<gender, hasFull, looksOld, numbers, text, mxEdits, mxFaults>>
        /\ mreq[h] = MxIdle
        /\ holder' = IF (writes \/ sheds) /\ holder = NoOne THEN h ELSE holder
        /\ mreq' = [mreq EXCEPT ![h] =
             IF (writes \/ sheds) /\ holder # NoOne
             THEN Busy(kind, IF numbers = "none" THEN "waitnew" ELSE "wait", FALSE)
             ELSE Busy(kind, "llm", sheds)]
    BY <1>5 DEF Ask
  <2>2. holder # h
    BY <2>1, <1>t, IdleType DEF WritersInv
  <2>3. ~writes => numbers = "new"
    BY <1>t DEF Stale
  <2>4. ASSUME NEW at \in {"wait", "waitnew", "llm"}, NEW d \in BOOLEAN
        PROVE  /\ Busy(kind, at, d) \in MxRequest
               /\ Busy(kind, at, d).at = at /\ Busy(kind, at, d).numbers = "new"
               /\ Busy(kind, at, d).drop = d /\ Busy(kind, at, d).saw = text
               /\ Busy(kind, at, d).gender = gender
    BY <1>t DEF Busy, MxRequest
  <2> PICK d \in BOOLEAN : d = sheds
    OBVIOUS
  <2> HIDE DEF writes, sheds
  <2>5. CASE (writes \/ sheds) /\ holder # NoOne
    <3> PICK at \in {"wait", "waitnew"} : at = IF numbers = "none" THEN "waitnew" ELSE "wait"
      OBVIOUS
    <3> DEFINE q == Busy(kind, at, FALSE)
    <3>1. /\ mreq' = [mreq EXCEPT ![h] = q] /\ holder' = holder
          /\ q \in MxRequest /\ q.at = at /\ q.numbers = "new" /\ q.saw = text
          /\ q.gender = gender
      BY <2>1, <2>4, <2>5
    <3> HIDE DEF q
    <3>2. /\ mreq' \in [MxHandlers -> MxRequest] /\ mreq'[h] = q
          /\ \A g \in MxHandlers \ {h} : mreq'[g] = mreq[g]
      BY <3>1, <1>t
    <3>3. MxTypeOK'
      BY <2>1, <3>1, <3>2, <1>t DEF MxTypeOK
    <3>4. WritersInv'
      BY <2>1, <2>2, <3>1, <3>2, <1>t DEF WritersInv
    <3>5. OldInv'
      BY <2>1, <2>2, <3>1, <3>2, <1>t DEF OldInv
    <3> QED BY <2>1, <3>3, <3>4, <3>5, <1>t DEF NumbersInv, TextOfTheNumbers
  <2>6. CASE ~((writes \/ sheds) /\ holder # NoOne)
    <3> DEFINE q == Busy(kind, "llm", d)
    <3>1. /\ mreq' = [mreq EXCEPT ![h] = q]
          /\ q \in MxRequest /\ q.at = "llm" /\ q.numbers = "new" /\ q.drop = d
          /\ q.gender = gender
      BY <2>1, <2>4, <2>6
    <3> HIDE DEF q
    <3>2. /\ mreq' \in [MxHandlers -> MxRequest] /\ mreq'[h] = q
          /\ \A g \in MxHandlers \ {h} : mreq'[g] = mreq[g]
      BY <3>1, <1>t
    <3>3. holder' = h \/ (holder' = holder /\ numbers = "new")
      BY <2>1, <2>3, <2>6
    <3>4. holder' = h => holder = NoOne
      BY <2>1, <2>2
    <3>5. MxTypeOK'
      BY <2>1, <3>1, <3>2, <1>t DEF MxTypeOK
    <3>6. WritersInv'
      BY <2>1, <2>2, <3>1, <3>2, <3>3, <3>4, <1>t DEF WritersInv
    <3>7. OldInv'
      BY <2>1, <2>2, <3>1, <3>2, <3>3, <3>4, <1>t DEF OldInv, sheds
    <3> QED BY <2>1, <3>5, <3>6, <3>7, <1>t DEF NumbersInv, TextOfTheNumbers
  <2> QED BY <2>5, <2>6
<1>6. ASSUME NEW h \in MxHandlers, Unblock(h)
      PROVE  NumbersInv'
  <2> PICK d \in BOOLEAN : d = (text # NoText /\ text = mreq[h].saw)
    OBVIOUS
  <2> DEFINE q == [mreq[h] EXCEPT !.at = "llm", !.drop = d]
  <2>1. /\ mreq[h].at \in {"wait", "waitnew"} /\ holder = NoOne
        /\ UNCHANGED <<gender, hasFull, looksOld, numbers, text, mxEdits, mxFaults>>
        /\ \/ mreq' = [mreq EXCEPT ![h] = MxIdle] /\ holder' = holder
           \/ mreq' = [mreq EXCEPT ![h] = q] /\ holder' = h
    BY <1>6 DEF Unblock
  <2>2. /\ q \in MxRequest /\ q.at = "llm" /\ q.numbers = mreq[h].numbers /\ q.drop = d
        /\ q.gender = mreq[h].gender
    <3>1. mreq[h] \in MxRequest
      BY <1>t
    <3> QED BY <3>1 DEF MxRequest
  <2>3. mreq[h].numbers = "new" /\ mreq[h].gender \in MxGenders
    BY <2>1, <1>t DEF WritersInv
  <2>4. numbers = "old" /\ text # NoText => d
    BY <2>1, <1>t DEF WritersInv, OldInv
  <2> HIDE DEF q
  <2>5. CASE mreq' = [mreq EXCEPT ![h] = MxIdle] /\ holder' = holder
    <3>1. /\ mreq' \in [MxHandlers -> MxRequest] /\ mreq'[h].at = "idle"
          /\ \A g \in MxHandlers \ {h} : mreq'[g] = mreq[g]
      BY <2>5, <1>t, IdleType
    <3>2. MxTypeOK'
      BY <2>1, <2>5, <3>1, <1>t DEF MxTypeOK
    <3>3. WritersInv' /\ OldInv'
      BY <2>1, <2>5, <3>1, <1>t DEF WritersInv, OldInv
    <3> QED BY <2>1, <3>2, <3>3, <1>t DEF NumbersInv, TextOfTheNumbers
  <2>6. CASE mreq' = [mreq EXCEPT ![h] = q] /\ holder' = h
    <3>1. /\ mreq' \in [MxHandlers -> MxRequest] /\ mreq'[h] = q
          /\ \A g \in MxHandlers \ {h} : mreq'[g] = mreq[g]
      BY <2>2, <2>6, <1>t
    <3>2. MxTypeOK'
      BY <2>1, <2>6, <3>1, <1>t DEF MxTypeOK
    <3>3. WritersInv'
      BY <2>1, <2>2, <2>3, <2>6, <3>1, <1>t DEF WritersInv
    <3>4. OldInv'
      BY <2>1, <2>2, <2>4, <2>6, <3>1, <1>t DEF OldInv
    <3> QED BY <2>1, <3>2, <3>3, <3>4, <1>t DEF NumbersInv, TextOfTheNumbers
  <2> QED BY <2>1, <2>5, <2>6
<1>7. ASSUME NEW h \in MxHandlers, Fallback(h)
      PROVE  NumbersInv'
  <2>1. /\ mreq[h].at = "llm" /\ MxEnd(h)
        /\ UNCHANGED <<gender, hasFull, looksOld, mxEdits, mxFaults>>
        /\ numbers' = (IF holder = h THEN "new" ELSE numbers)
        /\ text' = (IF holder = h /\ mreq[h].drop THEN NoText ELSE text)
    BY <1>7 DEF Fallback
  <2>2. /\ mreq' \in [MxHandlers -> MxRequest] /\ mreq'[h] = MxIdle
        /\ \A g \in MxHandlers \ {h} : mreq'[g] = mreq[g]
        /\ holder' \in MxHandlers \cup {NoOne} /\ holder' # h
        /\ \A g \in MxHandlers \ {h} : holder' = g <=> holder = g
    BY <2>1, <1>t, Ends
  <2>3. numbers' = "new"
    BY <2>1, <1>t DEF WritersInv
  <2>4. text' \in MxTexts /\ (text' # NoText => text' = text)
    BY <2>1, <1>t, IdleType
  <2>5. text' # NoText => text'.numbers = "new"
    BY <2>1, <2>4, <1>t DEF OldInv, TextOfTheNumbers, WritersInv
  <2>6. MxTypeOK'
    BY <2>1, <2>2, <2>3, <2>4, <1>t DEF MxTypeOK
  <2>7. WritersInv'
    BY <2>2, <2>3, <1>t, IdleType DEF WritersInv
  <2> QED BY <2>3, <2>5, <2>6, <2>7 DEF NumbersInv, OldInv, TextOfTheNumbers
<1>8. ASSUME NEW h \in MxHandlers, StoreText(h)
      PROVE  NumbersInv'
  <2> DEFINE free == text = NoText \/ mreq[h].drop
             mine == [gender |-> mreq[h].gender, numbers |-> mreq[h].numbers, by |-> h]
  <2>1. /\ mreq[h].at = "llm" /\ MxEnd(h)
        /\ UNCHANGED <<gender, hasFull, looksOld, mxEdits, mxFaults>>
        /\ text' = IF free THEN mine ELSE text
        /\ numbers' = IF free /\ holder = h THEN "new" ELSE numbers
    BY <1>8 DEF StoreText
  <2>2. /\ mreq' \in [MxHandlers -> MxRequest] /\ mreq'[h] = MxIdle
        /\ \A g \in MxHandlers \ {h} : mreq'[g] = mreq[g]
        /\ holder' \in MxHandlers \cup {NoOne} /\ holder' # h
        /\ \A g \in MxHandlers \ {h} : holder' = g <=> holder = g
    BY <2>1, <1>t, Ends
  <2>3. /\ mreq[h].numbers = "new" /\ mreq[h] \in MxRequest
        /\ mreq[h].gender \in MxGenders
    BY <2>1, <1>t DEF WritersInv
  <2>4. mine.numbers = "new" /\ mine \in MxTexts
    BY <2>3 DEF MxTexts
  <2> HIDE DEF mine
  <2>5. numbers' = "new"
    BY <2>1, <1>t DEF WritersInv, OldInv
  <2>6. text' \in MxTexts /\ (text' # NoText => text'.numbers = "new")
    BY <2>1, <2>4, <2>5, <1>t DEF TextOfTheNumbers, WritersInv, OldInv
  <2>7. MxTypeOK'
    BY <2>1, <2>2, <2>5, <2>6, <1>t DEF MxTypeOK
  <2>8. WritersInv'
    BY <2>2, <2>5, <1>t, IdleType DEF WritersInv
  <2> QED BY <2>5, <2>6, <2>7, <2>8 DEF NumbersInv, OldInv, TextOfTheNumbers
<1>9. ASSUME NEW h \in MxHandlers, MxDies(h)
      PROVE  NumbersInv'
  <2>1. /\ MxEnd(h) /\ mxFaults < MaxMxFaults /\ mxFaults' = mxFaults + 1
        /\ UNCHANGED <<gender, hasFull, looksOld, numbers, text, mxEdits>>
    BY <1>9 DEF MxDies
  <2>2. /\ mreq' \in [MxHandlers -> MxRequest] /\ mreq'[h] = MxIdle
        /\ \A g \in MxHandlers \ {h} : mreq'[g] = mreq[g]
        /\ holder' \in MxHandlers \cup {NoOne} /\ holder' # h
        /\ \A g \in MxHandlers \ {h} : holder' = g <=> holder = g
    BY <2>1, <1>t, Ends
  <2>3. mxFaults' \in 0..MaxMxFaults
    BY <2>1, <1>t DEF MxTypeOK
  <2>4. MxTypeOK'
    BY <2>1, <2>2, <2>3, <1>t DEF MxTypeOK
  <2>5. WritersInv' /\ OldInv'
    BY <2>1, <2>2, <1>t, IdleType DEF WritersInv, OldInv
  <2> QED BY <2>1, <2>4, <2>5, <1>t DEF NumbersInv, TextOfTheNumbers
<1>10. ASSUME NEW g \in MxGenders, EditGender(g)
       PROVE  NumbersInv'
  <2>1. /\ gender' = g /\ mxEdits < MaxMxEdits /\ mxEdits' = mxEdits + 1
        /\ UNCHANGED <<hasFull, looksOld, numbers, text, holder, mreq, mxFaults>>
    BY <1>10 DEF EditGender
  <2>2. mxEdits' \in 0..MaxMxEdits
    BY <2>1, <1>t DEF MxTypeOK
  <2>3. MxTypeOK'
    BY <2>1, <2>2, <1>t DEF MxTypeOK
  <2>4. WritersInv' /\ OldInv'
    BY <2>1, <1>t DEF WritersInv, OldInv
  <2> QED BY <2>1, <2>3, <2>4, <1>t DEF NumbersInv, TextOfTheNumbers
<1>11. CASE UNCHANGED mxVars
  BY <1>11, <1>t DEF mxVars, NumbersInv, MxTypeOK, WritersInv, OldInv, TextOfTheNumbers
<1> QED BY <1>2, <1>3, <1>4, <1>5, <1>6, <1>7, <1>8, <1>9, <1>10, <1>11 DEF MxNext, MxStep

(* Every reachable state has the numbers' invariant. *)
THEOREM NumbersHold == MxSpec => []NumbersInv
<1> QED BY NumbersInit, NumbersStep, PTL DEF MxSpec

(* Every reachable state is typed, for any number of requests, genders and
   faults. *)
THEOREM NumbersTypeCorrect == MxSpec => []MxTypeOK
<1>1. NumbersInv => MxTypeOK
  BY DEF NumbersInv
<1> QED BY <1>1, NumbersHold, PTL

(* The stored text speaks of the numbers stored with it (models' "it was
   anchored to old numbers"), whichever requests and background tasks write
   at a time and whichever of them die. *)
THEOREM TextMatchesNumbers == MxSpec => []TextOfTheNumbers
<1>1. NumbersInv => TextOfTheNumbers
  BY DEF NumbersInv
<1> QED BY <1>1, NumbersHold, PTL

-----------------------------------------------------------------------------
(* While the gender stays what it was: every request works for it, a text of
   new numbers is of it, and (where the numbers do not look old) no one is
   about to drop such a text. *)
OnceInv ==
  mxEdits = 0 =>
    /\ \A h \in MxHandlers : mreq[h].at # "idle" => mreq[h].gender = gender
    /\ numbers = "new" /\ text # NoText => text.gender = gender
    /\ ~looksOld => \A h \in MxHandlers :
         /\ numbers = "new" /\ mreq[h].at = "llm" => ~mreq[h].drop
         /\ mreq[h].at \in {"wait", "waitnew"} => mreq[h].saw.numbers # "new"

THEOREM OnceInit == MxInit => OnceInv
BY DEF MxInit, OnceInv, MxIdle

LEMMA OnceStep == NumbersInv /\ OnceInv /\ [MxNext]_mxVars => OnceInv'
<1> SUFFICES ASSUME NumbersInv, OnceInv, [MxNext]_mxVars, mxEdits' = 0 PROVE OnceInv'
  BY DEF OnceInv
<1> USE MatrixAssumption
<1>t. /\ MxTypeOK /\ WritersInv /\ OldInv /\ TextOfTheNumbers
      /\ numbers = "none" => text = NoText
      /\ gender \in MxGenders /\ numbers \in {"none", "old", "new"} /\ text \in MxTexts
      /\ mreq \in [MxHandlers -> MxRequest] /\ mxEdits \in Nat
      /\ NoText.numbers = "none"
  BY DEF NumbersInv, MxTypeOK, NoText
<1>e. UNCHANGED <<gender, hasFull, looksOld>> /\ mxEdits = 0
  <2>1. CASE UNCHANGED mxVars
    BY <2>1 DEF mxVars
  <2>2. CASE MxNext
    <3>1. ASSUME NEW g \in MxGenders, EditGender(g) PROVE FALSE
      BY <3>1, <1>t DEF EditGender
    <3>2. ASSUME NEW h \in MxHandlers, NEW kind, Ask(h, kind)
          PROVE  UNCHANGED <<gender, hasFull, looksOld, mxEdits>>
      BY <3>2 DEF Ask
    <3>3. ASSUME NEW h \in MxHandlers, Calculate(h) \/ MxStep(h) \/ MxDies(h)
          PROVE  UNCHANGED <<gender, hasFull, looksOld, mxEdits>>
      BY <3>3 DEF Calculate, MxStep, PregenStart, Unblock, Fallback, StoreText, MxDies
    <3>4. GetMe => UNCHANGED <<gender, hasFull, looksOld, mxEdits>>
      BY DEF GetMe
    <3> QED BY <2>2, <3>1, <3>2, <3>3, <3>4 DEF MxNext
  <2> QED BY <2>1, <2>2
<1>o. /\ \A h \in MxHandlers : mreq[h].at # "idle" => mreq[h].gender = gender
      /\ numbers = "new" /\ text # NoText => text.gender = gender
      /\ ~looksOld => \A h \in MxHandlers :
           /\ numbers = "new" /\ mreq[h].at = "llm" => ~mreq[h].drop
           /\ mreq[h].at \in {"wait", "waitnew"} => mreq[h].saw.numbers # "new"
  BY <1>e DEF OnceInv
<1>1. ASSUME Refreshed, holder = NoOne
      PROVE  /\ numbers' = "new"
             /\ text' # NoText => text'.gender = gender
             /\ \A h \in MxHandlers : mreq[h].at = "llm" => numbers = "new"
  <2>1. text' = NoText \/ (text' = text /\ numbers = "new")
    BY <1>1, <1>t DEF Refreshed, Stale
  <2> QED BY <1>1, <2>1, <1>t, <1>o DEF Refreshed, WritersInv
<1>2. ASSUME NEW h \in MxHandlers, Calculate(h)
      PROVE  OnceInv'
  <2> DEFINE q == [kind |-> "pregen", at |-> "start", gender |-> gender,
                   numbers |-> "new", drop |-> FALSE, saw |-> NoText]
  <2>1. q.at = "start" /\ q.gender = gender
    OBVIOUS
  <2>2. /\ mreq' = [mreq EXCEPT ![h] = q] /\ holder = NoOne /\ Refreshed
    BY <1>2 DEF Calculate
  <2> HIDE DEF q
  <2> QED BY <2>1, <2>2, <1>1, <1>t, <1>o, <1>e DEF OnceInv
<1>3. CASE GetMe
  BY <1>3, <1>1, <1>t, <1>o, <1>e DEF GetMe, OnceInv
<1>4. ASSUME NEW h \in MxHandlers, PregenStart(h)
      PROVE  OnceInv'
  <2> PICK d \in BOOLEAN : d = (text # NoText)
    OBVIOUS
  <2> DEFINE q == [mreq[h] EXCEPT !.at = "llm", !.drop = d]
  <2>1. /\ mreq[h].at = "start" /\ UNCHANGED <<numbers, text>>
        /\ \/ mreq' = [mreq EXCEPT ![h] = MxIdle]
           \/ mreq' = [mreq EXCEPT ![h] = q] /\ text.gender # mreq[h].gender
    BY <1>4 DEF PregenStart
  <2>2. numbers = "new" /\ mreq[h].gender = gender
    BY <2>1, <1>t, <1>o DEF WritersInv, MxTypeOK
  <2>3. q.at = "llm" /\ q.gender = mreq[h].gender /\ q.drop = d
    <3>1. mreq[h] \in MxRequest
      BY <1>t
    <3> QED BY <3>1 DEF MxRequest
  <2> HIDE DEF q
  <2>4. CASE mreq' = [mreq EXCEPT ![h] = MxIdle]
    BY <2>1, <2>4, <1>t, <1>o, <1>e, IdleType DEF OnceInv
  <2>5. CASE mreq' = [mreq EXCEPT ![h] = q] /\ text.gender # mreq[h].gender
    <3>1. ~d
      BY <2>2, <2>5, <1>o
    <3> QED BY <2>1, <2>2, <2>3, <2>5, <3>1, <1>t, <1>o, <1>e DEF OnceInv
  <2> QED BY <2>1, <2>4, <2>5
<1>5. ASSUME NEW h \in MxHandlers, NEW kind \in {"interp", "pdf"}, Ask(h, kind)
      PROVE  OnceInv'
  <2> DEFINE writes == numbers = "none" \/ Stale
             sheds  == text # NoText
  <2>1. /\ UNCHANGED <<numbers, text>>
        /\ writes \/ text.gender # gender
        /\ mreq' = [mreq EXCEPT ![h] =
             IF (writes \/ sheds) /\ holder # NoOne
             THEN Busy(kind, IF numbers = "none" THEN "waitnew" ELSE "wait", FALSE)
             ELSE Busy(kind, "llm", sheds)]
    BY <1>5 DEF Ask
  <2>2. ~looksOld /\ numbers = "new" => ~writes /\ ~sheds
    BY <2>1, <1>o DEF Stale
  <2>3. text.numbers = "new" => numbers = "new"
    BY <1>t DEF TextOfTheNumbers
  <2>4. ASSUME NEW at \in {"wait", "waitnew", "llm"}, NEW d \in BOOLEAN
        PROVE  /\ Busy(kind, at, d).at = at /\ Busy(kind, at, d).gender = gender
               /\ Busy(kind, at, d).drop = d /\ Busy(kind, at, d).saw = text
    BY DEF Busy
  <2> PICK d \in BOOLEAN : d = sheds
    OBVIOUS
  <2> HIDE DEF writes, sheds
  <2>5. CASE (writes \/ sheds) /\ holder # NoOne
    <3> PICK at \in {"wait", "waitnew"} : at = IF numbers = "none" THEN "waitnew" ELSE "wait"
      OBVIOUS
    <3> DEFINE q == Busy(kind, at, FALSE)
    <3>1. /\ mreq' = [mreq EXCEPT ![h] = q]
          /\ q.at = at /\ q.saw = text /\ q.gender = gender
      BY <2>1, <2>4, <2>5
    <3> HIDE DEF q
    <3> QED BY <2>1, <2>2, <2>3, <2>5, <3>1, <1>t, <1>o, <1>e DEF OnceInv
  <2>6. CASE ~((writes \/ sheds) /\ holder # NoOne)
    <3> DEFINE q == Busy(kind, "llm", d)
    <3>1. /\ mreq' = [mreq EXCEPT ![h] = q]
          /\ q.at = "llm" /\ q.drop = d /\ q.gender = gender
      BY <2>1, <2>4, <2>6
    <3>2. ~looksOld /\ numbers = "new" => ~d
      BY <2>2
    <3> HIDE DEF q
    <3> QED BY <2>1, <3>1, <3>2, <1>t, <1>o, <1>e DEF OnceInv
  <2> QED BY <2>5, <2>6
<1>6. ASSUME NEW h \in MxHandlers, Unblock(h)
      PROVE  OnceInv'
  <2> PICK d \in BOOLEAN : d = (text # NoText /\ text = mreq[h].saw)
    OBVIOUS
  <2> DEFINE q == [mreq[h] EXCEPT !.at = "llm", !.drop = d]
  <2>1. /\ mreq[h].at \in {"wait", "waitnew"} /\ UNCHANGED <<numbers, text>>
        /\ mreq' = [mreq EXCEPT ![h] = MxIdle] \/ mreq' = [mreq EXCEPT ![h] = q]
    BY <1>6 DEF Unblock
  <2>2. q.at = "llm" /\ q.gender = mreq[h].gender /\ q.drop = d
    <3>1. mreq[h] \in MxRequest
      BY <1>t
    <3> QED BY <3>1 DEF MxRequest
  <2>3. ~looksOld /\ numbers = "new" => ~d
    BY <2>1, <1>t, <1>o DEF TextOfTheNumbers
  <2> HIDE DEF q
  <2>4. CASE mreq' = [mreq EXCEPT ![h] = MxIdle]
    BY <2>1, <2>4, <1>t, <1>o, <1>e, IdleType DEF OnceInv
  <2>5. CASE mreq' = [mreq EXCEPT ![h] = q]
    BY <2>1, <2>2, <2>3, <2>5, <1>t, <1>o, <1>e DEF OnceInv
  <2> QED BY <2>1, <2>4, <2>5
<1>7. ASSUME NEW h \in MxHandlers, MxEnd(h), mreq[h].at = "llm",
             text' # NoText => text'.gender = gender
      PROVE  OnceInv'
  <2>1. /\ mreq'[h] = MxIdle
        /\ \A g \in MxHandlers \ {h} : mreq'[g] = mreq[g]
    BY <1>7, <1>t, Ends
  <2>2. \A g \in MxHandlers \ {h} : mreq[g].at = "llm" => numbers = "new"
    BY <1>7, <1>t DEF WritersInv
  <2> QED BY <1>7, <2>1, <2>2, <1>o, <1>e, IdleType DEF OnceInv
<1>8. ASSUME NEW h \in MxHandlers, Fallback(h)
      PROVE  OnceInv'
  <2>1. mreq[h].at = "llm" /\ MxEnd(h)
    BY <1>8 DEF Fallback
  <2>2. text' = NoText \/ (text' = text /\ (numbers = "new" \/ text = NoText))
    BY <1>8, <1>t DEF Fallback, WritersInv, OldInv
  <2> QED BY <1>7, <2>1, <2>2, <1>o
<1>9. ASSUME NEW h \in MxHandlers, StoreText(h)
      PROVE  OnceInv'
  <2> DEFINE mine == [gender |-> mreq[h].gender, numbers |-> mreq[h].numbers, by |-> h]
  <2>1. mreq[h].at = "llm" /\ MxEnd(h) /\ mine.gender = gender
    BY <1>9, <1>o DEF StoreText
  <2>2. text' = mine \/ (text' = text /\ (numbers = "new" \/ text = NoText))
    BY <1>9, <1>t DEF StoreText, WritersInv, OldInv
  <2> HIDE DEF mine
  <2> QED BY <1>7, <2>1, <2>2, <1>o
<1>10. ASSUME NEW h \in MxHandlers, MxDies(h)
       PROVE  OnceInv'
  <2>1. MxEnd(h) /\ UNCHANGED <<numbers, text>>
    BY <1>10 DEF MxDies
  <2>2. /\ mreq'[h] = MxIdle
        /\ \A g \in MxHandlers \ {h} : mreq'[g] = mreq[g]
    BY <2>1, <1>t, Ends
  <2> QED BY <2>1, <2>2, <1>o, <1>e, IdleType DEF OnceInv
<1>11. ASSUME NEW g \in MxGenders, EditGender(g)
       PROVE  FALSE
  BY <1>11, <1>e, <1>t DEF EditGender
<1>12. CASE UNCHANGED mxVars
  BY <1>12, <1>o DEF mxVars, OnceInv
<1> QED BY <1>2, <1>3, <1>4, <1>5, <1>6, <1>8, <1>9, <1>10, <1>11, <1>12 DEF MxNext, MxStep

(* "The LLM call is made once and cached per reading_id": for any number of
   requests and background tasks, no step replaces or drops a text of the
   reader's gender as long as the gender is what it was and the numbers do
   not look old. *)
THEOREM TextWrittenOnce == MxSpec => WrittenOnce
<1> DEFINE Once == mxEdits = 0 /\ numbers = "new" /\ ~looksOld /\ text.gender = gender
                     => text' = text
<1>1. NumbersInv /\ OnceInv /\ [MxNext]_mxVars => [Once]_mxVars
  <2> SUFFICES ASSUME NumbersInv, OnceInv, MxNext,
                      mxEdits = 0, numbers = "new", ~looksOld, text.gender = gender
               PROVE  text' = text
    OBVIOUS
  <2>1. /\ text # NoText
        /\ \A h \in MxHandlers : mreq[h].at = "llm" => ~mreq[h].drop
    BY MatrixAssumption DEF OnceInv, NumbersInv, MxTypeOK, NoText
  <2>2. ASSUME Refreshed PROVE text' = text
    BY <2>2 DEF Refreshed, Stale
  <2> QED BY <2>1, <2>2 DEF MxNext, MxStep, Calculate, Ask, PregenStart, Unblock, Fallback,
             StoreText, MxDies, GetMe, EditGender
<1> QED BY <1>1, NumbersHold, OnceInit, OnceStep, PTL DEF MxSpec, WrittenOnce

-----------------------------------------------------------------------------
(* The sections of the long report. *)

(* What a request may yet write was missing when it began: where it is saved now, the
   request was in progress as it was.  What came is in its transaction, or about to be. *)
SecKnown ==
  [at: {"idle", "run"}, gender: SecGenders \cup {SecIdle.gender}, need: SUBSET Sections,
   results: SUBSET Sections, done: SUBSET Sections, want: Sections \cup {NoSection}]
Rival(h, q) ==
  q.at = "run" =>
    /\ q.gender \in SecGenders /\ q.results \subseteq q.done \cup {q.want}
    /\ \A s \in Sections \cap (q.need \cup q.done \cup {q.want}) :
         rows3[<<q.gender, s>>] # NoSection => h \in rivals[<<q.gender, s>>]
SecInv ==
  /\ rows3 \in [Keys3 -> SecHandlers \cup {NoSection}]
  /\ sreq \in [SecHandlers -> SecKnown]
  /\ rivals \in [Keys3 -> SUBSET SecHandlers] /\ given \subseteq Keys3
  /\ \A h \in SecHandlers : Rival(h, sreq[h])
  /\ \A r \in given : rows3[r] # NoSection

LEMMA SecIdleKnown == SecIdle \in SecKnown /\ \A h : Rival(h, SecIdle) /\ SecIdle.at = "idle"
<1>1. SecIdle.at = "idle" /\ SecIdle \in SecKnown
  BY DEF SecIdle, SecKnown
<1> QED BY <1>1 DEF Rival

LEMMA SecInvInit == SecInit => SecInv
BY SecIdleKnown DEF SecInit, SecInv

(* A request that goes on alone. *)
LEMMA SecAlone ==
  ASSUME SecInv, NEW h \in SecHandlers, NEW q \in SecKnown, Rival(h, q),
         sreq' = [sreq EXCEPT ![h] = q], UNCHANGED <<rows3, rivals, given>>
  PROVE  SecInv'
<1>1. \A k \in SecHandlers : Rival(k, sreq'[k])
  BY DEF SecInv
<1>2. \A k \in SecHandlers : (Rival(k, sreq[k]))'
  BY <1>1 DEF Rival
<1>3. sreq' \in [SecHandlers -> SecKnown]
  BY DEF SecInv
<1> QED BY <1>2, <1>3 DEF SecInv

(* A request that ends without a commit. *)
LEMMA SecGivesUp ==
  ASSUME SecInv, NEW h \in SecHandlers, Leaves(h, {}), UNCHANGED <<rows3, given>>
  PROVE  SecInv'
<1>1. sreq' = [sreq EXCEPT ![h] = SecIdle] /\ rivals' = [r \in Keys3 |-> rivals[r] \ {h}]
  BY DEF Leaves
<1>2. sreq' \in [SecHandlers -> SecKnown] /\ rivals' \in [Keys3 -> SUBSET SecHandlers]
  BY <1>1, SecIdleKnown DEF SecInv
<1>3. ASSUME NEW k \in SecHandlers PROVE (Rival(k, sreq[k]))'
  <2>1. CASE k = h
    <3>1. sreq'[k].at = "idle"
      BY <1>1, <2>1, SecIdleKnown DEF SecInv
    <3> QED BY <3>1 DEF Rival
  <2>2. CASE k # h
    <3>1. sreq'[k] = sreq[k] /\ Rival(k, sreq[k])
      BY <1>1, <2>2 DEF SecInv
    <3>2. \A r \in Keys3 : k \in rivals[r] => k \in rivals'[r]
      BY <1>1, <2>2
    <3> QED BY <3>1, <3>2 DEF Rival, Keys3
  <2> QED BY <2>1, <2>2
<1> QED BY <1>2, <1>3 DEF SecInv

LEMMA SecCommitted ==
  ASSUME SecInv, NEW h \in SecHandlers, CommitSections(h)
  PROVE  SecInv' /\ \A r \in Keys3 : rows3[r] # NoSection /\ rows3'[r] # rows3[r] => rows3'[r] \in rivals[r]
<1> DEFINE q == sreq[h]
           K == Keyed(h, q.done)
<1>1. q \in SecKnown /\ q.at = "run" /\ q.gender \in SecGenders /\ q.want = NoSection /\ Rival(h, q)
  BY DEF CommitSections, Finished, SecInv, Rival
<1>2. K \subseteq Keys3 /\ \A r \in K : rows3[r] # NoSection => h \in rivals[r]
  BY <1>1 DEF Keyed, Keys3, SecKnown, Rival
<1>3. /\ rows3' = [r \in Keys3 |-> IF r \in K THEN h ELSE rows3[r]]
      /\ sreq' = [sreq EXCEPT ![h] = SecIdle]
      /\ rivals' = [r \in Keys3 |-> (IF r \in K THEN InProgress ELSE rivals[r]) \ {h}]
      /\ given' = given \cup Keyed(h, q.results)
  BY DEF CommitSections, Leaves
<1>4. Keyed(h, q.results) \subseteq K
  BY <1>1, SectionsAssumption DEF Keyed, SecKnown, Rival
<1>5. h # NoSection
  BY SectionsAssumption
<1> HIDE DEF K
<1>6. /\ rows3' \in [Keys3 -> SecHandlers \cup {NoSection}] /\ sreq' \in [SecHandlers -> SecKnown]
      /\ rivals' \in [Keys3 -> SUBSET SecHandlers]
  BY <1>3, SecIdleKnown DEF SecInv, InProgress
<1>7. given' \subseteq Keys3 /\ \A r \in given' : rows3'[r] # NoSection
  BY <1>2, <1>3, <1>4, <1>5 DEF SecInv
<1>8. ASSUME NEW k \in SecHandlers PROVE (Rival(k, sreq[k]))'
  <2>1. CASE k = h
    <3>1. sreq'[k].at = "idle"
      BY <1>3, <2>1, SecIdleKnown DEF SecInv
    <3> QED BY <3>1 DEF Rival
  <2>2. CASE k # h /\ sreq[k].at = "run"
    <3>1. sreq'[k] = sreq[k] /\ Rival(k, sreq[k]) /\ k \in InProgress
      BY <1>3, <2>2 DEF SecInv, InProgress
    <3>2. \A r \in Keys3 : r \notin K => (rows3'[r] = rows3[r] /\ (k \in rivals[r] => k \in rivals'[r]))
      BY <1>3, <2>2
    <3>3. \A r \in Keys3 : r \in K => k \in rivals'[r]
      BY <1>3, <2>2, <3>1
    <3> QED BY <3>1, <3>2, <3>3 DEF Rival, Keys3
  <2>3. CASE k # h /\ sreq[k].at # "run"
    <3>1. sreq'[k] = sreq[k]
      BY <1>3, <2>3 DEF SecInv
    <3> QED BY <2>3, <3>1 DEF Rival
  <2> QED BY <2>1, <2>2, <2>3
<1>9. \A r \in Keys3 : rows3[r] # NoSection /\ rows3'[r] # rows3[r] => rows3'[r] \in rivals[r]
  BY <1>2, <1>3
<1> QED BY <1>6, <1>7, <1>8, <1>9 DEF SecInv

Kept3 == \A r \in Keys3 : rows3[r] # NoSection /\ rows3'[r] # rows3[r] =>
           rows3'[r] \in rivals[r] \/ (r[2] = YearKey /\ rows3'[r] = NoSection)

LEMMA SecInvStep == SecInv /\ [SecNext]_secVars => SecInv' /\ Kept3
<1> SUFFICES ASSUME SecInv, [SecNext]_secVars PROVE SecInv' /\ Kept3
  OBVIOUS
<1>1. ASSUME UNCHANGED rows3 PROVE Kept3
  BY <1>1 DEF Kept3
<1>2. ASSUME NEW h \in SecHandlers PROVE sreq[h] \in SecKnown /\ Rival(h, sreq[h])
  BY DEF SecInv
<1>3. ASSUME NEW h \in SecHandlers, NEW g \in SecGenders, NEW keys \in {Sections, FreeKeys},
             OpenReport(h, g, keys)
      PROVE  SecInv' /\ Kept3
  <2> DEFINE q == [SecIdle EXCEPT !.at = "run", !.gender = g, !.need = ToWrite(g, keys)]
  <2>1. sreq' = [sreq EXCEPT ![h] = q] /\ UNCHANGED <<rows3, rivals, given>>
    BY <1>3 DEF OpenReport
  <2>2. q \in SecKnown
    BY SectionsAssumption DEF SecIdle, SecKnown, ToWrite
  <2>3. /\ q.at = "run" /\ q.gender = g /\ q.results = {} /\ q.done = {} /\ q.want = NoSection
        /\ q.need = ToWrite(g, keys)
    BY DEF SecIdle
  <2> HIDE DEF q
  <2>4. Rival(h, q)
    BY <2>3, SectionsAssumption DEF Rival, ToWrite, Cached
  <2> QED BY <1>1, <2>1, <2>2, <2>4, SecAlone
<1>4. ASSUME NEW h \in SecHandlers, NEW s \in Sections, SectionDone(h, s)
      PROVE  SecInv' /\ Kept3
  <2>1. UNCHANGED <<rows3, rivals, given>> /\ s \in sreq[h].need
    BY <1>4 DEF SectionDone
  <2>2. CASE sreq' = [sreq EXCEPT ![h].want = s, ![h].results = @ \cup {s}, ![h].need = @ \ {s}]
    <3> DEFINE q == [sreq[h] EXCEPT !.want = s, !.results = @ \cup {s}, !.need = @ \ {s}]
    <3>1. sreq' = [sreq EXCEPT ![h] = q]
      BY <1>2, <2>2 DEF SecKnown
    <3>2. q \in SecKnown
      BY <1>2 DEF SecKnown
    <3>3. /\ q.at = sreq[h].at /\ q.gender = sreq[h].gender /\ q.results = sreq[h].results \cup {s}
          /\ q.done = sreq[h].done /\ q.want = s /\ q.need \subseteq sreq[h].need
      BY <1>2 DEF SecKnown
    <3> HIDE DEF q
    <3>4. sreq[h].at = "run" => sreq[h].results \subseteq sreq[h].done
      BY <1>2, <1>4, SectionsAssumption DEF SectionDone, SecKnown, Rival
    <3>5. Rival(h, q)
      BY <1>2, <2>1, <3>3, <3>4 DEF Rival
    <3> QED BY <1>1, <2>1, <3>1, <3>2, <3>5, SecAlone
  <2>3. CASE sreq' = [sreq EXCEPT ![h].need = @ \ {s}]
    <3> DEFINE q == [sreq[h] EXCEPT !.need = @ \ {s}]
    <3>1. sreq' = [sreq EXCEPT ![h] = q]
      BY <1>2, <2>3 DEF SecKnown
    <3>2. q \in SecKnown
      BY <1>2 DEF SecKnown
    <3>3. /\ q.at = sreq[h].at /\ q.gender = sreq[h].gender /\ q.results = sreq[h].results
          /\ q.done = sreq[h].done /\ q.want = sreq[h].want /\ q.need \subseteq sreq[h].need
      BY <1>2 DEF SecKnown
    <3> HIDE DEF q
    <3>4. Rival(h, q)
      BY <1>2, <3>3 DEF Rival
    <3> QED BY <1>1, <2>1, <3>1, <3>2, <3>4, SecAlone
  <2> QED BY <1>4, <2>2, <2>3 DEF SectionDone
<1>5. ASSUME NEW h \in SecHandlers, Upsert(h)
      PROVE  SecInv' /\ Kept3
  <2> DEFINE q == [sreq[h] EXCEPT !.done = @ \cup {sreq[h].want}, !.want = NoSection]
  <2>1. sreq' = [sreq EXCEPT ![h] = q] /\ UNCHANGED <<rows3, rivals, given>>
    BY <1>2, <1>5 DEF Upsert, SecKnown
  <2>2. q \in SecKnown
    <3>1. sreq[h] \in SecKnown /\ sreq[h].want \in Sections
      BY <1>2, <1>5 DEF Upsert, SecKnown
    <3>2. sreq[h].done \cup {sreq[h].want} \in SUBSET Sections
      BY <3>1 DEF SecKnown
    <3> QED BY <3>1, <3>2 DEF SecKnown
  <2>3. /\ q.at = sreq[h].at /\ q.gender = sreq[h].gender /\ q.results = sreq[h].results
        /\ q.done = sreq[h].done \cup {sreq[h].want} /\ q.want = NoSection /\ q.need = sreq[h].need
    BY <1>2 DEF SecKnown
  <2> HIDE DEF q
  <2>4. Rival(h, q)
    BY <1>2, <2>3, SectionsAssumption DEF Rival
  <2> QED BY <1>1, <2>1, <2>2, <2>4, SecAlone
<1>6. ASSUME NEW h \in SecHandlers, CommitSections(h)
      PROVE  SecInv' /\ Kept3
  BY <1>6, SecCommitted DEF Kept3
<1>7. ASSUME NEW h \in SecHandlers, BreakDeadlock(h) \/ SecDies(h)
      PROVE  SecInv' /\ Kept3
  BY <1>1, <1>7, SecGivesUp DEF BreakDeadlock, SecDies
<1>8. CASE DropYear
  <2>1. /\ rows3' = [r \in Keys3 |-> IF r[2] = YearKey THEN NoSection ELSE rows3[r]]
        /\ given' = {r \in given : r[2] # YearKey} /\ UNCHANGED <<sreq, rivals>>
    BY <1>8 DEF DropYear
  <2>2. rows3' \in [Keys3 -> SecHandlers \cup {NoSection}] /\ \A r \in given' : rows3'[r] # NoSection
    BY <2>1 DEF SecInv
  <2>3. \A r \in Keys3 : rows3'[r] # NoSection => rows3[r] # NoSection
    BY <2>1
  <2>4. ASSUME NEW h \in SecHandlers PROVE (Rival(h, sreq[h]))'
    BY <1>2, <2>1, <2>3 DEF Rival, Keys3
  <2>5. Kept3
    BY <2>1 DEF Kept3
  <2> QED BY <2>1, <2>2, <2>4, <2>5 DEF SecInv
<1>9. CASE UNCHANGED secVars
  BY <1>1, <1>9 DEF secVars, SecInv, Rival
<1> QED
  BY <1>3, <1>4, <1>5, <1>6, <1>7, <1>8, <1>9 DEF SecNext, SecStep

(* For any transactions, failures and deaths: what was generated for an answer is
   saved, and a saved text goes with a birthday or gives way to a request that was in
   progress when it was committed. *)
THEOREM SectionsAreKept == SecSpec => SectionsStay
<1>1. SecInv => \A r \in given : rows3[r] # NoSection
  BY DEF SecInv
<1>2. SecInv /\ [SecNext]_secVars => [Kept3]_secVars
  BY SecInvStep
<1>3. SecInv /\ [SecNext]_secVars => SecInv'
  BY SecInvStep
<1>4. Kept3 <=> \A r \in Keys3 : rows3[r] # NoSection /\ rows3'[r] # rows3[r] =>
                  rows3'[r] \in rivals[r] \/ (r[2] = YearKey /\ rows3'[r] = NoSection)
  BY DEF Kept3
<1> QED
  BY SecInvInit, <1>1, <1>2, <1>3, <1>4, PTL DEF SecSpec, SectionsStay

-----------------------------------------------------------------------------
(* The year's section. *)

(* Once settled, nothing old is saved, being written or begun again. *)
YearInv ==
  /\ quarter \in Nat
  /\ settled => section # "old" /\ "old" \notin writing /\ ServerYear = "new"

LEMMA YearInvStep == YearInv /\ [YeNext]_yeVars => YearInv'
<1> SUFFICES ASSUME YearInv, [YeNext]_yeVars PROVE YearInv'
  OBVIOUS
<1>1. CASE NextQuarter
  <2>1. quarter' = quarter + 1 /\ UNCHANGED <<leapling, section, writing, settled>> /\ quarter \in Nat
    BY <1>1 DEF NextQuarter, YearInv
  <2>2. ServerYear = "new" => ServerYear' = "new"
    BY <2>1 DEF ServerYear, Day
  <2> QED BY <2>1, <2>2 DEF YearInv
<1>2. CASE OpenYear
  <2>1. UNCHANGED <<quarter, leapling, section, settled>> /\ ServerYear' = ServerYear
    BY <1>2 DEF OpenYear, ServerYear
  <2> QED BY <1>2, <2>1 DEF OpenYear, YearInv
<1>3. ASSUME NEW y \in {"old", "new"}, SaveYear(y) PROVE YearInv'
  <2>1. UNCHANGED <<quarter, leapling, settled>> /\ ServerYear' = ServerYear
    BY <1>3 DEF SaveYear, ServerYear
  <2> QED BY <1>3, <2>1 DEF SaveYear, YearInv
<1>4. CASE BirthdayJob
  <2>1. UNCHANGED <<quarter, leapling, writing>> /\ ServerYear' = ServerYear
    BY <1>4 DEF BirthdayJob, ServerYear
  <2>2. section' \in {section, "none"}
    BY <1>4 DEF BirthdayJob
  <2>3. CASE settled
    BY <2>1, <2>2, <2>3 DEF YearInv
  <2>4. CASE ~settled /\ settled'
    <3>1. Rollover /\ ServerYear = "new" /\ "old" \notin writing
      BY <1>4, <2>4 DEF BirthdayJob, Rollover
    <3>2. section' = "none"
      BY <1>4, <3>1 DEF BirthdayJob
    <3> QED BY <2>1, <3>1, <3>2 DEF YearInv
  <2>5. CASE ~settled'
    BY <2>1, <2>5 DEF YearInv
  <2> QED BY <2>3, <2>4, <2>5
<1>5. CASE UNCHANGED yeVars
  BY <1>5 DEF yeVars, YearInv, ServerYear
<1> QED
  BY <1>1, <1>2, <1>3, <1>4, <1>5 DEF YeNext

(* After a beat of the job at an hour when it is the birthday for the reader's zone
   and for the server, with no request left from before, no request, failure, beat
   or missed beat in whatever order makes the section that of the past year. *)
THEOREM YearHasMovedOn == YeSpec => []YearMovesOn
<1>1. YeInit => YearInv
  BY DEF YeInit, YearInv
<1>2. YearInv => YearMovesOn
  BY DEF YearInv, YearMovesOn
<1> QED
  BY <1>1, <1>2, YearInvStep, PTL DEF YeSpec

-----------------------------------------------------------------------------
(* The numbers of the matrix (Arcana).  A function on the naturals that looks at
   itself at a smaller number, if at all, exists: its beginnings do, and two of them
   do not differ where both are given. *)

IsDescent(down, step, stops, S) ==
  /\ stops \subseteq Nat /\ down \in [Nat -> Nat] /\ step \in [S \X Nat -> S]
  /\ \A n \in Nat : n \notin stops => down[n] < n
IsBeginning(m, f, down, step, stops, base, S) ==
  /\ f \in [0..m -> S]
  /\ \A n \in 0..m : f[n] = IF n \in stops THEN base[n] ELSE step[<<f[down[n]], n>>]
IsDescended(f, down, step, stops, base, S) ==
  /\ f \in [Nat -> S]
  /\ \A n \in Nat : f[n] = IF n \in stops THEN base[n] ELSE step[<<f[down[n]], n>>]

LEMMA DescentExists ==
  ASSUME NEW S, NEW down, NEW step, NEW stops, NEW base \in [Nat -> S], IsDescent(down, step, stops, S)
  PROVE  \E f : IsDescended(f, down, step, stops, base, S)
<1> DEFINE Of(m, f) == IsBeginning(m, f, down, step, stops, base, S)
           T == {m \in Nat : \E f : Of(m, f)}
<1> USE DEF IsDescent
<1>1. ASSUME NEW m \in Nat, NEW k \in Nat, NEW f, NEW g, Of(m, f), Of(k, g)
      PROVE  \A n \in 0..m : n \in 0..k => f[n] = g[n]
  <2> DEFINE differ == {n \in 0..m : n \in 0..k /\ f[n] # g[n]}
  <2>1. ASSUME differ # {} PROVE FALSE
    <3>1. differ \subseteq Nat
      OBVIOUS
    <3>2. PICK n \in differ : \A y \in differ : n <= y
      <4> HIDE DEF differ
      <4> QED BY <2>1, <3>1, LeastNatural
    <3>3. n \in 0..m /\ n \in 0..k /\ f[n] # g[n]
      OBVIOUS
    <3>4. /\ f[n] = IF n \in stops THEN base[n] ELSE step[<<f[down[n]], n>>]
          /\ g[n] = IF n \in stops THEN base[n] ELSE step[<<g[down[n]], n>>]
      BY <1>1, <3>3 DEF IsBeginning
    <3>5. n \notin stops
      BY <3>3, <3>4
    <3>6. down[n] \in 0..m /\ down[n] \in 0..k /\ ~(n <= down[n])
      <4>1. n \in Nat /\ n <= m /\ n <= k
        BY <3>3
      <4>2. down[n] \in Nat /\ down[n] < n
        BY <3>5, <4>1
      <4> QED BY <4>1, <4>2
    <3>7. f[down[n]] = g[down[n]]
      BY <3>2, <3>6
    <3> QED BY <3>3, <3>4, <3>5, <3>7
  <2> QED BY <2>1
<1>2. ASSUME NEW m \in Nat, \A k \in 0..m - 1 : k \in T PROVE m \in T
  <2> DEFINE Some(k) == CHOOSE f : Of(k, f)
             g == [n \in 0..m |-> IF n \in stops THEN base[n] ELSE step[<<Some(down[n])[down[n]], n>>]]
  <2>1. \A k \in 0..m - 1 : Of(k, Some(k)) /\ k \in Nat
    BY <1>2
  <2> HIDE DEF Some
  <2>2. \A n \in 0..m : n \notin stops => down[n] \in 0..m - 1 /\ down[n] \in 0..m /\ down[n] \in 0..down[n]
    <3> SUFFICES ASSUME NEW n \in 0..m, n \notin stops
                 PROVE  down[n] \in 0..m - 1 /\ down[n] \in 0..m /\ down[n] \in 0..down[n]
      OBVIOUS
    <3>1. n \in Nat /\ n <= m
      OBVIOUS
    <3>2. down[n] \in Nat /\ down[n] < n
      BY <3>1
    <3> QED BY <3>1, <3>2
  <2>3. \A k \in 0..m - 1 : Some(k) \in [0..k -> S]
    BY <2>1 DEF IsBeginning
  <2>4. ASSUME NEW n \in 0..m
        PROVE  (IF n \in stops THEN base[n] ELSE step[<<Some(down[n])[down[n]], n>>]) \in S
    <3>1. n \in Nat
      OBVIOUS
    <3>2. CASE n \in stops
      BY <3>1, <3>2
    <3>3. CASE n \notin stops
      <4>1. Some(down[n])[down[n]] \in S
        BY <2>2, <2>3, <3>3
      <4> QED BY <3>1, <3>3, <4>1
    <3> QED BY <3>2, <3>3
  <2>5. g \in [0..m -> S]
    BY <2>4
  <2>6. ASSUME NEW n \in 0..m PROVE g[n] = IF n \in stops THEN base[n] ELSE step[<<g[down[n]], n>>]
    <3>1. CASE n \in stops
      BY <3>1
    <3>2. CASE n \notin stops
      <4> DEFINE d == down[n]
      <4>1. d \in 0..m - 1 /\ d \in 0..m /\ d \in 0..d
        BY <2>2, <3>2
      <4>2. g[n] = step[<<Some(d)[d], n>>]
        BY <3>2
      <4>3. Of(d, Some(d)) /\ d \in Nat
        BY <2>1, <4>1
      <4>4. Some(d)[d] = IF d \in stops THEN base[d] ELSE step[<<Some(d)[down[d]], d>>]
        BY <4>1, <4>3 DEF IsBeginning
      <4>5. g[d] = IF d \in stops THEN base[d] ELSE step[<<Some(down[d])[down[d]], d>>]
        BY <4>1
      <4>6. d \notin stops => Some(d)[down[d]] = Some(down[d])[down[d]]
        <5> SUFFICES ASSUME d \notin stops PROVE Some(d)[down[d]] = Some(down[d])[down[d]]
          OBVIOUS
        <5>1. down[d] \in 0..m - 1 /\ down[d] \in 0..down[d] /\ down[d] \in 0..d
          <6>1. down[d] \in Nat /\ down[d] < d
            BY <4>3
          <6> QED BY <2>2, <4>1, <4>3, <6>1
        <5>2. Of(down[d], Some(down[d])) /\ down[d] \in Nat
          BY <2>1, <5>1
        <5> HIDE DEF d, Of
        <5> QED BY <1>1, <4>3, <5>1, <5>2
      <4>7. g[d] = Some(d)[d]
        BY <4>4, <4>5, <4>6
      <4> HIDE DEF g
      <4> QED BY <3>2, <4>2, <4>7
    <3> QED BY <3>1, <3>2
  <2> HIDE DEF g
  <2>7. Of(m, g)
    BY <2>5, <2>6 DEF IsBeginning
  <2> QED BY <2>7
<1>3. \A m \in Nat : m \in T
  <2> DEFINE without == {m \in Nat : m \notin T}
  <2> HIDE DEF T
  <2>1. ASSUME without # {} PROVE FALSE
    <3>1. PICK m \in without : \A y \in without : m <= y
      BY <2>1, LeastNatural
    <3>2. \A k \in 0..m - 1 : k \in T
      BY <3>1
    <3> QED BY <1>2, <3>2
  <2> QED BY <2>1
<1> DEFINE Some(k) == CHOOSE f : Of(k, f)
           F == [n \in Nat |-> Some(n)[n]]
<1>4. \A k \in Nat : Of(k, Some(k))
  BY <1>3
<1> HIDE DEF Some, T
<1>5. \A n \in Nat : Some(n)[n] \in S
  BY <1>4 DEF IsBeginning
<1>6. ASSUME NEW n \in Nat PROVE F[n] = IF n \in stops THEN base[n] ELSE step[<<F[down[n]], n>>]
  <2>1. Some(n)[n] = IF n \in stops THEN base[n] ELSE step[<<Some(n)[down[n]], n>>]
    BY <1>4 DEF IsBeginning
  <2>2. n \notin stops => Some(n)[down[n]] = Some(down[n])[down[n]]
    <3> SUFFICES ASSUME n \notin stops PROVE Some(n)[down[n]] = Some(down[n])[down[n]]
      OBVIOUS
    <3>1. down[n] \in Nat /\ down[n] < n
      OBVIOUS
    <3>2. down[n] \in 0..n /\ down[n] \in 0..down[n]
      BY <3>1
    <3>3. Of(n, Some(n)) /\ Of(down[n], Some(down[n]))
      BY <1>4, <3>1
    <3> HIDE DEF Of
    <3> QED BY <1>1, <3>1, <3>2, <3>3
  <2>3. F[n] = Some(n)[n] /\ (n \notin stops => F[down[n]] = Some(down[n])[down[n]])
    OBVIOUS
  <2> HIDE DEF F
  <2> QED BY <2>1, <2>2, <2>3
<1>7. F \in [Nat -> S]
  BY <1>5
<1> HIDE DEF F
<1> QED BY <1>6, <1>7 DEF IsDescended

(* The sum of the digits of a number is not above it, below it when it has two or
   more, and not zero unless the number is. *)
LEMMA DigitSumIs ==
  /\ DigitSum \in [Nat -> Nat]
  /\ \A n \in Nat : DigitSum[n] = IF n < 10 THEN n ELSE (n % 10) + DigitSum[n \div 10]
<1> DEFINE stops == 0..9
           down == [n \in Nat |-> n \div 10]
           step == [p \in Nat \X Nat |-> (p[2] % 10) + p[1]]
           base == [n \in Nat |-> n]
           Rec(f) == f = [n \in Nat |-> IF n < 10 THEN n ELSE (n % 10) + f[n \div 10]]
           u == CHOOSE f : Rec(f)
<1>1. IsDescent(down, step, stops, Nat) /\ base \in [Nat -> Nat]
  <2>1. \A n \in Nat : n \div 10 \in Nat /\ n % 10 \in Nat /\ (n \notin stops => n \div 10 < n)
    OBVIOUS
  <2>2. \A p \in Nat \X Nat : (p[2] % 10) + p[1] \in Nat
    OBVIOUS
  <2> QED BY <2>1, <2>2 DEF IsDescent
<1>2. \A n \in Nat : down[n] = n \div 10 /\ base[n] = n
  OBVIOUS
<1>3. \A s \in Nat, n \in Nat : step[<<s, n>>] = (n % 10) + s
  OBVIOUS
<1>4. \A n \in Nat : (n \in stops <=> n < 10) /\ n \div 10 \in Nat
  OBVIOUS
<1> HIDE DEF stops, down, step, base
<1>5. PICK f : IsDescended(f, down, step, stops, base, Nat)
  BY <1>1, DescentExists, Zenon
<1>6. Rec(f)
  <2>1. f \in [Nat -> Nat] /\ \A n \in Nat : f[n] = IF n \in stops THEN base[n] ELSE step[<<f[down[n]], n>>]
    BY <1>5 DEF IsDescended
  <2>2. ASSUME NEW n \in Nat PROVE f[n] = IF n < 10 THEN n ELSE (n % 10) + f[n \div 10]
    <3>1. f[n \div 10] \in Nat
      BY <1>4, <2>1
    <3>2. step[<<f[n \div 10], n>>] = (n % 10) + f[n \div 10]
      BY <1>3, <3>1
    <3> QED BY <1>2, <1>4, <2>1, <3>2
  <2> QED BY <2>1, <2>2
<1>7. Rec(u)
  BY <1>6, Zenon
<1>8. DigitSum = u
  BY Zenon DEF DigitSum
<1>9. \A n \in Nat : u[n] = IF n < 10 THEN n ELSE (n % 10) + u[n \div 10]
  <2> HIDE DEF u
  <2> QED BY <1>7
<1>10. u = f
  <2> DEFINE differ == {n \in Nat : u[n] # f[n]}
  <2>1. ASSUME differ # {} PROVE FALSE
    <3>1. PICK n \in differ : \A y \in differ : n <= y
      <4> HIDE DEF differ, u
      <4>1. differ \subseteq Nat
        BY DEF differ
      <4> QED BY <2>1, <4>1, LeastNatural
    <3>2. n \in Nat /\ u[n] # f[n]
      OBVIOUS
    <3> HIDE DEF u
    <3>3. f[n] = IF n < 10 THEN n ELSE (n % 10) + f[n \div 10]
      BY <1>6, <3>2
    <3>4. u[n] = IF n < 10 THEN n ELSE (n % 10) + u[n \div 10]
      BY <1>9, <3>2
    <3>5. ~(n < 10)
      BY <3>2, <3>3, <3>4
    <3>6. n \div 10 \in Nat /\ ~(n <= n \div 10)
      BY <3>2, <3>5
    <3>7. u[n \div 10] = f[n \div 10]
      BY <3>1, <3>6
    <3> QED BY <3>2, <3>3, <3>4, <3>7
  <2>2. u = [n \in Nat |-> u[n]]
    <3> HIDE DEF u
    <3> QED BY <1>7
  <2>3. f = [n \in Nat |-> f[n]]
    BY <1>5 DEF IsDescended
  <2>4. \A n \in Nat : u[n] = f[n]
    BY <2>1
  <2> HIDE DEF u
  <2> QED BY <2>2, <2>3, <2>4
<1>11. f \in [Nat -> Nat]
  BY <1>5 DEF IsDescended
<1> HIDE DEF u
<1> QED BY <1>8, <1>9, <1>10, <1>11

LEMMA DigitSumBounds ==
  ASSUME NEW n \in Nat
  PROVE  /\ DigitSum[n] \in Nat /\ DigitSum[n] <= n
         /\ n >= 10 => DigitSum[n] < n
         /\ n >= 1 => DigitSum[n] >= 1
<1> DEFINE Fine(x) == DigitSum[x] <= x /\ (x >= 1 => DigitSum[x] >= 1)
           bad == {x \in Nat : ~Fine(x)}
<1>1. ASSUME bad # {} PROVE FALSE
  <2>1. PICK x \in bad : \A y \in bad : x <= y
    <3>1. bad \subseteq Nat
      OBVIOUS
    <3> HIDE DEF bad
    <3> QED BY <1>1, <3>1, LeastNatural
  <2>2. x \in Nat /\ ~Fine(x)
    OBVIOUS
  <2>3. DigitSum[x] = IF x < 10 THEN x ELSE (x % 10) + DigitSum[x \div 10]
    BY <2>2, DigitSumIs
  <2>4. ~(x < 10)
    BY <2>2, <2>3
  <2>5. x \div 10 \in Nat /\ ~(x <= x \div 10) /\ x \div 10 >= 1
    BY <2>2, <2>4
  <2>6. Fine(x \div 10)
    BY <2>1, <2>5
  <2>7. DigitSum[x \div 10] \in Nat
    BY <2>5, DigitSumIs
  <2> HIDE DEF Fine
  <2>8. DigitSum[x \div 10] <= x \div 10 /\ DigitSum[x \div 10] >= 1
    BY <2>5, <2>6 DEF Fine
  <2>9. DigitSum[x] = (x % 10) + DigitSum[x \div 10]
    BY <2>3, <2>4
  <2>10. x = 10 * (x \div 10) + (x % 10) /\ x % 10 \in Nat
    BY <2>2
  <2>11. DigitSum[x] <= x /\ DigitSum[x] >= 1
    <3> DEFINE q == x \div 10  r == x % 10  d == DigitSum[x \div 10]  s == DigitSum[x]
    <3> HIDE DEF q, r, d, s
    <3>1. x = 10 * q + r /\ r \in Nat /\ q \in Nat /\ d \in Nat /\ d <= q /\ d >= 1 /\ s = r + d
      BY <2>5, <2>7, <2>8, <2>9, <2>10 DEF q, r, d, s
    <3>2. s <= x /\ s >= 1
      BY <3>1, <2>2
    <3> QED BY <3>2 DEF s
  <2> QED BY <2>2, <2>11 DEF Fine
<1>2. \A x \in Nat : Fine(x)
  BY <1>1
<1>3. ASSUME n >= 10 PROVE DigitSum[n] < n
  <2>1. DigitSum[n] = (n % 10) + DigitSum[n \div 10]
    BY <1>3, DigitSumIs
  <2>2. n \div 10 \in Nat /\ n \div 10 >= 1
    BY <1>3
  <2>3. DigitSum[n \div 10] <= n \div 10 /\ DigitSum[n \div 10] \in Nat
    BY <1>2, <2>2, DigitSumIs
  <2>4. n = 10 * (n \div 10) + (n % 10) /\ n % 10 \in Nat
    OBVIOUS
  <2> DEFINE q == n \div 10  r == n % 10  d == DigitSum[n \div 10]  s == DigitSum[n]
  <2> HIDE DEF q, r, d, s
  <2>5. n = 10 * q + r /\ r \in Nat /\ q \in Nat /\ d \in Nat /\ d <= q /\ q >= 1 /\ s = r + d
    BY <2>1, <2>2, <2>3, <2>4 DEF q, r, d, s
  <2>6. s < n
    BY <2>5
  <2> QED BY <2>6 DEF s
<1> QED BY <1>2, <1>3, DigitSumIs

(* A number folded to at most a limit of 9 or more is one of its cards, or zero if
   it was zero. *)
LEMMA Folded ==
  ASSUME NEW limit \in Nat, limit >= 9,
         NEW r, r = CHOOSE f : f = [n \in Nat |-> IF n <= limit THEN n ELSE f[DigitSum[n]]]
  PROVE  \A n \in Nat : r[n] \in 0..limit /\ (n >= 1 => r[n] \in 1..limit)
<1> DEFINE stops == 0..limit
           down == [n \in Nat |-> IF n <= limit THEN 0 ELSE DigitSum[n]]
           step == [p \in Nat \X Nat |-> p[1]]
           base == [n \in Nat |-> n]
           Rec(f) == f = [n \in Nat |-> IF n <= limit THEN n ELSE f[DigitSum[n]]]
<1>1. IsDescent(down, step, stops, Nat) /\ base \in [Nat -> Nat]
  <2>1. ASSUME NEW n \in Nat PROVE down[n] \in Nat /\ (n \notin stops => down[n] < n)
    <3>1. DigitSum[n] \in Nat /\ (n >= 10 => DigitSum[n] < n)
      BY DigitSumBounds
    <3> QED BY <3>1
  <2>2. \A p \in Nat \X Nat : p[1] \in Nat
    OBVIOUS
  <2>3. down \in [Nat -> Nat]
    <3>1. down = [n \in Nat |-> down[n]]
      OBVIOUS
    <3> HIDE DEF down
    <3> QED BY <2>1, <3>1
  <2> QED BY <2>1, <2>2, <2>3 DEF IsDescent
<1>2. \A n \in Nat : base[n] = n /\ (n > limit => down[n] = DigitSum[n])
  OBVIOUS
<1>3. \A s \in Nat, n \in Nat : step[<<s, n>>] = s
  OBVIOUS
<1>4. \A n \in Nat : n \in stops <=> n <= limit
  OBVIOUS
<1> HIDE DEF stops, down, step, base
<1>5. PICK f : IsDescended(f, down, step, stops, base, Nat)
  BY <1>1, DescentExists, Zenon
<1>6. Rec(f)
  <2>1. f \in [Nat -> Nat] /\ \A n \in Nat : f[n] = IF n \in stops THEN base[n] ELSE step[<<f[down[n]], n>>]
    BY <1>5 DEF IsDescended
  <2>2. ASSUME NEW n \in Nat PROVE f[n] = IF n <= limit THEN n ELSE f[DigitSum[n]]
    <3>1. DigitSum[n] \in Nat /\ f[DigitSum[n]] \in Nat
      BY <2>1, DigitSumIs
    <3>2. step[<<f[DigitSum[n]], n>>] = f[DigitSum[n]]
      BY <1>3, <3>1
    <3>3. CASE n <= limit
      BY <1>2, <1>4, <2>1, <3>3
    <3>4. CASE ~(n <= limit)
      <4>1. n > limit
        BY <3>4
      <4> QED BY <1>2, <1>4, <2>1, <3>2, <3>4, <4>1
    <3> QED BY <3>3, <3>4
  <2> QED BY <2>1, <2>2
<1>7. Rec(r)
  BY <1>6, Zenon
<1>8. \A n \in Nat : r[n] = IF n <= limit THEN n ELSE r[DigitSum[n]]
  BY <1>7
<1> HIDE DEF Rec
<1> DEFINE Fine(n) == r[n] \in 0..limit /\ (n >= 1 => r[n] \in 1..limit)
           bad == {n \in Nat : ~Fine(n)}
<1>9. ASSUME bad # {} PROVE FALSE
  <2>1. PICK n \in bad : \A y \in bad : n <= y
    <3>1. bad \subseteq Nat
      OBVIOUS
    <3> HIDE DEF bad
    <3> QED BY <1>9, <3>1, LeastNatural
  <2>2. n \in Nat /\ ~Fine(n)
    OBVIOUS
  <2>3. ~(n <= limit)
    BY <1>8, <2>2
  <2>4. DigitSum[n] \in Nat /\ DigitSum[n] < n /\ DigitSum[n] >= 1
    BY <2>2, <2>3, DigitSumBounds
  <2>5. Fine(DigitSum[n])
    BY <2>1, <2>4
  <2>6. r[n] = r[DigitSum[n]]
    BY <1>8, <2>2, <2>3
  <2> QED BY <2>2, <2>4, <2>5, <2>6
<1> QED BY <1>9

LEMMA ReduceBounds == \A n \in Nat : Reduce[n] \in 0..22 /\ (n >= 1 => Reduce[n] \in Cards)
<1>1. Reduce = CHOOSE f : f = [n \in Nat |-> IF n <= 22 THEN n ELSE f[DigitSum[n]]]
  BY Zenon DEF Reduce
<1>2. 22 \in Nat /\ 22 >= 9
  OBVIOUS
<1> QED BY <1>1, <1>2, Folded DEF Cards

LEMMA Reduced1 == \A n \in Nat : n >= 1 => Reduce1[n] \in 1..9
<1>1. Reduce1 = CHOOSE f : f = [n \in Nat |-> IF n <= 9 THEN n ELSE f[DigitSum[n]]]
  BY Zenon DEF Reduce1
<1>2. 9 \in Nat /\ 9 >= 9
  OBVIOUS
<1> QED BY <1>1, <1>2, Folded

(* So the sum of two, three or four cards folds to a card. *)
LEMMA CardsAdd ==
  ASSUME NEW a \in Cards, NEW b \in Cards
  PROVE  Reduce[a + b] \in Cards
BY ReduceBounds DEF Cards
LEMMA CardsAddThree ==
  ASSUME NEW a \in Cards, NEW b \in Cards, NEW c \in Cards
  PROVE  Reduce[a + b + c] \in Cards
<1>1. a + b + c \in Nat /\ a + b + c >= 1
  BY DEF Cards
<1> QED BY <1>1, ReduceBounds
LEMMA CardsAddFour ==
  ASSUME NEW a \in Cards, NEW b \in Cards, NEW c \in Cards, NEW d \in Cards
  PROVE  Reduce[a + b + c + d] \in Cards
<1>1. a + b + c + d \in Nat /\ a + b + c + d >= 1
  BY DEF Cards
<1> QED BY <1>1, ReduceBounds
LEMMA RayOfCards ==
  ASSUME NEW a \in Cards, NEW c \in Cards
  PROVE  /\ Ray(a, c) = <<Ray(a, c)[1], Ray(a, c)[2], Ray(a, c)[3]>>
         /\ Ray(a, c)[1] \in Cards /\ Ray(a, c)[2] \in Cards /\ Ray(a, c)[3] \in Cards
         /\ HalfDiag(a, c) = <<Ray(a, c)[2], Ray(a, c)[1]>>
BY CardsAdd DEF Ray, HalfDiag

APoint == [day : Cards, month : Cards, year : Cards, bottom : Cards, center : Cards, tl : Cards,
           tr : Cards, br : Cards, bl : Cards, lineage : Cards, holistic : Cards]
ALines == [sky : Cards, earth : Cards, father : Cards, mother : Cards, personal : Cards,
           social : Cards, spiritual : Cards, planetary : Cards]
AChakras == [sahasrara : Cards, adjna : Cards, vishuddha : Cards, anahata : Cards,
             manipura : Cards, svadhisthana : Cards, muladhara : Cards]

LEMMA PointsAreCards ==
  ASSUME NEW date \in [d : 1..31, m : 1..12, y : Nat \ {0}]
  PROVE  Points(date) \in APoint
<1> DEFINE D == Reduce[date.d]
           M == Reduce[date.m]
           Y == Reduce[DigitSum[date.y]]
           B == Reduce[D + M + Y]
           C == Reduce[D + M + Y + B]
           tl == Reduce[D + M]
           tr == Reduce[M + Y]
           br == Reduce[Y + B]
           bl == Reduce[B + D]
           lineage == Reduce[tl + tr + br + bl]
           holistic == Reduce[C + lineage]
<1>1. D \in Cards /\ M \in Cards
  BY ReduceBounds
<1>2. Y \in Cards
  <2>1. DigitSum[date.y] \in Nat /\ DigitSum[date.y] >= 1
    BY DigitSumBounds
  <2> QED BY <2>1, ReduceBounds
<1> HIDE DEF D, M, Y
<1>3. B \in Cards
  BY <1>1, <1>2, CardsAddThree
<1> HIDE DEF B
<1>4. C \in Cards
  BY <1>1, <1>2, <1>3, CardsAddFour
<1> HIDE DEF C
<1>5. tl \in Cards /\ tr \in Cards /\ br \in Cards /\ bl \in Cards
  BY <1>1, <1>2, <1>3, CardsAdd
<1> HIDE DEF tl, tr, br, bl
<1>6. lineage \in Cards
  BY <1>5, CardsAddFour
<1> HIDE DEF lineage
<1>7. holistic \in Cards
  BY <1>4, <1>6, CardsAdd
<1> HIDE DEF holistic
<1>8. Points(date) = [day |-> D, month |-> M, year |-> Y, bottom |-> B, center |-> C,
      tl |-> tl, tr |-> tr, br |-> br, bl |-> bl, lineage |-> lineage, holistic |-> holistic]
  BY Zenon DEF Points, D, M, Y, B, C, tl, tr, br, bl, lineage, holistic
<1> QED BY <1>1, <1>2, <1>3, <1>4, <1>5, <1>6, <1>7, <1>8 DEF APoint

LEMMA LinesAreCards ==
  ASSUME NEW p \in APoint
  PROVE  Lines(p) \in ALines
<1> DEFINE sky == Reduce[p.month + p.bottom]
           earth == Reduce[p.day + p.year]
           father == Reduce[p.tl + p.br]
           mother == Reduce[p.tr + p.bl]
           lp == Reduce[sky + earth]
           sp == Reduce[father + mother]
           dp == Reduce[lp + sp]
           pp == Reduce[sp + dp]
<1>1. sky \in Cards /\ earth \in Cards /\ father \in Cards /\ mother \in Cards
  BY CardsAdd DEF APoint
<1> HIDE DEF sky, earth, father, mother
<1>2. lp \in Cards /\ sp \in Cards
  BY <1>1, CardsAdd
<1> HIDE DEF lp, sp
<1>3. dp \in Cards
  BY <1>2, CardsAdd
<1> HIDE DEF dp
<1>4. pp \in Cards
  BY <1>2, <1>3, CardsAdd
<1> HIDE DEF pp
<1>5. Lines(p) = [sky |-> sky, earth |-> earth, father |-> father, mother |-> mother,
                  personal |-> lp, social |-> sp, spiritual |-> dp, planetary |-> pp]
  BY Zenon DEF Lines, sky, earth, father, mother, lp, sp, dp, pp
<1> QED BY <1>1, <1>2, <1>3, <1>4, <1>5 DEF ALines

LEMMA SpecialsAreCards ==
  ASSUME NEW p \in APoint
  PROVE  /\ Specials(p).love \in Cards /\ Specials(p).money \in Cards /\ Specials(p).cross \in Cards
         /\ Specials(p).love = Reduce[p.bottom + p.center]
         /\ Specials(p).money = Reduce[p.year + p.center]
<1>1. /\ Specials(p).love = Reduce[p.bottom + p.center]
      /\ Specials(p).money = Reduce[p.year + p.center]
      /\ Specials(p).cross = Reduce[Reduce[p.bottom + p.center] + Reduce[p.year + p.center]]
  BY DEF Specials
<1>2. Reduce[p.bottom + p.center] \in Cards /\ Reduce[p.year + p.center] \in Cards
  BY CardsAdd DEF APoint
<1> QED BY <1>1, <1>2, CardsAdd

LEMMA ChakrasAreCards ==
  ASSUME NEW t \in Cards, NEW c \in Cards, NEW b \in Cards
  PROVE  Chakras(t, c, b) \in AChakras /\ Chakras(t, c, b).svadhisthana = Reduce[c + b]
<1>1. Reduce[t + c] \in Cards /\ Reduce[c + b] \in Cards
  BY CardsAdd
<1>2. Reduce[t + Reduce[t + c]] \in Cards /\ Reduce[Reduce[t + c] + c] \in Cards
  BY <1>1, CardsAdd
<1> QED BY <1>1, <1>2 DEF Chakras, AChakras

LEMMA PayloadIs ==
  ASSUME NEW date
  PROVE  LET P == Payload(date)  p == Points(date)
         IN /\ P.personality = p /\ P.lines = Lines(p) /\ P.channels = Channels(p) /\ P.specials = Specials(p)
            /\ P.karmic_program = <<Specials(p).love, Ray(p.bottom, p.center)[1], p.bottom>>
            /\ P.family.male_upper = HalfDiag(p.tl, p.center) /\ P.family.male_lower = HalfDiag(p.br, p.center)
            /\ P.family.female_upper = HalfDiag(p.tr, p.center) /\ P.family.female_lower = HalfDiag(p.bl, p.center)
            /\ P.chakras.sky = Chakras(p.month, p.center, p.bottom)
            /\ P.chakras.earth = Chakras(p.day, p.center, p.year)
            /\ P.entries = [money |-> Chakras(p.day, p.center, p.year).svadhisthana,
                            partner |-> Chakras(p.month, p.center, p.bottom).svadhisthana]
            /\ P # <<>>
BY DEF Payload

LEMMA PurposesAre ==
  ASSUME NEW P, NEW p, P.personality = p
  PROVE  LET L == Lines(p)
         IN PurposesV3(P) = <<<<p.month, p.bottom, L.sky>>, <<p.day, p.year, L.earth>>,
                              <<L.sky, L.earth, L.personal>>, <<p.tl, p.br, L.father>>,
                              <<p.tr, p.bl, L.mother>>, <<L.father, L.mother, L.social>>,
                              <<L.personal, L.social, L.spiritual>>, <<L.social, L.spiritual, L.planetary>>>>
BY DEF PurposesV3, Lines

LEMMA ElementsOfBoth ==
  ASSUME NEW S, NEW s \in Seq(S), NEW t \in Seq(S)
  PROVE  Range(s \o t) \subseteq S /\ \A i \in DOMAIN (s \o t) : (s \o t)[i] \in S
BY DEF Range

(* What a section looks up. *)
CitedBy(P) ==
  <<CitesVisitka(P), CitesDrk(P), CitesKarmicTail(P), CitesRelationships(P), CitesMoney(P),
    CitesHarmonization(P), CitesTalents(P), CitesAnahata(P), CitesPurposes(P), CitesPowerCode(P),
    CitesHealth(P)>> \o [i \in 1..8 |-> CitesPurpose(P, i)]

LEMMA CitedAreCards ==
  ASSUME NEW date \in [d : 1..31, m : 1..12, y : Nat \ {0}], NEW P, P = Payload(date)
  PROVE  \A i \in DOMAIN CitedBy(P) : Range(CitedBy(P)[i]) \subseteq Cards
<1> DEFINE p == Points(date)
           L == Lines(p)
           first == <<CitesVisitka(P), CitesDrk(P), CitesKarmicTail(P), CitesRelationships(P), CitesMoney(P),
                      CitesHarmonization(P), CitesTalents(P), CitesAnahata(P), CitesPurposes(P),
                      CitesPowerCode(P), CitesHealth(P)>>
           rest == [i \in 1..8 |-> CitesPurpose(P, i)]
<1>1. p \in APoint
  BY PointsAreCards
<1>2. /\ P.personality = p /\ P.lines = L /\ P.channels = Channels(p) /\ P.specials = Specials(p)
      /\ P.karmic_program = <<Specials(p).love, Ray(p.bottom, p.center)[1], p.bottom>>
      /\ P.chakras.sky = Chakras(p.month, p.center, p.bottom)
      /\ P.chakras.earth = Chakras(p.day, p.center, p.year)
      /\ P.entries.money = Chakras(p.day, p.center, p.year).svadhisthana
  <2> HIDE DEF L
  <2>1. P.lines = L
    BY DEF Payload, L
  <2> HIDE DEF p
  <2>2. p = Points(date)
    BY DEF p
  <2> QED BY <2>1, <2>2 DEF Payload
<1>3. /\ p.day \in Cards /\ p.month \in Cards /\ p.year \in Cards /\ p.bottom \in Cards /\ p.center \in Cards
      /\ p.tl \in Cards /\ p.tr \in Cards /\ p.br \in Cards /\ p.bl \in Cards
      /\ p.lineage \in Cards /\ p.holistic \in Cards
  BY <1>1 DEF APoint
<1>4. L \in ALines
  BY <1>1, LinesAreCards
<1>5. /\ L.sky \in Cards /\ L.earth \in Cards /\ L.father \in Cards /\ L.mother \in Cards
      /\ L.personal \in Cards /\ L.social \in Cards /\ L.spiritual \in Cards /\ L.planetary \in Cards
  BY <1>4 DEF ALines
<1>6. PurposesV3(P) = <<<<p.month, p.bottom, L.sky>>, <<p.day, p.year, L.earth>>,
                        <<L.sky, L.earth, L.personal>>, <<p.tl, p.br, L.father>>,
                        <<p.tr, p.bl, L.mother>>, <<L.father, L.mother, L.social>>,
                        <<L.personal, L.social, L.spiritual>>, <<L.social, L.spiritual, L.planetary>>>>
  BY <1>2, PurposesAre, Zenon
<1>7. /\ Specials(p).love \in Cards /\ Specials(p).money \in Cards /\ Specials(p).cross \in Cards
  BY <1>1, SpecialsAreCards
<1>8. P.chakras.sky \in AChakras /\ P.chakras.earth \in AChakras
  <2>1. /\ Chakras(p.month, p.center, p.bottom) \in AChakras
        /\ Chakras(p.day, p.center, p.year) \in AChakras
    BY <1>3, ChakrasAreCards
  <2> QED BY <1>2, <2>1, Zenon
<1> HIDE DEF p, L
<1>9. Range(CitesVisitka(P)) \subseteq Cards /\ Range(CitesDrk(P)) \subseteq Cards
  BY <1>2, <1>3, <1>5 DEF CitesVisitka, CitesDrk, Range
<1>10. Range(CitesKarmicTail(P)) \subseteq Cards /\ Range(CitesRelationships(P)) \subseteq Cards
  <2>1. Ray(p.bottom, p.center)[1] \in Cards
    BY <1>3, RayOfCards
  <2> QED BY <1>2, <1>3, <1>7, <2>1 DEF CitesKarmicTail, CitesRelationships, Range
<1>11. Range(CitesMoney(P)) \subseteq Cards
  <2> DEFINE mid == Reduce[Specials(p).money + Specials(p).cross]
  <2>1. mid \in Cards
    BY <1>7, CardsAdd
  <2>2. P.channels.finance = <<Specials(p).money, mid, Specials(p).cross>>
    <3>1. Channels(p).finance = <<Specials(p).money, mid, Specials(p).cross>>
      BY DEF Channels
    <3> QED BY <1>2, <3>1
  <2>3. P.entries.money \in Cards
    <3>1. Chakras(p.day, p.center, p.year) \in AChakras
      BY <1>3, ChakrasAreCards
    <3> QED BY <1>2, <3>1 DEF AChakras
  <2> HIDE DEF mid
  <2>4. P.channels.finance \in Seq(Cards) /\ <<P.specials.money, P.entries.money>> \in Seq(Cards)
    BY <1>2, <1>7, <2>1, <2>2, <2>3
  <2>5. CitesMoney(P) = P.channels.finance \o <<P.specials.money, P.entries.money>>
    BY Zenon DEF CitesMoney
  <2> DEFINE more == <<P.specials.money, P.entries.money>>
  <2> HIDE DEF more
  <2>6. P.channels.finance \in Seq(Cards) /\ more \in Seq(Cards)
    BY <2>4 DEF more
  <2>7. CitesMoney(P) = P.channels.finance \o more
    BY <2>5 DEF more
  <2> QED BY <2>6, <2>7, ElementsOfBoth
<1>12. Range(CitesHarmonization(P)) \subseteq Cards /\ Range(CitesPowerCode(P)) \subseteq Cards
  BY <1>2, <1>3, <1>5 DEF CitesHarmonization, CitesPowerCode, Range
<1>13. Range(CitesTalents(P)) \subseteq Cards
  <2> DEFINE r == Ray(p.month, p.center)
  <2>1. P.channels.talents = r
    BY <1>2 DEF Channels
  <2>2. r = <<r[1], r[2], r[3]>> /\ r[1] \in Cards /\ r[2] \in Cards /\ r[3] \in Cards
    BY <1>3, RayOfCards
  <2> HIDE DEF r
  <2>3. P.channels.talents \in Seq(Cards) /\ <<P.personality.month>> \in Seq(Cards)
    <3>1. <<r[1], r[2], r[3]>> \in Seq(Cards)
      BY <2>2
    <3>2. <<p.month>> \in Seq(Cards)
      BY <1>3
    <3> QED BY <1>2, <2>1, <2>2, <3>1, <3>2, Zenon
  <2>4. CitesTalents(P) = P.channels.talents \o <<P.personality.month>>
    BY Zenon DEF CitesTalents
  <2> QED BY <2>3, <2>4, ElementsOfBoth
<1>14. Range(CitesAnahata(P)) \subseteq Cards
  BY <1>2, <1>3, <1>8 DEF CitesAnahata, AChakras, Range
<1>15. Range(CitesPurposes(P)) \subseteq Cards
  <2>1. \A i \in 1..8 : PurposesV3(P)[i][3] \in Cards
    BY <1>5, <1>6
  <2>2. \A i \in 1..4 : <<3, 6, 7, 8>>[i] \in 1..8
    OBVIOUS
  <2> QED BY <2>1, <2>2 DEF CitesPurposes, Range
<1>16. Range(CitesHealth(P)) \subseteq Cards
  <2> DEFINE up == <<"muladhara", "svadhisthana", "manipura", "anahata", "vishuddha", "adjna", "sahasrara">>
  <2>1. \A i \in 1..7 : P.chakras.sky[up[i]] \in Cards /\ P.chakras.earth[up[i]] \in Cards
    <3>1. \A k \in {"muladhara", "svadhisthana", "manipura", "anahata", "vishuddha", "adjna", "sahasrara"} :
             P.chakras.sky[k] \in Cards /\ P.chakras.earth[k] \in Cards
      BY <1>8 DEF AChakras
    <3>2. \A i \in 1..7 : up[i] \in {"muladhara", "svadhisthana", "manipura", "anahata", "vishuddha", "adjna", "sahasrara"}
      OBVIOUS
    <3> HIDE DEF up
    <3> QED BY <3>1, <3>2
  <2> DEFINE looked(i) == IF i <= 7 THEN P.chakras.sky[up[i]] ELSE P.chakras.earth[up[i - 7]]
  <2>2. CitesHealth(P) = [i \in 1..14 |-> looked(i)]
    BY DEF CitesHealth
  <2>3. ASSUME NEW i \in 1..14 PROVE looked(i) \in Cards
    <3>1. CASE i <= 7
      BY <2>1, <3>1
    <3>2. CASE ~(i <= 7)
      <4>1. i - 7 \in 1..7
        BY <3>2
      <4> QED BY <2>1, <3>2, <4>1
    <3> QED BY <3>1, <3>2
  <2> HIDE DEF looked, up
  <2> QED BY <2>2, <2>3 DEF Range
<1>17. \A i \in 1..8 : Range(CitesPurpose(P, i)) \subseteq Cards
  <2>1. ASSUME NEW i \in 1..8
        PROVE  \E a, b, c \in Cards : PurposesV3(P)[i] = <<a, b, c>>
    BY <1>3, <1>5, <1>6
  <2>2. \A a, b, c \in Cards : Range(<<a, b, c>>) \subseteq Cards
    BY DEF Range
  <2> QED BY <2>1, <2>2 DEF CitesPurpose
<1> DEFINE Fine == {first[i] : i \in 1..11} \cup {rest[i] : i \in 1..8}
<1>18. \A i \in 1..11 : Range(first[i]) \subseteq Cards
  <2> HIDE DEF first
  <2>1. /\ first[1] = CitesVisitka(P) /\ first[2] = CitesDrk(P) /\ first[3] = CitesKarmicTail(P)
        /\ first[4] = CitesRelationships(P) /\ first[5] = CitesMoney(P) /\ first[6] = CitesHarmonization(P)
        /\ first[7] = CitesTalents(P) /\ first[8] = CitesAnahata(P) /\ first[9] = CitesPurposes(P)
        /\ first[10] = CitesPowerCode(P) /\ first[11] = CitesHealth(P)
    BY DEF first
  <2>2. \A i \in 1..11 : i \in {1, 2, 3, 4, 5, 6, 7, 8, 9, 10, 11}
    OBVIOUS
  <2> QED BY <1>9, <1>10, <1>11, <1>12, <1>13, <1>14, <1>15, <1>16, <2>1, <2>2, Zenon
<1>19. \A i \in 1..8 : rest[i] = CitesPurpose(P, i)
  OBVIOUS
<1>20. first \in Seq(Fine) /\ rest \in Seq(Fine)
  <2>1. first = [i \in 1..11 |-> first[i]]
    OBVIOUS
  <2>2. rest = [i \in 1..8 |-> rest[i]]
    OBVIOUS
  <2> HIDE DEF first, rest
  <2> QED BY <2>1, <2>2
<1>21. CitedBy(P) = first \o rest
  BY Zenon DEF CitedBy, first, rest
<1>22. \A x \in Fine : Range(x) \subseteq Cards
  <2> HIDE DEF first, rest
  <2> QED BY <1>17, <1>18, <1>19
<1> HIDE DEF first, rest, Fine
<1>23. \A i \in DOMAIN (first \o rest) : (first \o rest)[i] \in Fine
  BY <1>20, ElementsOfBoth
<1> QED BY <1>21, <1>22, <1>23

(* The castes: each of the four numbers has one, so that the shares make up the whole. *)
LEMMA CastesShareTheWhole ==
  ASSUME NEW date \in [d : 1..31, m : 1..12, y : Nat \ {0}]
  PROVE  ShareOf(date, "Kshatriya") + ShareOf(date, "Brahman") + ShareOf(date, "Vaishya")
           + ShareOf(date, "Shudra") = 100
<1> DEFINE d == Reduce1[date.d]
           m == Reduce1[date.m]
           y == Reduce1[DigitSum[date.y]]
           of == <<Varna(d), Varna(m), Varna(y), Varna(Reduce1[d + m + y])>>
           Share(i, v) == IF of[i] = v THEN <<40, 10, 10, 40>>[i] ELSE 0
           shares == [v \in {of[i] : i \in 1..4} |-> Share(1, v) + Share(2, v) + Share(3, v) + Share(4, v)]
           Castes == {"Kshatriya", "Brahman", "Vaishya", "Shudra"}
<1>1. VarnaShares(date) = shares
  BY Zenon DEF VarnaShares, d, m, y, of, Share, shares
<1>2. \A n \in 1..9 : Varna(n) \in Castes
  <2>1. \A n \in 1..9 : n \in {1, 9} \/ n \in {3, 6} \/ n \in {2, 5} \/ n \in {4, 7, 8}
    OBVIOUS
  <2> QED BY <2>1 DEF Varna
<1>3. d \in 1..9 /\ m \in 1..9 /\ y \in 1..9
  <2>1. DigitSum[date.y] \in Nat /\ DigitSum[date.y] >= 1
    BY DigitSumBounds
  <2> QED BY <2>1, Reduced1
<1> HIDE DEF d, m, y
<1>4. Reduce1[d + m + y] \in 1..9
  <2>1. d + m + y \in Nat /\ d + m + y >= 1
    BY <1>3
  <2> QED BY <2>1, Reduced1
<1>5. of[1] \in Castes /\ of[2] \in Castes /\ of[3] \in Castes /\ of[4] \in Castes
  BY <1>2, <1>3, <1>4
<1> HIDE DEF of
<1>6. ASSUME NEW v \in Castes
      PROVE  ShareOf(date, v) = (IF of[1] = v THEN 40 ELSE 0) + (IF of[2] = v THEN 10 ELSE 0)
                                + (IF of[3] = v THEN 10 ELSE 0) + (IF of[4] = v THEN 40 ELSE 0)
  <2>1. v \in DOMAIN shares <=> of[1] = v \/ of[2] = v \/ of[3] = v \/ of[4] = v
    <3>1. \A i \in 1..4 : i \in {1, 2, 3, 4}
      OBVIOUS
    <3> QED BY <3>1
  <2>2. v \in DOMAIN shares => shares[v] = Share(1, v) + Share(2, v) + Share(3, v) + Share(4, v)
    OBVIOUS
  <2>3. /\ Share(1, v) = IF of[1] = v THEN 40 ELSE 0
        /\ Share(2, v) = IF of[2] = v THEN 10 ELSE 0
        /\ Share(3, v) = IF of[3] = v THEN 10 ELSE 0
        /\ Share(4, v) = IF of[4] = v THEN 40 ELSE 0
    OBVIOUS
  <2>4. ShareOf(date, v) = IF v \in DOMAIN shares THEN shares[v] ELSE 0
    BY <1>1, Zenon DEF ShareOf
  <2> HIDE DEF shares, Share
  <2> QED BY <2>1, <2>2, <2>3, <2>4
<1>7. /\ of[1] = "Kshatriya" \/ of[1] = "Brahman" \/ of[1] = "Vaishya" \/ of[1] = "Shudra"
      /\ of[2] = "Kshatriya" \/ of[2] = "Brahman" \/ of[2] = "Vaishya" \/ of[2] = "Shudra"
      /\ of[3] = "Kshatriya" \/ of[3] = "Brahman" \/ of[3] = "Vaishya" \/ of[3] = "Shudra"
      /\ of[4] = "Kshatriya" \/ of[4] = "Brahman" \/ of[4] = "Vaishya" \/ of[4] = "Shudra"
  BY <1>5
<1> DEFINE Sum(k, a) == (IF of[k] = "Kshatriya" THEN a ELSE 0) + (IF of[k] = "Brahman" THEN a ELSE 0)
                        + (IF of[k] = "Vaishya" THEN a ELSE 0) + (IF of[k] = "Shudra" THEN a ELSE 0)
<1>8. Sum(1, 40) = 40 /\ Sum(2, 10) = 10 /\ Sum(3, 10) = 10 /\ Sum(4, 40) = 40
  BY <1>7
<1>9. ShareOf(date, "Kshatriya") + ShareOf(date, "Brahman") + ShareOf(date, "Vaishya")
           + ShareOf(date, "Shudra") = Sum(1, 40) + Sum(2, 10) + Sum(3, 10) + Sum(4, 40)
  BY <1>6
<1> QED BY <1>8, <1>9

(* The year of a birthday that is still to come is the one that will begin on it. *)
LEMMA YearsAgree ==
  ASSUME NEW born \in [d : 1..31, m : 1..12, y : Nat \ {0}], NEW on \in [d : 1..31, m : 1..12, y : Nat \ {0}]
  PROVE  /\ Range(CitesYear(born, on)) \subseteq Cards
         /\ ~HadBirthday(born, on) =>
              YearEnergy(born, on).upcoming = YearEnergy(born, [born EXCEPT !.y = on.y]).current
<1> DEFINE Of(y) == Reduce[Reduce[born.d] + Reduce[born.m] + Reduce[DigitSum[y]]]
           Year(day) == IF HadBirthday(born, day) THEN day.y ELSE day.y - 1
<1>1. ASSUME NEW day PROVE YearEnergy(born, day) = [current |-> Of(Year(day)), upcoming |-> Of(Year(day) + 1)]
  BY Zenon DEF YearEnergy, Of, Year
<1>2. \A y \in Nat : Of(y) \in Cards
  <2> SUFFICES ASSUME NEW y \in Nat PROVE Of(y) \in Cards
    OBVIOUS
  <2>1. Reduce[born.d] \in Cards /\ Reduce[born.m] \in Cards
    BY ReduceBounds
  <2>2. Reduce[DigitSum[y]] \in 0..22
    BY ReduceBounds, DigitSumBounds
  <2> DEFINE sum == Reduce[born.d] + Reduce[born.m] + Reduce[DigitSum[y]]
  <2>3. sum \in Nat /\ sum >= 1
    BY <2>1, <2>2 DEF Cards
  <2> HIDE DEF sum
  <2>4. Reduce[sum] \in Cards
    BY <2>3, ReduceBounds
  <2> QED BY <2>4 DEF sum
<1> HIDE DEF Of
<1>3. Year(on) \in Nat /\ Year(on) + 1 \in Nat
  OBVIOUS
<1>4. Range(CitesYear(born, on)) \subseteq Cards
  <2> HIDE DEF Year
  <2>1. CitesYear(born, on) = <<Of(Year(on)), Of(Year(on) + 1)>>
    BY <1>1 DEF CitesYear
  <2> QED BY <1>2, <1>3, <2>1 DEF Range
<1>5. ASSUME ~HadBirthday(born, on)
      PROVE  YearEnergy(born, on).upcoming = YearEnergy(born, [born EXCEPT !.y = on.y]).current
  <2> DEFINE feast == [born EXCEPT !.y = on.y]
  <2>1. feast.y = on.y /\ feast.d = born.d /\ feast.m = born.m
    OBVIOUS
  <2> HIDE DEF feast
  <2>2. Year(feast) = on.y
    <3>1. HadBirthday(born, feast)
      BY <2>1 DEF HadBirthday
    <3> QED BY <2>1, <3>1
  <2>3. Year(on) + 1 = on.y
    BY <1>5
  <2> HIDE DEF Year
  <2>4. YearEnergy(born, on).upcoming = Of(on.y) /\ YearEnergy(born, feast).current = Of(on.y)
    BY <1>1, <2>2, <2>3
  <2> QED BY <2>4 DEF feast
<1> QED BY <1>4, <1>5

LEMMA PayloadAgrees ==
  ASSUME NEW date \in [d : 1..31, m : 1..12, y : Nat \ {0}], NEW P, P = Payload(date)
  PROVE  /\ [i \in 1..8 |-> PurposesV3(P)[i][3]] =
              <<P.lines.sky, P.lines.earth, P.lines.personal, P.lines.father, P.lines.mother, P.lines.social,
                P.lines.spiritual, P.lines.planetary>>
         /\ P.family.male_upper = <<P.channels.father_talents[2], P.channels.father_talents[1]>>
         /\ P.family.male_lower = <<P.channels.father_karma[2], P.channels.father_karma[1]>>
         /\ P.family.female_upper = <<P.channels.mother_talents[2], P.channels.mother_talents[1]>>
         /\ P.family.female_lower = <<P.channels.mother_karma[2], P.channels.mother_karma[1]>>
         /\ KarmicKey(P) = P.karmic_program
         /\ P.entries = [money |-> P.specials.money, partner |-> P.specials.love]
<1> DEFINE p == Points(date)
           L == Lines(p)
<1>1. p \in APoint
  BY PointsAreCards
<1>2. /\ P.personality = p /\ P.lines = L /\ P.channels = Channels(p) /\ P.specials = Specials(p)
      /\ P.karmic_program = <<Specials(p).love, Ray(p.bottom, p.center)[1], p.bottom>>
      /\ P.family.male_upper = HalfDiag(p.tl, p.center) /\ P.family.male_lower = HalfDiag(p.br, p.center)
      /\ P.family.female_upper = HalfDiag(p.tr, p.center) /\ P.family.female_lower = HalfDiag(p.bl, p.center)
      /\ P.entries = [money |-> Chakras(p.day, p.center, p.year).svadhisthana,
                      partner |-> Chakras(p.month, p.center, p.bottom).svadhisthana]
  <2> HIDE DEF L
  <2>1. P.lines = L
    BY DEF Payload, L
  <2> HIDE DEF p
  <2>2. p = Points(date)
    BY DEF p
  <2> QED BY <2>1, <2>2 DEF Payload
<1>3. p.tl \in Cards /\ p.tr \in Cards /\ p.br \in Cards /\ p.bl \in Cards /\ p.center \in Cards
      /\ p.day \in Cards /\ p.month \in Cards /\ p.year \in Cards /\ p.bottom \in Cards
  BY <1>1 DEF APoint
<1>4. PurposesV3(P) = <<<<p.month, p.bottom, L.sky>>, <<p.day, p.year, L.earth>>,
                        <<L.sky, L.earth, L.personal>>, <<p.tl, p.br, L.father>>,
                        <<p.tr, p.bl, L.mother>>, <<L.father, L.mother, L.social>>,
                        <<L.personal, L.social, L.spiritual>>, <<L.social, L.spiritual, L.planetary>>>>
  BY <1>2, PurposesAre, Zenon
<1> HIDE DEF p, L
<1>5. [i \in 1..8 |-> PurposesV3(P)[i][3]] =
        <<L.sky, L.earth, L.personal, L.father, L.mother, L.social, L.spiritual, L.planetary>>
  BY <1>4
<1>6. /\ P.channels.father_talents = Ray(p.tl, p.center) /\ P.channels.father_karma = Ray(p.br, p.center)
      /\ P.channels.mother_talents = Ray(p.tr, p.center) /\ P.channels.mother_karma = Ray(p.bl, p.center)
      /\ P.channels.karmic_tail = Ray(p.bottom, p.center)
  BY <1>2 DEF Channels
<1>7. \A a, c \in Cards : HalfDiag(a, c) = <<Ray(a, c)[2], Ray(a, c)[1]>>
  BY RayOfCards
<1>8. KarmicKey(P) = P.karmic_program
  BY <1>2, <1>6 DEF KarmicKey
<1>9. /\ Chakras(p.day, p.center, p.year).svadhisthana = Specials(p).money
      /\ Chakras(p.month, p.center, p.bottom).svadhisthana = Specials(p).love
  <2>1. /\ Chakras(p.day, p.center, p.year).svadhisthana = Reduce[p.center + p.year]
        /\ Chakras(p.month, p.center, p.bottom).svadhisthana = Reduce[p.center + p.bottom]
    BY DEF Chakras
  <2>2. p.center + p.year = p.year + p.center /\ p.center + p.bottom = p.bottom + p.center
    BY <1>3 DEF Cards
  <2> QED BY <1>1, <2>1, <2>2, SpecialsAreCards
<1> QED BY <1>2, <1>3, <1>5, <1>6, <1>7, <1>8, <1>9

(* A reading's numbers are those of its birth date. *)
ArcanaInv == birth \in BirthDates /\ (matrix # <<>> => matrix = Payload(birth))

(* For every date: what a section looks up is a card, what is computed twice agrees,
   and the years turn over on the birthday. *)
THEOREM ArcanaAgreeHolds == ArcanaSpec => []ArcanaAgree
<1>1. ArcanaInit => ArcanaInv
  BY DEF ArcanaInit, ArcanaInv
<1>2. ArcanaInv /\ [ArcanaNext]_arcanaVars => ArcanaInv'
  BY DEF ArcanaInv, ArcanaNext, CalculateMatrix, arcanaVars
<1>3. ArcanaInv => ArcanaAgree
  <2> SUFFICES ASSUME ArcanaInv, matrix # <<>> PROVE ArcanaAgree
    BY DEF ArcanaAgree
  <2>1. birth \in [d : 1..31, m : 1..12, y : Nat \ {0}] /\ matrix = Payload(birth)
    BY ArcanaAssumption DEF ArcanaInv
  <2>2. \A on \in SomeDays : on \in [d : 1..31, m : 1..12, y : Nat \ {0}]
    BY ArcanaAssumption
  <2>3. \A i \in DOMAIN CitedBy(matrix) : Range(CitedBy(matrix)[i]) \subseteq Cards
    BY <2>1, CitedAreCards
  <2>4. \A on \in SomeDays :
          /\ Range(CitesYear(birth, on)) \subseteq Cards
          /\ ~HadBirthday(birth, on) =>
               YearEnergy(birth, on).upcoming = YearEnergy(birth, [birth EXCEPT !.y = on.y]).current
    BY <2>1, <2>2, YearsAgree
  <2>5. ShareOf(birth, "Kshatriya") + ShareOf(birth, "Brahman") + ShareOf(birth, "Vaishya")
           + ShareOf(birth, "Shudra") = 100
    BY <2>1, CastesShareTheWhole
  <2> DEFINE Pairs == {<<matrix.family.male_upper, matrix.channels.father_talents>>,
                       <<matrix.family.male_lower, matrix.channels.father_karma>>,
                       <<matrix.family.female_upper, matrix.channels.mother_talents>>,
                       <<matrix.family.female_lower, matrix.channels.mother_karma>>}
  <2>6. \A f \in Pairs : f[1] = <<f[2][2], f[2][1]>>
    <3> DEFINE P == matrix
    <3>1. P = Payload(birth)
      BY <2>1
    <3> HIDE DEF P
    <3>2. /\ P.family.male_upper = <<P.channels.father_talents[2], P.channels.father_talents[1]>>
          /\ P.family.male_lower = <<P.channels.father_karma[2], P.channels.father_karma[1]>>
          /\ P.family.female_upper = <<P.channels.mother_talents[2], P.channels.mother_talents[1]>>
          /\ P.family.female_lower = <<P.channels.mother_karma[2], P.channels.mother_karma[1]>>
      BY <2>1, <3>1, PayloadAgrees
    <3> QED BY <3>2 DEF P
  <2>7. /\ [i \in 1..8 |-> PurposesV3(matrix)[i][3]] =
             <<matrix.lines.sky, matrix.lines.earth, matrix.lines.personal, matrix.lines.father,
               matrix.lines.mother, matrix.lines.social, matrix.lines.spiritual, matrix.lines.planetary>>
        /\ KarmicKey(matrix) = matrix.karmic_program
        /\ matrix.entries = [money |-> matrix.specials.money, partner |-> matrix.specials.love]
    BY <2>1, PayloadAgrees
  <2> QED BY <2>3, <2>4, <2>5, <2>6, <2>7, Zenon DEF ArcanaAgree, CitedBy
<1> QED BY <1>1, <1>2, <1>3, PTL DEF ArcanaSpec

-----------------------------------------------------------------------------
(* The sky (SkyEvents).  Two degrees are as far apart as the shorter arc between
   them, whichever comes first; that is what Meets says without a wrap. *)

MajorSet == {"conjunction", "sextile", "square", "trine", "opposition"}
LEMMA MajorsAre ==
  /\ DOMAIN Majors = 1..5 /\ ToSet(Majors) = MajorSet
  /\ Majors[1] = "conjunction" /\ Majors[2] = "sextile" /\ Majors[3] = "square"
  /\ Majors[4] = "trine" /\ Majors[5] = "opposition"
  /\ \A a \in MajorSet : \E k \in 1..5 : a = Majors[k]
<1>1. /\ DOMAIN Majors = 1..5
      /\ Majors[1] = "conjunction" /\ Majors[2] = "sextile" /\ Majors[3] = "square"
      /\ Majors[4] = "trine" /\ Majors[5] = "opposition"
  BY DEF Majors
<1>2. 1..5 = {1, 2, 3, 4, 5}
  OBVIOUS
<1>3. ToSet(Majors) = MajorSet
  BY <1>1, <1>2 DEF ToSet, MajorSet
<1>4. \A a \in MajorSet : \E k \in 1..5 : a = Majors[k]
  BY <1>1, <1>2 DEF MajorSet
<1> QED BY <1>1, <1>3, <1>4

LEMMA DegreeIs == Degree \in Nat /\ Degree > 0 /\ Circle = 360 * Degree /\ Circle \in Nat
BY DEF Degree, Circle

LEMMA ExactIs ==
  /\ \A a \in MajorSet : Exact[a] \in 0..180 * Degree
  /\ \A a, b \in MajorSet : a # b => Exact[a] - Exact[b] > 20 * Degree \/ Exact[b] - Exact[a] > 20 * Degree
BY DegreeIs DEF Exact, MajorSet

LEMMA Arcs ==
  ASSUME NEW x \in Degrees, NEW y \in Degrees
  PROVE  /\ Distance(x, y) \in 0..180 * Degree /\ Distance(x, y) = Distance(y, x)
         /\ \/ Distance(x, y) = x - y \/ Distance(x, y) = y - x
            \/ Distance(x, y) = Circle + x - y \/ Distance(x, y) = Circle + y - x
         /\ Distance(x, y) <= x - y \/ Distance(x, y) <= y - x
         /\ x \in Nat /\ y \in Nat /\ x < Circle /\ y < Circle
<1> DEFINE d == IF x < y THEN y - x ELSE x - y
           e == IF y < x THEN x - y ELSE y - x
<1>1. x \in Nat /\ y \in Nat /\ x < Circle /\ y < Circle
  BY DegreeIs DEF Degrees
<1>2. d \in Nat /\ d < Circle /\ e = d /\ (d = y - x \/ d = x - y) /\ (d <= x - y \/ d <= y - x)
  BY <1>1, DegreeIs
<1>3. /\ Distance(x, y) = IF d % Circle < Circle - (d % Circle) THEN d % Circle ELSE Circle - (d % Circle)
      /\ Distance(y, x) = IF e % Circle < Circle - (e % Circle) THEN e % Circle ELSE Circle - (e % Circle)
  BY Zenon DEF Distance, d, e
<1> HIDE DEF d, e
<1>4. d % Circle = d
  BY <1>2, DegreeIs
<1>5. /\ Distance(x, y) = IF d < Circle - d THEN d ELSE Circle - d
      /\ Distance(y, x) = IF d < Circle - d THEN d ELSE Circle - d
  BY <1>2, <1>3, <1>4, Zenon
<1> QED BY <1>1, <1>2, <1>5, DegreeIs

LEMMA OrbIs ==
  ASSUME NEW x \in Degrees, NEW y \in Degrees, NEW a \in MajorSet
  PROVE  /\ OrbOf(x, y, a) \in Nat /\ OrbOf(x, y, a) = OrbOf(y, x, a)
         /\ \A n \in Nat : OrbOf(x, y, a) <= n <=>
              Distance(x, y) - Exact[a] <= n /\ Exact[a] - Distance(x, y) <= n
<1> DEFINE D == Distance(x, y)
           E == Exact[a]
<1>1. D \in 0..180 * Degree /\ D = Distance(y, x) /\ E \in 0..180 * Degree
  BY Arcs, ExactIs
<1>2. OrbOf(x, y, a) = (IF D - E < 0 THEN -(D - E) ELSE D - E) /\ OrbOf(y, x, a) = OrbOf(x, y, a)
  BY <1>1 DEF OrbOf
<1> HIDE DEF D, E
<1>3. OrbOf(x, y, a) \in Nat /\ \A n \in Nat : OrbOf(x, y, a) <= n <=> D - E <= n /\ E - D <= n
  BY <1>1, <1>2
<1> QED BY <1>2, <1>3 DEF D, E

(* A longitude that moves by an arc comes no more than that arc further from an aspect. *)
LEMMA ArcsAdd ==
  ASSUME NEW x \in Degrees, NEW y \in Degrees, NEW z \in Degrees
  PROVE  /\ Distance(x, z) <= Distance(x, y) + Distance(y, z)
         /\ Distance(y, z) <= Distance(x, y) + Distance(x, z)
<1>1. ASSUME NEW u \in Degrees, NEW v \in Degrees
      PROVE  /\ Distance(u, v) \in Nat /\ Distance(u, v) = Distance(v, u)
             /\ \/ Distance(u, v) = u - v \/ Distance(u, v) = v - u
                \/ Distance(u, v) = Circle + u - v \/ Distance(u, v) = Circle + v - u
             /\ Distance(u, v) <= u - v \/ Distance(u, v) <= v - u
             /\ Distance(u, v) <= Circle + u - v /\ Distance(u, v) <= Circle + v - u
  <2>1. /\ Distance(u, v) \in 0..180 * Degree /\ Distance(u, v) = Distance(v, u)
        /\ \/ Distance(u, v) = u - v \/ Distance(u, v) = v - u
           \/ Distance(u, v) = Circle + u - v \/ Distance(u, v) = Circle + v - u
        /\ Distance(u, v) <= u - v \/ Distance(u, v) <= v - u
        /\ u \in Nat /\ v \in Nat /\ u < Circle /\ v < Circle
    BY Arcs
  <2> DEFINE D == Distance(u, v)
             C == Circle
  <2>2. C = 360 * Degree /\ Degree \in Nat
    BY DegreeIs
  <2> HIDE DEF D, C
  <2>3. D <= C + u - v /\ D <= C + v - u
    BY <2>1, <2>2 DEF D, C
  <2> QED BY <2>1, <2>2, <2>3 DEF D, C
<1> DEFINE A == Distance(x, y)
           B == Distance(y, z)
           E == Distance(x, z)
           C == Circle
<1>2. /\ A \in Nat /\ B \in Nat /\ E \in Nat /\ x \in Nat /\ y \in Nat /\ z \in Nat /\ C \in Nat
      /\ x < C /\ y < C /\ z < C
  BY <1>1, Arcs, DegreeIs
<1>3. /\ A = x - y \/ A = y - x \/ A = C + x - y \/ A = C + y - x
      /\ B = y - z \/ B = z - y \/ B = C + y - z \/ B = C + z - y
      /\ E = x - z \/ E = z - x \/ E = C + x - z \/ E = C + z - x
  BY <1>1
<1>4. /\ E <= x - z \/ E <= z - x
      /\ E <= C + x - z /\ E <= C + z - x
      /\ B <= y - z \/ B <= z - y
      /\ B <= C + y - z /\ B <= C + z - y
  BY <1>1
<1> HIDE DEF A, B, C, E
<1>5. E <= A + B
  BY <1>2, <1>3, <1>4
<1>6. B <= A + E
  BY <1>2, <1>3, <1>4
<1> QED BY <1>5, <1>6 DEF A, B, E

LEMMA OrbMoves ==
  ASSUME NEW x \in Degrees, NEW y \in Degrees, NEW z \in Degrees, NEW a \in MajorSet
  PROVE  OrbOf(x, z, a) <= OrbOf(y, z, a) + Distance(x, y)
<1> DEFINE D == Distance(x, y)
           P == Distance(x, z)
           Q == Distance(y, z)
           E == Exact[a]
           o == OrbOf(y, z, a)
<1>1. D \in Nat /\ P \in Nat /\ Q \in Nat /\ E \in Nat /\ o \in Nat
  BY Arcs, OrbIs, ExactIs, DegreeIs
<1>2. P <= D + Q /\ Q <= D + P
  BY ArcsAdd
<1>3. Q - E <= o /\ E - Q <= o
  BY <1>1, OrbIs
<1>4. \A n \in Nat : OrbOf(x, z, a) <= n <=> P - E <= n /\ E - P <= n
  BY OrbIs
<1> HIDE DEF D, P, Q, E, o
<1>5. P - E <= o + D /\ E - P <= o + D /\ o + D \in Nat
  BY <1>1, <1>2, <1>3
<1> QED BY <1>4, <1>5 DEF o, D

LEMMA MeetsIs ==
  ASSUME NEW x \in Degrees, NEW y \in Degrees, NEW a \in MajorSet, NEW limit \in Nat
  PROVE  Meets(x, y, a, limit) <=> OrbOf(x, y, a) <= limit
<1> DEFINE D == Distance(x, y)
           E == Exact[a]
           C == Circle
           Near(v) == -limit <= v /\ v <= limit
<1>1. /\ D \in 0..180 * Degree
      /\ D = x - y \/ D = y - x \/ D = C + x - y \/ D = C + y - x
      /\ D <= x - y \/ D <= y - x
      /\ x \in Nat /\ y \in Nat /\ x < C /\ y < C /\ C = 360 * Degree /\ Degree \in Nat
  BY Arcs, DegreeIs
<1>2. E \in 0..180 * Degree
  BY ExactIs
<1>3. Meets(x, y, a, limit) <=>
        \E turn \in {-C, 0, C} : \E side \in {-1, 1} : Near(x - y + turn - side * E)
  BY Zenon DEF Meets, Near, C, E
<1> HIDE DEF C, D, E
<1> DEFINE P(turn, side) == Near(x - y + turn - side * E)
<1>4. /\ x - y + (-C) - (-1) * E = x - y - C + E /\ x - y + (-C) - 1 * E = x - y - C - E
      /\ x - y + 0 - (-1) * E = x - y + E /\ x - y + 0 - 1 * E = x - y - E
      /\ x - y + C - (-1) * E = x - y + C + E /\ x - y + C - 1 * E = x - y + C - E
  BY <1>1, <1>2
<1>5. Meets(x, y, a, limit) <=>
        \/ Near(x - y - C + E) \/ Near(x - y - C - E)
        \/ Near(x - y + E) \/ Near(x - y - E)
        \/ Near(x - y + C + E) \/ Near(x - y + C - E)
  <2> HIDE DEF Near
  <2>1. /\ P(-C, -1) = Near(x - y - C + E) /\ P(-C, 1) = Near(x - y - C - E)
        /\ P(0, -1) = Near(x - y + E) /\ P(0, 1) = Near(x - y - E)
        /\ P(C, -1) = Near(x - y + C + E) /\ P(C, 1) = Near(x - y + C - E)
    BY <1>4
  <2> HIDE DEF P
  <2>2. Meets(x, y, a, limit) <=> \E turn \in {-C, 0, C} : \E side \in {-1, 1} : P(turn, side)
    BY <1>3 DEF P
  <2>3. (\E turn \in {-C, 0, C} : \E side \in {-1, 1} : P(turn, side)) <=>
          \/ P(-C, -1) \/ P(-C, 1) \/ P(0, -1) \/ P(0, 1) \/ P(C, -1) \/ P(C, 1)
    BY Zenon
  <2> QED BY <2>1, <2>2, <2>3
<1>6. Meets(x, y, a, limit) <=> (D - E <= limit /\ E - D <= limit)
  <2>1. ASSUME D - E <= limit, E - D <= limit PROVE Meets(x, y, a, limit)
    BY <1>1, <1>2, <1>5, <2>1
  <2>2. ASSUME Meets(x, y, a, limit) PROVE D - E <= limit /\ E - D <= limit
    BY <1>1, <1>2, <1>5, <2>2
  <2> QED BY <2>1, <2>2
<1> QED BY <1>6, OrbIs DEF D, E
-----------------------------------------------------------------------------
(* The aspects of a chart.  Two of the five are further from each other than twice
   any limit, so at most one is made by two planets. *)

LEMMA OrderIs ==
  /\ \A p \in Planetary : \E i \in 1..10 : p = Order[i]
  /\ \A i \in 1..10 : Order[i] \in Planetary
  /\ \A i, j \in 1..10 : Order[i] = Order[j] => i = j
  /\ "ascendant" \notin Planetary
<1> DEFINE N == {1, 2, 3, 4, 5, 6, 7, 8, 9, 10}
<1>1. 1..10 = N
  OBVIOUS
<1>2. \A i, j \in N : Order[i] = Order[j] => i = j
  BY DEF Order
<1>3. \A i \in N : Order[i] # "ascendant"
  BY DEF Order
<1> HIDE DEF N
<1> QED BY <1>1, <1>2, <1>3 DEF Planetary

LEMMA LimitIs ==
  ASSUME NEW p, NEW q
  PROVE  OrbLimit(p, q) \in Nat /\ OrbLimit(p, q) <= 8 * Degree /\ OrbLimit(q, p) = OrbLimit(p, q)
<1>1. OrbLimit(p, q) = 8 * Degree \/ OrbLimit(p, q) = 6 * Degree
  BY DEF OrbLimit
<1>2. {p, q} = {q, p}
  OBVIOUS
<1>3. OrbLimit(q, p) = OrbLimit(p, q)
  BY <1>2 DEF OrbLimit
<1> QED BY <1>1, <1>3, DegreeIs

LEMMA BirthIs ==
  ASSUME NEW b \in SkBirths
  PROVE  /\ "sun" \in DOMAIN b /\ \A p \in DOMAIN b : b[p] \in Degrees
         /\ PlanetsOf(b) \subseteq Planetary /\ PlanetsOf(b) \subseteq DOMAIN b
         /\ \A p \in DOMAIN b : p \in Planetary => p \in PlanetsOf(b)
<1>1. "sun" \in DOMAIN b /\ b \in [DOMAIN b -> Degrees] /\ DOMAIN b \subseteq Planetary \cup {"ascendant"}
  BY SkyAssumption
<1> QED BY <1>1, OrderIs DEF PlanetsOf

LEMMA OneFits ==
  ASSUME NEW b \in SkBirths, NEW p \in PlanetsOf(b), NEW q \in PlanetsOf(b)
  PROVE  /\ \A k \in Fits(b, p, q) : /\ k \in 1..5 /\ Min(Fits(b, p, q)) = k
                                     /\ OrbOf(b[p], b[q], Majors[k]) <= OrbLimit(p, q)
         /\ \A k \in 1..5 : OrbOf(b[p], b[q], Majors[k]) <= OrbLimit(p, q) => k \in Fits(b, p, q)
<1> DEFINE D == Distance(b[p], b[q])
           F == Fits(b, p, q)
<1>1. b[p] \in Degrees /\ b[q] \in Degrees
  BY BirthIs
<1>2. D \in Nat
  BY <1>1, Arcs, DegreeIs
<1>3. F = {k \in 1..5 : OrbOf(b[p], b[q], Majors[k]) <= OrbLimit(p, q)}
  BY MajorsAre DEF Fits
<1>4. ASSUME NEW k \in F
      PROVE  k \in 1..5 /\ Majors[k] \in MajorSet /\ D - Exact[Majors[k]] <= 8 * Degree /\ Exact[Majors[k]] - D <= 8 * Degree
  <2>1. k \in 1..5 /\ OrbOf(b[p], b[q], Majors[k]) <= OrbLimit(p, q)
    BY <1>3
  <2>2. Majors[k] \in MajorSet
    BY <2>1, MajorsAre DEF MajorSet
  <2>3. OrbLimit(p, q) \in Nat /\ OrbLimit(p, q) <= 8 * Degree
    BY LimitIs
  <2>4. D - Exact[Majors[k]] <= OrbLimit(p, q) /\ Exact[Majors[k]] - D <= OrbLimit(p, q)
    BY <1>1, <2>1, <2>2, <2>3, OrbIs
  <2>5. Exact[Majors[k]] \in Nat
    BY <2>2, ExactIs, DegreeIs
  <2> HIDE DEF D
  <2> QED BY <1>2, <2>1, <2>2, <2>3, <2>4, <2>5, DegreeIs
<1>5. ASSUME NEW k \in F, NEW l \in F PROVE k = l
  <2> DEFINE A == Exact[Majors[k]]
             B == Exact[Majors[l]]
  <2>1. /\ k \in 1..5 /\ l \in 1..5 /\ Majors[k] \in MajorSet /\ Majors[l] \in MajorSet
        /\ D - A <= 8 * Degree /\ A - D <= 8 * Degree /\ D - B <= 8 * Degree /\ B - D <= 8 * Degree
    BY <1>4
  <2>2. A \in Nat /\ B \in Nat /\ (Majors[k] # Majors[l] => A - B > 20 * Degree \/ B - A > 20 * Degree)
    BY <2>1, ExactIs, DegreeIs
  <2> HIDE DEF A, B, D
  <2>3. Majors[k] = Majors[l]
    BY <1>2, <2>1, <2>2, DegreeIs
  <2> QED BY <2>1, <2>3, MajorsAre
<1>6. ASSUME NEW k \in F PROVE Min(F) = k
  <2>1. F = {k} /\ k \in Int
    BY <1>4, <1>5
  <2> HIDE DEF F
  <2>2. \E x \in F : \A y \in F : x <= y
    BY <2>1
  <2>3. Min(F) \in F
    BY <2>2 DEF Min
  <2> QED BY <2>1, <2>3
<1> QED BY <1>3, <1>4, <1>6

AspectBetween(b, p, q) ==
  LET first == Majors[Min(Fits(b, p, q))]
  IN [p1 |-> p, p2 |-> q, aspect |-> first, orb |-> Hundredths(OrbOf(b[p], b[q], first))]
LEMMA AspectsAre ==
  ASSUME NEW b
  PROVE  \A x : x \in AspectsOf(b) <=>
           \E i, j \in 1..10 : /\ i < j /\ Order[i] \in DOMAIN b /\ Order[j] \in DOMAIN b
                               /\ Fits(b, Order[i], Order[j]) # {} /\ x = AspectBetween(b, Order[i], Order[j])
<1> DEFINE pairs == {x \in (1..10) \X (1..10) :
                       /\ x[1] < x[2] /\ {Order[x[1]], Order[x[2]]} \subseteq DOMAIN b
                       /\ Fits(b, Order[x[1]], Order[x[2]]) # {}}
<1>1. AspectsOf(b) = {AspectBetween(b, Order[x[1]], Order[x[2]]) : x \in pairs}
  BY Zenon DEF AspectsOf, AspectBetween
<1>2. \A i, j \in 1..10 :
        <<i, j>> \in pairs <=> /\ i < j /\ Order[i] \in DOMAIN b /\ Order[j] \in DOMAIN b
                               /\ Fits(b, Order[i], Order[j]) # {}
  OBVIOUS
<1>3. \A x \in pairs : x[1] \in 1..10 /\ x[2] \in 1..10 /\ x = <<x[1], x[2]>>
  OBVIOUS
<1> HIDE DEF pairs
<1> QED BY <1>1, <1>2, <1>3

LEMMA AspectIs ==
  ASSUME NEW b \in SkBirths, NEW i \in 1..10, NEW j \in 1..10, Order[i] \in DOMAIN b, Order[j] \in DOMAIN b,
         NEW k \in Fits(b, Order[i], Order[j])
  PROVE  LET x == AspectBetween(b, Order[i], Order[j])
         IN x.p1 = Order[i] /\ x.p2 = Order[j] /\ x.aspect = Majors[k]
<1>1. Order[i] \in PlanetsOf(b) /\ Order[j] \in PlanetsOf(b)
  BY OrderIs, BirthIs
<1>2. Min(Fits(b, Order[i], Order[j])) = k
  BY <1>1, OneFits
<1> QED BY <1>2 DEF AspectBetween

LEMMA AspectMade ==
  ASSUME NEW b \in SkBirths, NEW p \in PlanetsOf(b), NEW q \in PlanetsOf(b), NEW a \in MajorSet, p # q
  PROVE  (\E x \in AspectsOf(b) : {x.p1, x.p2} = {p, q} /\ x.aspect = a) <=> OrbOf(b[p], b[q], a) <= OrbLimit(p, q)
<1>1. b[p] \in Degrees /\ b[q] \in Degrees /\ p \in Planetary /\ q \in Planetary /\ p \in DOMAIN b /\ q \in DOMAIN b
  BY BirthIs
<1>2. PICK i \in 1..10 : p = Order[i]
  BY <1>1, OrderIs
<1>3. PICK j \in 1..10 : q = Order[j]
  BY <1>1, OrderIs
<1>4. PICK k \in 1..5 : a = Majors[k]
  BY MajorsAre
<1>5. OrbOf(b[p], b[q], a) = OrbOf(b[q], b[p], a) /\ OrbLimit(p, q) = OrbLimit(q, p)
  BY <1>1, OrbIs, LimitIs
<1>6. ASSUME OrbOf(b[p], b[q], a) <= OrbLimit(p, q)
      PROVE  \E x \in AspectsOf(b) : {x.p1, x.p2} = {p, q} /\ x.aspect = a
  <2>1. k \in Fits(b, p, q) /\ k \in Fits(b, q, p)
    BY <1>4, <1>5, <1>6, OneFits
  <2>2. CASE i < j
    <3>1. AspectBetween(b, p, q) \in AspectsOf(b)
      BY <1>1, <1>2, <1>3, <2>1, <2>2, AspectsAre
    <3>2. LET x == AspectBetween(b, p, q) IN x.p1 = p /\ x.p2 = q /\ x.aspect = a
      BY <1>1, <1>2, <1>3, <1>4, <2>1, AspectIs
    <3> QED BY <3>1, <3>2
  <2>3. CASE j < i
    <3>1. AspectBetween(b, q, p) \in AspectsOf(b)
      BY <1>1, <1>2, <1>3, <2>1, <2>3, AspectsAre
    <3>2. LET x == AspectBetween(b, q, p) IN x.p1 = q /\ x.p2 = p /\ x.aspect = a
      BY <1>1, <1>2, <1>3, <1>4, <2>1, AspectIs
    <3>3. {q, p} = {p, q}
      OBVIOUS
    <3> QED BY <3>1, <3>2, <3>3
  <2> QED BY <1>2, <1>3, <2>2, <2>3
<1>7. ASSUME NEW x \in AspectsOf(b), {x.p1, x.p2} = {p, q}, x.aspect = a
      PROVE  OrbOf(b[p], b[q], a) <= OrbLimit(p, q)
  <2>1. PICK m, n \in 1..10 : /\ m < n /\ Order[m] \in DOMAIN b /\ Order[n] \in DOMAIN b
                              /\ Fits(b, Order[m], Order[n]) # {} /\ x = AspectBetween(b, Order[m], Order[n])
    BY AspectsAre
  <2>2. PICK l : l \in Fits(b, Order[m], Order[n])
    BY <2>1
  <2>3. x.p1 = Order[m] /\ x.p2 = Order[n] /\ x.aspect = Majors[l]
    BY <2>1, <2>2, AspectIs
  <2>4. Order[m] \in PlanetsOf(b) /\ Order[n] \in PlanetsOf(b)
    BY <2>1, OrderIs, BirthIs
  <2>5. OrbOf(b[Order[m]], b[Order[n]], a) <= OrbLimit(Order[m], Order[n])
    BY <1>7, <2>2, <2>3, <2>4, OneFits
  <2>6. (Order[m] = p /\ Order[n] = q) \/ (Order[m] = q /\ Order[n] = p)
    BY <1>7, <2>3
  <2> QED BY <1>5, <2>5, <2>6
<1> QED BY <1>6, <1>7

LEMMA OneAspectOfTwo ==
  ASSUME NEW b \in SkBirths, NEW x \in AspectsOf(b), NEW y \in AspectsOf(b), {x.p1, x.p2} = {y.p1, y.p2}
  PROVE  x = y
<1>1. PICK i, j \in 1..10 : /\ i < j /\ Order[i] \in DOMAIN b /\ Order[j] \in DOMAIN b
                            /\ Fits(b, Order[i], Order[j]) # {} /\ x = AspectBetween(b, Order[i], Order[j])
  BY AspectsAre
<1>2. PICK m, n \in 1..10 : /\ m < n /\ Order[m] \in DOMAIN b /\ Order[n] \in DOMAIN b
                            /\ Fits(b, Order[m], Order[n]) # {} /\ y = AspectBetween(b, Order[m], Order[n])
  BY AspectsAre
<1>3. x.p1 = Order[i] /\ x.p2 = Order[j] /\ y.p1 = Order[m] /\ y.p2 = Order[n]
  BY <1>1, <1>2, AspectIs
<1>4. (i = m /\ j = n) \/ (i = n /\ j = m)
  BY <1>3, OrderIs
<1>5. i = m /\ j = n
  BY <1>1, <1>2, <1>4
<1> QED BY <1>1, <1>2, <1>5

LEMMA PairsEitherWay ==
  ASSUME NEW b \in SkBirths, NEW t \in PairAspectsOf(b, b)
  PROVE  <<t[2], t[1], t[3]>> \in PairAspectsOf(b, b)
<1>1. /\ t[1] \in PlanetsOf(b) /\ t[2] \in PlanetsOf(b) /\ t[3] \in ToSet(Majors)
      /\ OrbOf(b[t[1]], b[t[2]], t[3]) <= OrbLimit(t[1], t[2])
  BY DEF PairAspectsOf
<1>2. b[t[1]] \in Degrees /\ b[t[2]] \in Degrees /\ t[3] \in MajorSet
  BY <1>1, BirthIs, MajorsAre
<1>3. OrbOf(b[t[2]], b[t[1]], t[3]) <= OrbLimit(t[2], t[1])
  <2>1. OrbOf(b[t[1]], b[t[2]], t[3]) = OrbOf(b[t[2]], b[t[1]], t[3]) /\ OrbLimit(t[1], t[2]) = OrbLimit(t[2], t[1])
    BY <1>2, OrbIs, LimitIs
  <2> QED BY <1>1, <2>1
<1> QED BY <1>1, <1>3 DEF PairAspectsOf

-----------------------------------------------------------------------------
(* The elements.  The sun weighs in some element, so the heaviest has a quarter of
   something. *)

LEMMA AddsIs ==
  ASSUME NEW b \in SkBirths, NEW e, NEW n \in 1..11
  PROVE  Adds(b, e, n) \in Nat
<1>1. Halves[n] \in Nat
  <2>1. n \in {1, 2, 3, 4, 5, 6, 7, 8, 9, 10, 11}
    OBVIOUS
  <2> QED BY <2>1 DEF Halves
<1> QED BY <1>1 DEF Adds

LEMMA WeightIs ==
  ASSUME NEW b \in SkBirths, NEW e
  PROVE  \E u \in [0..11 -> Nat] : /\ ElementWeight(b, e) = u[11]
                                   /\ \A n \in 1..11 : u[n] = u[n - 1] + Adds(b, e, n)
<1> DEFINE Rec(f) == f = [n \in 0..11 |-> IF n = 0 THEN 0 ELSE f[n - 1] + Adds(b, e, n)]
           u == CHOOSE f : Rec(f)
<1>1. ElementWeight(b, e) = u[11]
  BY Zenon DEF ElementWeight
<1>2. \E f : Rec(f)
  <2> DEFINE step == [p \in Nat \X (1..11) |-> p[1] + Adds(b, e, p[2])]
  <2>1. IsStep(step, 11, Nat)
    BY AddsIs DEF IsStep
  <2>2. \A a \in Nat, i \in 1..11 : step[<<a, i>>] = a + Adds(b, e, i)
    OBVIOUS
  <2> HIDE DEF step
  <2>3. PICK f : IsFold(f, step, 11, Nat, 0)
    BY <2>1, FoldExists
  <2>4. f \in [0..11 -> Nat] /\ f[0] = 0 /\ \A i \in 1..11 : f[i] = step[<<f[i - 1], i>>]
    BY <2>3 DEF IsFold
  <2>5. ASSUME NEW n \in 0..11 PROVE f[n] = IF n = 0 THEN 0 ELSE f[n - 1] + Adds(b, e, n)
    <3>1. CASE n = 0
      BY <2>4, <3>1
    <3>2. CASE n # 0
      <4>1. n \in 1..11 /\ n - 1 \in 0..11
        BY <3>2
      <4>2. f[n - 1] \in Nat
        BY <2>4, <4>1
      <4> QED BY <2>2, <2>4, <3>2, <4>1, <4>2
    <3> QED BY <3>1, <3>2
  <2>6. Rec(f)
    BY <2>4, <2>5
  <2> QED BY <2>6
<1>3. Rec(u)
  BY <1>2, Zenon
<1> HIDE DEF u
<1>4. u[0] = 0 /\ \A n \in 1..11 : u[n] = u[n - 1] + Adds(b, e, n)
  BY <1>3
<1>5. \A n \in 0..11 : u[n] \in Nat
  <2> DEFINE T == {n \in 0..11 : u[n] \in Nat}
  <2>1. 0 \in T
    BY <1>4
  <2>2. ASSUME NEW n \in 1..11, n - 1 \in T PROVE n \in T
    BY <1>4, <2>2, AddsIs
  <2> HIDE DEF T
  <2>3. \A n \in 0..11 : n \in T
    BY <2>1, <2>2, StepByStep
  <2> QED BY <2>3 DEF T
<1>6. u \in [0..11 -> Nat]
  <2>1. DOMAIN u = 0..11 /\ u = [n \in DOMAIN u |-> u[n]]
    BY <1>3
  <2> QED BY <1>5, <2>1
<1> QED BY <1>1, <1>4, <1>6

LEMMA SunWeighs ==
  ASSUME NEW b \in SkBirths
  PROVE  \E i \in 1..4 : ElementWeight(b, Elements[i]) >= 6
<1> DEFINE s == Sign(b["sun"])
<1>1. "sun" \in DOMAIN b /\ s \in Int
  <2>1. "sun" \in DOMAIN b /\ b["sun"] \in Int /\ Degree \in Nat /\ Degree > 0
    BY BirthIs, DegreeIs DEF Degrees
  <2> QED BY <2>1 DEF Sign
<1>2. (s % 4) + 1 \in 1..4
  <2> HIDE DEF s
  <2> QED BY <1>1
<1> DEFINE e == Elements[(s % 4) + 1]
<1>3. Adds(b, e, 2) = 6
  BY <1>1 DEF Adds, Weighed, Halves, ElementOf
<1>4. PICK u \in [0..11 -> Nat] : /\ ElementWeight(b, e) = u[11]
                                  /\ \A n \in 1..11 : u[n] = u[n - 1] + Adds(b, e, n)
  BY WeightIs
<1>5. \A n \in 1..11 : Adds(b, e, n) \in Nat
  BY AddsIs
<1> HIDE DEF e, s
<1>6. u[2] >= 6
  BY <1>3, <1>4
<1>7. \A n \in 1..11 : u[n] >= u[n - 1]
  BY <1>4, <1>5
<1>8. u[11] >= u[10] /\ u[10] >= u[9] /\ u[9] >= u[8] /\ u[8] >= u[7] /\ u[7] >= u[6]
      /\ u[6] >= u[5] /\ u[5] >= u[4] /\ u[4] >= u[3] /\ u[3] >= u[2]
  BY <1>7
<1>9. u[11] >= 6
  BY <1>4, <1>6, <1>8
<1> QED BY <1>2, <1>4, <1>9 DEF e

LEMMA DominantHasWeight == ASSUME NEW b \in SkBirths PROVE DominantElement(b) \notin Deficient(b)
<1> DEFINE W(i) == ElementWeight(b, Elements[i])
           best == {i \in 1..4 : \A j \in 1..4 : W(j) <= W(i)}
           first == Min(best)
<1>1. \A i \in 1..4 : W(i) \in Nat
  <2>1. ASSUME NEW i \in 1..4 PROVE W(i) \in Nat
    <3>1. PICK u \in [0..11 -> Nat] : ElementWeight(b, Elements[i]) = u[11]
      BY WeightIs
    <3>2. u[11] \in Nat
      OBVIOUS
    <3> QED BY <3>1, <3>2
  <2> QED BY <2>1
<1>2. \E i \in 1..4 : W(i) >= 6
  BY SunWeighs
<1>3. /\ TotalWeight(b) = W(1) + W(2) + W(3) + W(4)
      /\ DominantElement(b) = Elements[first]
      /\ \A e \in Deficient(b) : ElementWeight(b, e) = 0 \/ ElementWeight(b, e) * 10 < TotalWeight(b)
  <2>1. Elements[1] = "fire" /\ Elements[2] = "earth" /\ Elements[3] = "air" /\ Elements[4] = "water"
    BY DEF Elements
  <2>2. TotalWeight(b) = W(1) + W(2) + W(3) + W(4)
    BY <2>1 DEF TotalWeight
  <2> QED BY <2>2 DEF DominantElement, Deficient
<1> HIDE DEF W
<1>4. 1..4 = {1, 2, 3, 4}
  OBVIOUS
<1>5. best # {} /\ best \subseteq Nat
  <2>1. W(1) \in Nat /\ W(2) \in Nat /\ W(3) \in Nat /\ W(4) \in Nat
    BY <1>1
  <2>2. \E i \in {1, 2, 3, 4} : W(1) <= W(i) /\ W(2) <= W(i) /\ W(3) <= W(i) /\ W(4) <= W(i)
    BY <2>1
  <2>3. PICK i \in 1..4 : W(1) <= W(i) /\ W(2) <= W(i) /\ W(3) <= W(i) /\ W(4) <= W(i)
    BY <1>4, <2>2
  <2>4. \A j \in 1..4 : W(j) <= W(i)
    BY <1>4, <2>3
  <2> QED BY <2>4
<1>6. first \in best
  <2> HIDE DEF best
  <2>1. \E x \in best : \A y \in best : x <= y
    BY <1>5, LeastNatural
  <2> QED BY <2>1 DEF Min
<1>7. first \in 1..4 /\ \A j \in 1..4 : W(j) <= W(first)
  BY <1>6
<1> HIDE DEF first
<1>8. W(first) > 0 /\ ~(W(first) * 10 < TotalWeight(b))
  <2>1. /\ W(1) \in Nat /\ W(2) \in Nat /\ W(3) \in Nat /\ W(4) \in Nat /\ W(first) \in Nat
        /\ W(1) <= W(first) /\ W(2) <= W(first) /\ W(3) <= W(first) /\ W(4) <= W(first)
    BY <1>1, <1>7
  <2>2. W(first) >= 6
    BY <1>1, <1>2, <1>7
  <2> QED BY <1>3, <2>1, <2>2
<1> QED BY <1>3, <1>8 DEF W

(* The chart of a birth: its aspects are those its longitudes make, one of two
   planets, the same from both sides, and the element it is shown for does not lack
   weight. *)
LEMMA ChartIsRight == skBirth \in SkBirths => ChartAgrees
<1> SUFFICES ASSUME skBirth \in SkBirths PROVE ChartAgrees
  OBVIOUS
<1>1. ASSUME NEW p \in PlanetsOf(skBirth), NEW q \in PlanetsOf(skBirth), NEW a \in ToSet(Majors), p # q
      PROVE  Meets(skBirth[p], skBirth[q], a, OrbLimit(p, q))
               <=> \E x \in AspectsOf(skBirth) : {x.p1, x.p2} = {p, q} /\ x.aspect = a
  <2>1. a \in MajorSet /\ skBirth[p] \in Degrees /\ skBirth[q] \in Degrees /\ OrbLimit(p, q) \in Nat
    BY MajorsAre, BirthIs, LimitIs
  <2>2. Meets(skBirth[p], skBirth[q], a, OrbLimit(p, q)) <=> OrbOf(skBirth[p], skBirth[q], a) <= OrbLimit(p, q)
    BY <2>1, MeetsIs
  <2> QED BY <1>1, <2>1, <2>2, AspectMade
<1>2. \A x, y \in AspectsOf(skBirth) : {x.p1, x.p2} = {y.p1, y.p2} => x = y
  BY OneAspectOfTwo
<1>3. \A t \in PairAspectsOf(skBirth, skBirth) : <<t[2], t[1], t[3]>> \in PairAspectsOf(skBirth, skBirth)
  BY PairsEitherWay
<1>4. DominantElement(skBirth) \notin Deficient(skBirth)
  BY DominantHasWeight
<1> QED BY <1>1, <1>2, <1>3, <1>4 DEF ChartAgrees

-----------------------------------------------------------------------------
(* The walk.  After each day a combination that came within the limit has a peak;
   its orb as it was rounded is no more than that of any day walked, rounded too,
   and so the day itself is as close as any but for the rounding.  The signs kept
   are those of the last day, and the changes are those between two days walked. *)

LEMMA Rounded ==
  ASSUME NEW x \in Nat
  PROVE  Hundredths(x) \in Nat /\ \E k \in Nat : Hundredths(x) = 10 * k /\ 10 * k <= x + 5 /\ x + 5 < 10 * k + 10
<1> DEFINE k == (x + 5) \div 10
<1>1. k \in Nat /\ 10 * k <= x + 5 /\ x + 5 < 10 * k + 10
  OBVIOUS
<1>2. Hundredths(x) = k * 10
  BY DEF Hundredths
<1> HIDE DEF k
<1> QED BY <1>1, <1>2

LEMMA RoundedOrder ==
  ASSUME NEW x \in Nat, NEW y \in Nat
  PROVE  /\ Hundredths(x) \in Nat /\ x <= Hundredths(x) + 4 /\ Hundredths(x) <= x + 5
         /\ Hundredths(x) <= y => Hundredths(x) <= Hundredths(y)
         /\ Hundredths(x) > y => Hundredths(y) <= Hundredths(x)
         /\ x <= 1500 => Hundredths(x) <= 1500
         /\ x > 1504 => Hundredths(x) > 1500
<1>1. PICK k \in Nat : Hundredths(x) = 10 * k /\ 10 * k <= x + 5 /\ x + 5 < 10 * k + 10
  BY Rounded
<1>2. PICK l \in Nat : Hundredths(y) = 10 * l /\ 10 * l <= y + 5 /\ y + 5 < 10 * l + 10
  BY Rounded
<1> QED BY <1>1, <1>2

SkTypes ==
  skBirth \in SkBirths /\ skTrack \in SkTracks /\ skTop \in SkTops /\ skDay \in 0..Len(skTrack)
PeaksInv ==
  /\ skPeaks = [t \in DOMAIN skPeaks |-> skPeaks[t]]
  /\ \A t \in DOMAIN skPeaks :
       /\ t \in Triples /\ skPeaks[t].day \in 1..skDay
       /\ SkyOrb(skPeaks[t].day, t) <= ScanOrb[t[3]]
       /\ skPeaks[t].orb = Hundredths(SkyOrb(skPeaks[t].day, t))
  /\ \A d \in 1..skDay : \A t \in Within(d, ScanOrb) :
       /\ t \in DOMAIN skPeaks
       /\ skPeaks[t].orb <= Hundredths(SkyOrb(d, t))
       /\ SkyOrb(skPeaks[t].day, t) <= SkyOrb(d, t) + 5
ChangesTo(n) ==
  {y \in (2..n) \X (DOMAIN skTrack[1]) :
     /\ Sign(skTrack[y[1]][y[2]]) # Sign(skTrack[y[1] - 1][y[2]])
     /\ y[2] # "moon"}
ChangeOf(y) ==
  [day |-> y[1], planet |-> y[2], from |-> Sign(skTrack[y[1] - 1][y[2]]), to |-> Sign(skTrack[y[1]][y[2]])]
SignsInv ==
  /\ DOMAIN skPrev = IF skDay = 0 THEN {} ELSE DOMAIN skTrack[1]
  /\ \A p \in DOMAIN skPrev : skPrev[p] = Sign(skTrack[skDay][p])
  /\ skIngresses = {ChangeOf(y) : y \in ChangesTo(skDay)}
SkInv == SkTypes /\ PeaksInv /\ SignsInv

LEMMA TrackIs ==
  ASSUME SkTypes
  PROVE  /\ Len(skTrack) \in Nat /\ Len(skTrack) >= 1 /\ DOMAIN skTrack[1] \subseteq Planetary
         /\ \A d \in 1..Len(skTrack) : DOMAIN skTrack[d] = DOMAIN skTrack[1]
         /\ \A d \in 1..Len(skTrack) : \A p \in DOMAIN skTrack[1] : skTrack[d][p] \in Degrees
<1>1. /\ Len(skTrack) \in Nat \ {0} /\ DOMAIN skTrack[1] \subseteq Planetary
      /\ \A d \in 1..Len(skTrack) : skTrack[d] \in [DOMAIN skTrack[1] -> Degrees]
  BY SkyAssumption DEF SkTypes
<1> QED BY <1>1

LEMMA TripleIs ==
  ASSUME SkTypes, NEW t \in Triples
  PROVE  /\ t[1] \in DOMAIN skTrack[1] /\ t[1] \in Planetary /\ t[2] \in PlanetsOf(skBirth) /\ t[2] \in Planetary
         /\ t[3] \in MajorSet
         /\ \A d \in 1..Len(skTrack) : SkyOrb(d, t) \in Nat
         /\ ScanOrb[t[3]] \in Nat /\ ScanOrb[t[3]] >= 1500
         /\ DayOrb[t[3]] \in Nat /\ DayOrb[t[3]] >= 2000
<1>1. t[1] \in DOMAIN skTrack[1] /\ t[2] \in PlanetsOf(skBirth) /\ t[3] \in MajorSet
  BY MajorsAre DEF Triples
<1>2. t[1] \in Planetary /\ t[2] \in Planetary /\ skBirth[t[2]] \in Degrees
  BY <1>1, TrackIs, BirthIs DEF SkTypes
<1>3. ASSUME NEW d \in 1..Len(skTrack) PROVE SkyOrb(d, t) \in Nat
  <2>1. skTrack[d][t[1]] \in Degrees
    BY <1>1, TrackIs
  <2> QED BY <1>1, <1>2, <2>1, OrbIs DEF SkyOrb
<1>4. \A a \in MajorSet : ScanOrb[a] \in Nat /\ ScanOrb[a] >= 1500 /\ DayOrb[a] \in Nat /\ DayOrb[a] >= 2000
  BY DEF MajorSet, ScanOrb, DayOrb
<1> QED BY <1>1, <1>2, <1>3, <1>4

LEMMA SkInvInit == SkInit => SkInv
<1> SUFFICES ASSUME SkInit PROVE SkInv
  OBVIOUS
<1>1. SkTypes
  BY SkyAssumption DEF SkInit, SkTypes
<1>2. 1..0 = {} /\ 2..0 = {}
  OBVIOUS
<1>3. PeaksInv
  BY <1>2 DEF SkInit, PeaksInv
<1>4. ChangesTo(0) = {}
  BY <1>2 DEF ChangesTo
<1>5. SignsInv
  BY <1>4 DEF SkInit, SignsInv
<1> QED BY <1>1, <1>3, <1>5 DEF SkInv

LEMMA PeaksKept == SkInv /\ WalkDay => PeaksInv'
<1> SUFFICES ASSUME SkInv, WalkDay PROVE PeaksInv'
  OBVIOUS
<1> DEFINE n == skDay + 1
           new(t) == [day |-> n, orb |-> Hundredths(SkyOrb(n, t))]
           old(t) == skPeaks[t]
           O(t, d) == SkyOrb(d, t)
<1>1. /\ skDay \in Nat /\ skDay' = n /\ n \in 1..Len(skTrack) /\ \A d \in 1..n : d \in 1..skDay \/ d = n
      /\ skTrack' = skTrack /\ skBirth' = skBirth
  BY TrackIs DEF SkInv, SkTypes, WalkDay
<1>2. skPeaks' = [t \in DOMAIN skPeaks \cup Moved(n) |-> IF t \in Moved(n) THEN new(t) ELSE skPeaks[t]]
  BY <1>1 DEF WalkDay
<1>3. Triples' = Triples /\ (\A d, t : SkyOrb(d, t)' = SkyOrb(d, t)) /\ (\A d : Within(d, ScanOrb)' = Within(d, ScanOrb))
  BY <1>1 DEF Triples, SkyOrb, Within
<1>4. \A t \in DOMAIN skPeaks :
        /\ t \in Triples /\ old(t).day \in 1..skDay /\ O(t, old(t).day) <= ScanOrb[t[3]]
        /\ old(t).orb = Hundredths(O(t, old(t).day))
  BY DEF SkInv, PeaksInv
<1>5. \A d \in 1..skDay : \A t \in Within(d, ScanOrb) :
        t \in DOMAIN skPeaks /\ old(t).orb <= Hundredths(O(t, d)) /\ O(t, old(t).day) <= O(t, d) + 5
  BY DEF SkInv, PeaksInv
<1>6. \A d, t : t \in Within(d, ScanOrb) <=> t \in Triples /\ O(t, d) <= ScanOrb[t[3]]
  BY DEF Within
<1>7. \A t : t \in Moved(n) <=> t \in Within(n, ScanOrb) /\ (t \in DOMAIN skPeaks => old(t).orb > O(t, n))
  BY DEF Moved
<1>8. \A t \in Triples, d \in 1..Len(skTrack) : O(t, d) \in Nat
  BY TripleIs DEF SkInv
<1>9. \A t : new(t).day = n /\ new(t).orb = Hundredths(O(t, n))
  OBVIOUS
<1> HIDE DEF n, new, old, O
<1>10. /\ DOMAIN skPeaks' = DOMAIN skPeaks \cup Moved(n)
       /\ \A t \in DOMAIN skPeaks' : skPeaks'[t] = IF t \in Moved(n) THEN new(t) ELSE old(t)
       /\ skPeaks' = [t \in DOMAIN skPeaks' |-> skPeaks'[t]]
  BY <1>2 DEF old
<1>11. ASSUME NEW t \in DOMAIN skPeaks'
       PROVE  /\ t \in Triples /\ skPeaks'[t].day \in 1..n
              /\ O(t, skPeaks'[t].day) <= ScanOrb[t[3]]
              /\ skPeaks'[t].orb = Hundredths(O(t, skPeaks'[t].day))
  <2>1. CASE t \in Moved(n)
    <3>1. skPeaks'[t] = new(t) /\ t \in Within(n, ScanOrb)
      BY <1>7, <1>10, <2>1
    <3> QED BY <1>1, <1>6, <1>9, <3>1
  <2>2. CASE t \notin Moved(n)
    <3>1. skPeaks'[t] = old(t) /\ t \in DOMAIN skPeaks
      BY <1>10, <2>2
    <3>2. \A d \in 1..skDay : d \in 1..n
      BY <1>1 DEF n
    <3> QED BY <1>4, <3>1, <3>2
  <2> QED BY <2>1, <2>2
<1>12. ASSUME NEW d \in 1..n, NEW t \in Within(d, ScanOrb)
       PROVE  /\ t \in DOMAIN skPeaks' /\ skPeaks'[t].orb <= Hundredths(O(t, d))
              /\ O(t, skPeaks'[t].day) <= O(t, d) + 5
  <2>1. /\ t \in Triples /\ O(t, d) \in Nat /\ O(t, n) \in Nat
        /\ \A c \in 1..skDay : O(t, c) \in Nat
    <3>1. d \in 1..Len(skTrack) /\ n \in 1..Len(skTrack) /\ \A c \in 1..skDay : c \in 1..Len(skTrack)
      BY <1>1, TrackIs DEF SkInv, n
    <3> QED BY <1>6, <1>8, <3>1
  <2>2. Hundredths(O(t, n)) \in Nat /\ O(t, n) <= Hundredths(O(t, n)) + 4 /\ Hundredths(O(t, d)) <= O(t, d) + 5
    BY <2>1, RoundedOrder
  <2>3. CASE d = n
    <3>1. CASE t \in Moved(n)
      <4>1. t \in DOMAIN skPeaks' /\ skPeaks'[t].day = n /\ skPeaks'[t].orb = Hundredths(O(t, n))
        BY <1>9, <1>10, <3>1
      <4> QED BY <2>1, <2>2, <2>3, <4>1
    <3>2. CASE t \notin Moved(n)
      <4>1. t \in DOMAIN skPeaks /\ t \in DOMAIN skPeaks' /\ skPeaks'[t] = old(t) /\ ~(old(t).orb > O(t, n))
        BY <1>7, <1>10, <2>3, <3>2
      <4>2. old(t).day \in 1..skDay /\ old(t).orb = Hundredths(O(t, old(t).day)) /\ O(t, old(t).day) \in Nat
        BY <1>4, <2>1, <4>1
      <4>3. Hundredths(O(t, old(t).day)) <= O(t, n)
        BY <2>1, <4>1, <4>2, RoundedOrder
      <4>4. /\ Hundredths(O(t, old(t).day)) <= Hundredths(O(t, n))
            /\ O(t, old(t).day) <= Hundredths(O(t, old(t).day)) + 4
        BY <2>1, <4>2, <4>3, RoundedOrder
      <4>5. O(t, old(t).day) <= O(t, n) + 5
        BY <2>1, <4>2, <4>3, <4>4, RoundedOrder
      <4> QED BY <2>3, <4>1, <4>2, <4>4, <4>5
    <3> QED BY <3>1, <3>2
  <2>4. CASE d \in 1..skDay
    <3>1. t \in DOMAIN skPeaks /\ old(t).orb <= Hundredths(O(t, d)) /\ O(t, old(t).day) <= O(t, d) + 5
      BY <1>5, <2>4
    <3>2. CASE t \notin Moved(n)
      BY <1>10, <3>1, <3>2
    <3>3. CASE t \in Moved(n)
      <4>1. /\ t \in DOMAIN skPeaks' /\ skPeaks'[t].day = n /\ skPeaks'[t].orb = Hundredths(O(t, n))
            /\ old(t).orb > O(t, n)
        BY <1>7, <1>9, <1>10, <3>1, <3>3
      <4>2. old(t).orb = Hundredths(O(t, old(t).day)) /\ O(t, old(t).day) \in Nat
        BY <1>4, <2>1, <3>1
      <4>3. Hundredths(O(t, n)) <= old(t).orb /\ old(t).orb \in Nat /\ Hundredths(O(t, d)) \in Nat
        BY <2>1, <4>1, <4>2, RoundedOrder
      <4> QED BY <2>1, <2>2, <3>1, <4>1, <4>3
    <3> QED BY <3>2, <3>3
  <2> QED BY <1>1, <2>3, <2>4
<1>13. skPeaks' = [t \in DOMAIN skPeaks' |-> skPeaks'[t]]
  BY <1>10
<1> QED BY <1>1, <1>3, <1>11, <1>12, <1>13 DEF PeaksInv, O

LEMMA SignsKept == SkInv /\ WalkDay => SignsInv'
<1> SUFFICES ASSUME SkInv, WalkDay PROVE SignsInv'
  OBVIOUS
<1> DEFINE n == skDay + 1
           planets == DOMAIN skTrack[1]
           S(d, p) == Sign(skTrack[d][p])
           turned == {q \in planets : q # "moon" /\ q \in DOMAIN skPrev /\ skPrev[q] # S(n, q)}
           change(p) == [day |-> n, planet |-> p, from |-> skPrev[p], to |-> S(n, p)]
<1>1. /\ skDay \in Nat /\ skDay' = n /\ n \in 1..Len(skTrack)
      /\ skTrack' = skTrack /\ DOMAIN skTrack[n] = planets
  BY TrackIs DEF SkInv, SkTypes, WalkDay
<1>2. skPrev' = [p \in planets |-> S(n, p)] /\ skIngresses' = skIngresses \cup Changed(n)
  BY <1>1 DEF WalkDay
<1>3. Changed(n) = {change(p) : p \in turned}
  <2>1. Changed(n) = {change(p) : p \in {q \in DOMAIN skTrack[n] : /\ q # "moon"
                                        /\ q \in DOMAIN skPrev /\ skPrev[q] # Sign(skTrack[n][q])}}
    BY Zenon DEF Changed
  <2> QED BY <1>1, <2>1, Zenon
<1>4. /\ DOMAIN skPrev = IF skDay = 0 THEN {} ELSE planets
      /\ \A p \in DOMAIN skPrev : skPrev[p] = S(skDay, p)
      /\ skIngresses = {ChangeOf(y) : y \in ChangesTo(skDay)}
  BY DEF SkInv, SignsInv
<1>5. \A m : ChangesTo(m) = {y \in (2..m) \X planets : S(y[1], y[2]) # S(y[1] - 1, y[2]) /\ y[2] # "moon"}
  BY DEF ChangesTo
<1>6. \A d, p : ChangeOf(<<d, p>>) = [day |-> d, planet |-> p, from |-> S(d - 1, p), to |-> S(d, p)]
  BY DEF ChangeOf
<1>7. n - 1 = skDay /\ (skDay = 0 <=> n = 1) /\ \A d : d \in 2..n <=> d \in 2..skDay \/ (d = n /\ skDay # 0)
  BY <1>1
<1> HIDE DEF n, S
<1>8. \A p \in turned : <<n, p>> \in ChangesTo(n) /\ change(p) = ChangeOf(<<n, p>>)
  <2>1. ASSUME NEW p \in turned PROVE <<n, p>> \in ChangesTo(n) /\ change(p) = ChangeOf(<<n, p>>)
    <3>1. skDay # 0 /\ p \in planets /\ skPrev[p] = S(n - 1, p) /\ skPrev[p] # S(n, p) /\ p # "moon"
      BY <1>4, <1>7
    <3>2. n \in 2..n
      BY <1>7, <3>1
    <3> QED BY <1>5, <1>6, <3>1, <3>2
  <2> QED BY <2>1
<1>9. \A y \in ChangesTo(n) : y \in ChangesTo(skDay) \/ \E p \in turned : y = <<n, p>>
  <2>1. ASSUME NEW y \in ChangesTo(n) PROVE y \in ChangesTo(skDay) \/ \E p \in turned : y = <<n, p>>
    <3>1. /\ y[1] \in 2..n /\ y[2] \in planets /\ y = <<y[1], y[2]>> /\ S(y[1], y[2]) # S(y[1] - 1, y[2])
          /\ y[2] # "moon"
      BY <1>5
    <3>2. CASE y[1] \in 2..skDay
      BY <1>5, <3>1, <3>2
    <3>3. CASE y[1] = n /\ skDay # 0
      <4>1. y[2] \in turned
        BY <1>4, <1>7, <3>1, <3>3
      <4> QED BY <3>1, <3>3, <4>1
    <3> QED BY <1>7, <3>1, <3>2, <3>3
  <2> QED BY <2>1
<1>10. \A y \in ChangesTo(skDay) : y \in ChangesTo(n)
  BY <1>5, <1>7
<1> DEFINE of == {ChangeOf(y) : y \in ChangesTo(n)}
<1>11. skIngresses' = of
  <2>1. ASSUME NEW e \in skIngresses' PROVE e \in of
    <3>1. CASE e \in skIngresses
      BY <1>4, <1>10, <3>1
    <3>2. CASE e \in Changed(n)
      BY <1>3, <1>8, <3>2
    <3> QED BY <1>2, <2>1, <3>1, <3>2
  <2>2. ASSUME NEW e \in of PROVE e \in skIngresses'
    <3>1. PICK y \in ChangesTo(n) : e = ChangeOf(y)
      OBVIOUS
    <3>2. CASE y \in ChangesTo(skDay)
      BY <1>2, <1>4, <3>1, <3>2
    <3>3. CASE \E p \in turned : y = <<n, p>>
      <4>1. PICK p \in turned : y = <<n, p>>
        BY <3>3
      <4>2. e = change(p)
        BY <1>8, <3>1, <4>1
      <4> QED BY <1>2, <1>3, <4>2
    <3> QED BY <1>9, <3>2, <3>3
  <2> QED BY <2>1, <2>2
<1>12. (\A m : ChangesTo(m)' = ChangesTo(m')) /\ (\A y : ChangeOf(y)' = ChangeOf(y))
  BY <1>1 DEF ChangesTo, ChangeOf
<1>13. {ChangeOf(y) : y \in ChangesTo(skDay)}' = of
  <2>1. ChangesTo(skDay)' = ChangesTo(n)
    BY <1>1 DEF ChangesTo
  <2> QED BY <1>12, <2>1
<1>14. n # 0 /\ DOMAIN skPrev' = planets /\ \A p \in planets : skPrev'[p] = S(n, p)
  BY <1>1, <1>2, <1>7
<1> QED BY <1>1, <1>11, <1>13, <1>14 DEF SignsInv, S

LEMMA SkInvStep == SkInv /\ [SkNext]_skVars => SkInv'
<1> SUFFICES ASSUME SkInv, [SkNext]_skVars PROVE SkInv'
  OBVIOUS
<1>1. CASE WalkDay
  <2>1. SkTypes'
    BY <1>1, TrackIs DEF SkInv, SkTypes, WalkDay
  <2> QED BY <1>1, <2>1, PeaksKept, SignsKept DEF SkInv
<1>2. CASE UNCHANGED skVars
  BY <1>2 DEF skVars, SkInv, SkTypes, PeaksInv, SignsInv, Within, SkyOrb, Triples, ChangesTo, ChangeOf
<1> QED BY <1>1, <1>2 DEF SkNext

-----------------------------------------------------------------------------
(* What the period shows.  What is counted is finite, so what precedes less has
   fewer before it. *)

LEMMA ImageIsFinite ==
  ASSUME NEW S, IsFiniteSet(S), NEW f, NEW T, T = {f[x] : x \in S}, DOMAIN f = S, f = [x \in S |-> f[x]]
  PROVE  IsFiniteSet(T)
<1>1. f \in Surjection(S, T)
  BY DEF Surjection
<1> QED BY <1>1, FS_Surjection

LEMMA PlanetaryIsFinite == IsFiniteSet(Planetary) /\ IsFiniteSet(1..5)
<1>1. \A n \in Nat : IsFiniteSet(1..n)
  BY FS_Interval
<1>2. IsFiniteSet(1..10)
  BY <1>1
<1>3. DOMAIN Order = 1..10 /\ Order = [i \in 1..10 |-> Order[i]]
  BY DEF Order
<1>4. IsFiniteSet(Planetary)
  BY <1>2, <1>3, ImageIsFinite DEF Planetary
<1> QED BY <1>1, <1>4

LEMMA TriplesAreFinite == SkTypes => IsFiniteSet(Triples)
<1> SUFFICES ASSUME SkTypes PROVE IsFiniteSet(Triples)
  OBVIOUS
<1>1. IsFiniteSet(Planetary) /\ IsFiniteSet(1..5)
  BY PlanetaryIsFinite
<1>3. IsFiniteSet(ToSet(Majors))
  <2>1. DOMAIN Majors = 1..5 /\ Majors = [i \in 1..5 |-> Majors[i]]
    BY DEF Majors
  <2>2. ToSet(Majors) = {Majors[i] : i \in 1..5}
    BY <2>1 DEF ToSet
  <2> QED BY <1>1, <2>1, <2>2, ImageIsFinite
<1>4. IsFiniteSet(DOMAIN skTrack[1]) /\ IsFiniteSet(PlanetsOf(skBirth))
  BY <1>1, TrackIs, BirthIs, FS_Subset DEF SkTypes
<1>5. IsFiniteSet(PlanetsOf(skBirth) \X ToSet(Majors))
  BY <1>3, <1>4, FS_Product
<1> DEFINE A == DOMAIN skTrack[1]
           B == PlanetsOf(skBirth)
           M == ToSet(Majors)
<1> HIDE DEF A, B, M
<1>6. IsFiniteSet(A \X (B \X M))
  BY <1>4, <1>5, FS_Product DEF A, B, M
<1> DEFINE f == [x \in A \X (B \X M) |-> <<x[1], x[2][1], x[2][2]>>]
<1>7. A \X B \X M = {f[x] : x \in A \X (B \X M)}
  <2>1. ASSUME NEW t \in A \X B \X M PROVE t \in {f[x] : x \in A \X (B \X M)}
    <3>1. <<t[1], <<t[2], t[3]>>>> \in A \X (B \X M) /\ t = <<t[1], t[2], t[3]>>
      OBVIOUS
    <3>2. f[<<t[1], <<t[2], t[3]>>>>] = t
      BY <3>1
    <3> QED BY <3>1, <3>2
  <2>2. ASSUME NEW x \in A \X (B \X M) PROVE f[x] \in A \X B \X M
    OBVIOUS
  <2> QED BY <2>1, <2>2
<1>8. DOMAIN f = A \X (B \X M) /\ f = [x \in A \X (B \X M) |-> f[x]]
  OBVIOUS
<1> HIDE DEF f
<1>9. IsFiniteSet(A \X B \X M)
  BY <1>6, <1>7, <1>8, ImageIsFinite
<1> QED BY <1>9 DEF A, B, M, Triples

LEMMA WeightsAre ==
  /\ \A p \in Planetary : PlanetWeight[p] \in Nat
  /\ \A a \in MajorSet : AspectWeight[a] \in Nat
<1>1. \A i \in {1, 2, 3, 4, 5, 6, 7, 8, 9, 10} : PlanetWeight[Order[i]] \in Nat
  BY DEF PlanetWeight, Order
<1>2. 1..10 = {1, 2, 3, 4, 5, 6, 7, 8, 9, 10}
  OBVIOUS
<1>3. \A a \in MajorSet : AspectWeight[a] \in Nat
  BY DEF AspectWeight, MajorSet
<1> QED BY <1>1, <1>2, <1>3, OrderIs

AspectEvent(t) == [kind |-> "aspect", day |-> skPeaks[t].day, what |-> t, weight |-> Weight(t)]
ChangeEvent(e) == [kind |-> "ingress", day |-> e.day, what |-> <<e.planet, e.from, e.to>>, weight |-> PlanetWeight[e.planet]]
ClosePeaks == {t \in DOMAIN skPeaks : skPeaks[t].orb <= PeakOrb}
LEMMA EventsAre == PeriodEvents = {AspectEvent(t) : t \in ClosePeaks} \cup {ChangeEvent(e) : e \in skIngresses}
BY Zenon DEF PeriodEvents, AspectEvent, ChangeEvent, ClosePeaks

LEMMA EventsAreCounted ==
  ASSUME SkInv
  PROVE  IsFiniteSet(PeriodEvents) /\ \A e \in PeriodEvents : e.weight \in Nat
<1>1. IsFiniteSet({AspectEvent(t) : t \in ClosePeaks})
  <2>1. ClosePeaks \subseteq Triples
    BY DEF SkInv, PeaksInv, ClosePeaks
  <2>2. IsFiniteSet(ClosePeaks)
    BY <2>1, TriplesAreFinite, FS_Subset DEF SkInv
  <2> DEFINE f == [t \in ClosePeaks |-> AspectEvent(t)]
  <2>3. {f[t] : t \in ClosePeaks} = {AspectEvent(t) : t \in ClosePeaks} /\ f = [t \in ClosePeaks |-> f[t]] /\ DOMAIN f = ClosePeaks
    OBVIOUS
  <2> HIDE DEF f
  <2> QED BY <2>2, <2>3, ImageIsFinite
<1>2. skIngresses = {ChangeOf(y) : y \in ChangesTo(skDay)}
  BY DEF SkInv, SignsInv
<1>3. IsFiniteSet(ChangesTo(skDay))
  <2>1. IsFiniteSet(2..skDay) /\ IsFiniteSet(DOMAIN skTrack[1])
    <3>1. IsFiniteSet(Planetary)
      BY PlanetaryIsFinite
    <3>2. IsFiniteSet(2..skDay)
      BY FS_Interval DEF SkInv, SkTypes
    <3> QED BY <3>1, <3>2, TrackIs, FS_Subset DEF SkInv
  <2>2. IsFiniteSet((2..skDay) \X (DOMAIN skTrack[1]))
    BY <2>1, FS_Product
  <2> QED BY <2>2, FS_Subset DEF ChangesTo
<1>4. IsFiniteSet({ChangeEvent(e) : e \in skIngresses})
  <2> DEFINE f == [y \in ChangesTo(skDay) |-> ChangeEvent(ChangeOf(y))]
  <2>1. {f[y] : y \in ChangesTo(skDay)} = {ChangeEvent(e) : e \in skIngresses} /\ f = [y \in ChangesTo(skDay) |-> f[y]]
        /\ DOMAIN f = ChangesTo(skDay)
    BY <1>2
  <2> HIDE DEF f
  <2> QED BY <1>3, <2>1, ImageIsFinite
<1>5. IsFiniteSet(PeriodEvents)
  BY <1>1, <1>4, EventsAre, FS_Union
<1>6. ASSUME NEW t \in ClosePeaks PROVE AspectEvent(t).weight \in Nat
  <2>1. t \in Triples
    BY DEF SkInv, PeaksInv, ClosePeaks
  <2>2. t[1] \in Planetary /\ t[2] \in Planetary /\ t[3] \in MajorSet
    BY <2>1, TripleIs DEF SkInv
  <2>3. PlanetWeight[t[1]] \in Nat /\ PlanetWeight[t[2]] \in Nat /\ AspectWeight[t[3]] \in Nat
    BY <2>2, WeightsAre
  <2> QED BY <2>3 DEF AspectEvent, Weight
<1>7. ASSUME NEW e \in skIngresses PROVE ChangeEvent(e).weight \in Nat
  <2>1. PICK y \in ChangesTo(skDay) : e = ChangeOf(y)
    BY <1>2
  <2>2. e.planet \in Planetary
    BY <2>1, TrackIs DEF SkInv, ChangesTo, ChangeOf
  <2> QED BY <2>2, WeightsAre DEF ChangeEvent
<1> QED BY <1>5, <1>6, <1>7, EventsAre

(* A shorter list keeps the heaviest. *)
LEMMA HeaviestAreKept ==
  ASSUME SkInv, NEW e \in PeriodEvents \ Timeline, NEW kept \in Timeline
  PROVE  e.weight <= kept.weight
<1> DEFINE Before(x) == {f \in PeriodEvents : Precedes(f, x)}
<1>1. IsFiniteSet(PeriodEvents) /\ \A x \in PeriodEvents : x.weight \in Nat
  BY EventsAreCounted
<1>2. kept \in PeriodEvents /\ e \in PeriodEvents /\ skTop \in Nat
  BY SkyAssumption DEF Timeline, SkInv, SkTypes
<1>3. skTop # 0 /\ ~(Cardinality(Before(e)) < skTop) /\ Cardinality(Before(kept)) < skTop
  BY <1>2 DEF Timeline
<1>4. IsFiniteSet(Before(e)) /\ IsFiniteSet(Before(kept))
  BY <1>1, FS_Subset
<1>5. Cardinality(Before(e)) \in Nat /\ Cardinality(Before(kept)) \in Nat
  BY <1>4, FS_CardinalityType
<1>6. ASSUME e.weight > kept.weight PROVE FALSE
  <2>1. ASSUME NEW f \in Before(e) PROVE f \in Before(kept)
    <3>1. f \in PeriodEvents /\ (f.weight > e.weight \/ f.weight = e.weight)
      BY DEF Precedes
    <3>2. f.weight > kept.weight
      BY <1>1, <1>2, <1>6, <3>1
    <3> QED BY <3>1, <3>2 DEF Precedes
  <2>2. Before(e) \in SUBSET Before(kept)
    BY <2>1
  <2> HIDE DEF Before
  <2>3. Cardinality(Before(e)) <= Cardinality(Before(kept))
    BY <1>4, <2>2, FS_Subset
  <2> QED BY <1>2, <1>3, <1>5, <2>3
<1> QED BY <1>1, <1>2, <1>6

(* An orb announced is at most a degree and a half, and the page looks half a degree
   further: ten that weigh as much, or its place on the page of the day. *)
LEMMA AnnouncedIsShown ==
  ASSUME SkInv, NEW e \in Timeline, e.kind = "aspect", NEW sky \in SkHours(skTrack, e.day),
         Distance(sky[e.what[1]], skTrack[e.day][e.what[1]]) <= Steady
  PROVE  \/ e.what \in DayShown(sky)
         \/ Cardinality({t \in FoundAt(sky) : Weight(t) >= e.weight}) > 10
<1>1. e \in PeriodEvents
  BY DEF Timeline
<1>2. PICK t \in ClosePeaks : e = AspectEvent(t)
  <2>1. \A x \in skIngresses : ChangeEvent(x).kind = "ingress"
    BY DEF ChangeEvent
  <2> QED BY <1>1, <2>1, EventsAre
<1> DEFINE d == skPeaks[t].day
           found == FoundAt(sky)
           AheadOf(u) == {v \in found :
             \/ Weight(v) > Weight(u)
             \/ Weight(v) = Weight(u) /\ Hundredths(HourOrb(sky, v)) < Hundredths(HourOrb(sky, u))}
           ahead == AheadOf(t)
           heavy == {u \in found : Weight(u) >= e.weight}
<1>3. e.what = t /\ e.day = d /\ e.weight = Weight(t) /\ t \in DOMAIN skPeaks /\ skPeaks[t].orb <= 1500
  BY <1>2 DEF AspectEvent, ClosePeaks, PeakOrb
<1>4. t \in Triples /\ d \in 1..Len(skTrack) /\ skPeaks[t].orb = Hundredths(SkyOrb(d, t))
  BY <1>3, TrackIs DEF SkInv, SkTypes, PeaksInv
<1>5. sky \in [DOMAIN skTrack[1] -> Degrees] /\ skTrack[d] \in [DOMAIN skTrack[1] -> Degrees]
      /\ skBirth[t[2]] \in Degrees /\ t[3] \in MajorSet /\ t[1] \in DOMAIN skTrack[1]
  <2>1. SkHours(skTrack, d) \subseteq [DOMAIN skTrack[1] -> Degrees] /\ skTrack[d] \in [DOMAIN skTrack[1] -> Degrees]
    BY <1>4, SkyAssumption DEF SkInv, SkTypes
  <2>2. t[2] \in PlanetsOf(skBirth) /\ t[3] \in MajorSet /\ t[1] \in DOMAIN skTrack[1]
    BY <1>4, TripleIs DEF SkInv
  <2>3. skBirth[t[2]] \in Degrees
    BY <2>2, BirthIs DEF SkInv, SkTypes
  <2> QED BY <1>3, <2>1, <2>2, <2>3
<1>15. t \in found
  <2>1. SkyOrb(d, t) \in Nat /\ ScanOrb[t[3]] \in Nat /\ DayOrb[t[3]] \in Nat /\ SkyOrb(d, t) <= ScanOrb[t[3]]
    BY <1>3, <1>4, TripleIs DEF SkInv, PeaksInv
  <2>2. SkyOrb(d, t) <= 1504
    <3>1. SkyOrb(d, t) <= Hundredths(SkyOrb(d, t)) + 4 /\ Hundredths(SkyOrb(d, t)) \in Nat
      BY <2>1, RoundedOrder
    <3>2. Hundredths(SkyOrb(d, t)) <= 1500
      BY <1>3, <1>4
    <3> HIDE DEF d
    <3> QED BY <2>1, <3>1, <3>2
  <2>3. (ScanOrb[t[3]] = 1500 /\ DayOrb[t[3]] = 2000) \/ DayOrb[t[3]] >= 2500
    BY <1>5 DEF ScanOrb, DayOrb, MajorSet
  <2>4. HourOrb(sky, t) \in Nat /\ HourOrb(sky, t) <= SkyOrb(d, t) + Distance(sky[t[1]], skTrack[d][t[1]])
    <3>1. sky[t[1]] \in Degrees /\ skTrack[d][t[1]] \in Degrees
      BY <1>5
    <3> QED BY <1>5, <3>1, OrbMoves, OrbIs DEF HourOrb, SkyOrb
  <2>5. Distance(sky[t[1]], skTrack[d][t[1]]) \in Nat /\ Distance(sky[t[1]], skTrack[d][t[1]]) <= 500
    <3>1. sky[t[1]] \in Degrees /\ skTrack[d][t[1]] \in Degrees
      BY <1>5
    <3> QED BY <1>3, <3>1, Arcs, DegreeIs DEF Steady
  <2> DEFINE noon == SkyOrb(d, t)
             hour == HourOrb(sky, t)
             arc == Distance(sky[t[1]], skTrack[d][t[1]])
             wide == DayOrb[t[3]]
             scan == ScanOrb[t[3]]
  <2> HIDE DEF noon, hour, arc, wide, scan
  <2>6. hour <= wide
    <3>1. /\ noon \in Nat /\ hour \in Nat /\ arc \in Nat /\ wide \in Nat /\ scan \in Nat
          /\ noon <= scan /\ noon <= 1504 /\ hour <= noon + arc /\ arc <= 500
          /\ (scan = 1500 /\ wide = 2000) \/ wide >= 2500
      BY <2>1, <2>2, <2>3, <2>4, <2>5 DEF noon, hour, arc, wide, scan
    <3> QED BY <3>1
  <2>7. HourOrb(sky, t) <= DayOrb[t[3]]
    BY <2>6 DEF hour, wide
  <2> QED BY <1>4, <2>7 DEF FoundAt
<1>6. \A u \in found : Weight(u) \in Nat /\ Hundredths(HourOrb(sky, u)) \in Nat
  <2>1. ASSUME NEW u \in found PROVE Weight(u) \in Nat /\ Hundredths(HourOrb(sky, u)) \in Nat
    <3>1. u \in Triples
      BY DEF FoundAt
    <3>2. u[1] \in Planetary /\ u[2] \in Planetary /\ u[3] \in MajorSet
          /\ u[1] \in DOMAIN skTrack[1] /\ u[2] \in PlanetsOf(skBirth)
      BY <3>1, TripleIs DEF SkInv
    <3>4. HourOrb(sky, u) \in Nat
      <4>1. sky[u[1]] \in Degrees /\ skBirth[u[2]] \in Degrees
        BY <1>5, <3>2, BirthIs DEF SkInv, SkTypes
      <4> QED BY <3>2, <4>1, OrbIs DEF HourOrb
    <3>3. PlanetWeight[u[1]] \in Nat /\ PlanetWeight[u[2]] \in Nat /\ AspectWeight[u[3]] \in Nat
      BY <3>2, WeightsAre
    <3> QED BY <3>3, <3>4, Rounded DEF Weight
  <2> QED BY <2>1
<1>7. DayShown(sky) = {u \in found : Cardinality(AheadOf(u)) < 10}
  BY Zenon DEF DayShown
<1>8. t \in DayShown(sky) \/ ~(Cardinality(ahead) < 10)
  <2> HIDE DEF found, AheadOf
  <2> QED BY <1>7, <1>15
<1>9. IsFiniteSet(found)
  <2>1. found \subseteq Triples
    BY DEF FoundAt
  <2> HIDE DEF found
  <2> QED BY <2>1, TriplesAreFinite, FS_Subset DEF SkInv
<1> HIDE DEF found, d
<1>10. ahead \in SUBSET found /\ heavy \in SUBSET found /\ t \notin ahead /\ ahead \cup {t} \in SUBSET heavy
  BY <1>3, <1>6, <1>15
<1> HIDE DEF ahead, heavy
<1>11. IsFiniteSet(ahead) /\ IsFiniteSet(heavy)
  BY <1>9, <1>10, FS_Subset
<1>12. Cardinality(ahead) \in Nat /\ Cardinality(heavy) \in Nat /\ Cardinality(ahead \cup {t}) = Cardinality(ahead) + 1
  BY <1>10, <1>11, FS_CardinalityType, FS_AddElement
<1>13. Cardinality(ahead \cup {t}) <= Cardinality(heavy)
  BY <1>10, <1>11, FS_Subset
<1>14. t \in DayShown(sky) \/ Cardinality(heavy) > 10
  BY <1>8, <1>12, <1>13
<1> QED BY <1>3, <1>14 DEF heavy, found

(* Nothing is left out of the whole list; so a combination is announced once, if its
   peak is close, on the day of the peak. *)
LEMMA AnnouncedOnce ==
  ASSUME SkInv, skTop = 0, NEW t \in Triples
  PROVE  Announced(t) = IF t \in ClosePeaks THEN {AspectEvent(t)} ELSE {}
<1>1. Timeline = PeriodEvents
  BY DEF Timeline
<1>2. \A e \in skIngresses : ChangeEvent(e).kind = "ingress"
  BY DEF ChangeEvent
<1>3. \A u \in ClosePeaks : AspectEvent(u).kind = "aspect" /\ AspectEvent(u).what = u
  BY DEF AspectEvent
<1>4. \A e : e \in Announced(t) <=> e \in PeriodEvents /\ e.kind = "aspect" /\ e.what = t
  BY <1>1 DEF Announced
<1>5. ASSUME NEW e \in Announced(t) PROVE t \in ClosePeaks /\ e = AspectEvent(t)
  <2>1. e \in PeriodEvents /\ e.kind = "aspect" /\ e.what = t
    BY <1>4
  <2>2. PICK u \in ClosePeaks : e = AspectEvent(u)
    BY <1>2, <2>1, EventsAre
  <2> QED BY <1>3, <2>1, <2>2
<1>6. t \in ClosePeaks => AspectEvent(t) \in Announced(t)
  BY <1>3, <1>4, EventsAre
<1> QED BY <1>5, <1>6

LEMMA EachCloseOnce ==
  ASSUME SkInv, skDay = Len(skTrack), skTop = 0, NEW t \in Triples
  PROVE  IF \A d \in 1..Len(skTrack) : SkyOrb(d, t) > PeakOrb + 4 THEN Announced(t) = {}
         ELSE (\E d \in 1..Len(skTrack) : SkyOrb(d, t) <= PeakOrb) =>
                \E e \in Announced(t) :
                  Announced(t) = {e} /\ \A d \in 1..Len(skTrack) : SkyOrb(e.day, t) <= SkyOrb(d, t) + 5
<1> DEFINE days == 1..Len(skTrack)
           O(d) == SkyOrb(d, t)
           peak == skPeaks[t]
           limit == ScanOrb[t[3]]
<1>1. /\ \A d \in days : O(d) \in Nat
      /\ limit \in Nat /\ limit >= 1500 /\ PeakOrb = 1500
  BY TripleIs DEF SkInv, PeakOrb
<1>2. t \in DOMAIN skPeaks => peak.day \in days /\ O(peak.day) <= limit /\ peak.orb = Hundredths(O(peak.day))
  BY DEF SkInv, PeaksInv
<1>3. \A d \in days : O(d) <= limit =>
        t \in DOMAIN skPeaks /\ peak.orb <= Hundredths(O(d)) /\ O(peak.day) <= O(d) + 5
  BY DEF SkInv, PeaksInv, Within
<1>4. t \in ClosePeaks <=> t \in DOMAIN skPeaks /\ peak.orb <= 1500
  BY DEF ClosePeaks, PeakOrb
<1> HIDE DEF days, O, peak, limit
<1>5. ASSUME \A d \in days : O(d) > PeakOrb + 4 PROVE Announced(t) = {}
  <2>1. ASSUME t \in ClosePeaks PROVE FALSE
    <3>1. peak.day \in days /\ O(peak.day) \in Nat /\ Hundredths(O(peak.day)) <= 1500
      BY <1>1, <1>2, <1>4, <2>1
    <3>2. O(peak.day) > 1504
      BY <1>1, <1>5, <3>1
    <3>3. Hundredths(O(peak.day)) > 1500 /\ Hundredths(O(peak.day)) \in Nat
      BY <3>1, <3>2, RoundedOrder
    <3> QED BY <3>1, <3>3
  <2> QED BY <2>1, AnnouncedOnce
<1>6. ASSUME NEW c \in days, O(c) <= PeakOrb
      PROVE  \E e \in Announced(t) : Announced(t) = {e} /\ \A d \in days : O(e.day) <= O(d) + 5
  <2>1. O(c) \in Nat /\ O(c) <= 1500 /\ O(c) <= limit
    BY <1>1, <1>6
  <2>2. /\ t \in DOMAIN skPeaks /\ peak.orb <= Hundredths(O(c))
        /\ peak.day \in days /\ O(peak.day) \in Nat /\ O(peak.day) <= limit /\ peak.orb = Hundredths(O(peak.day))
    BY <1>1, <1>2, <1>3, <2>1
  <2>3. peak.orb <= 1500
    <3>1. Hundredths(O(c)) <= 1500 /\ Hundredths(O(c)) \in Nat /\ Hundredths(O(peak.day)) \in Nat
      BY <2>1, <2>2, RoundedOrder
    <3> QED BY <2>2, <3>1
  <2>4. Announced(t) = {AspectEvent(t)} /\ AspectEvent(t).day = peak.day
    BY <1>4, <2>2, <2>3, AnnouncedOnce DEF AspectEvent, peak
  <2>5. ASSUME NEW d \in days PROVE O(peak.day) <= O(d) + 5
    <3>1. CASE O(d) <= limit
      BY <1>3, <3>1
    <3>2. CASE ~(O(d) <= limit)
      <4>1. O(d) \in Nat
        BY <1>1
      <4> QED BY <1>1, <2>2, <3>2, <4>1
    <3> QED BY <3>1, <3>2
  <2> QED BY <2>4, <2>5
<1> QED BY <1>5, <1>6 DEF days, O

LEMMA EveryChangeShown ==
  ASSUME SkInv, skDay = Len(skTrack), skTop = 0
  PROVE  {<<e.day, e.what>> : e \in {x \in Timeline : x.kind = "ingress"}}
           = {<<y[1], <<y[2], Sign(skTrack[y[1] - 1][y[2]]), Sign(skTrack[y[1]][y[2]])>>>> : y \in SignChanges}
<1> DEFINE shown == {<<e.day, e.what>> : e \in {x \in Timeline : x.kind = "ingress"}}
           of(y) == <<y[1], <<y[2], Sign(skTrack[y[1] - 1][y[2]]), Sign(skTrack[y[1]][y[2]])>>>>
           made == {of(y) : y \in SignChanges}
<1>1. Timeline = PeriodEvents
  BY DEF Timeline
<1>2. SignChanges = ChangesTo(skDay) /\ skIngresses = {ChangeOf(y) : y \in ChangesTo(skDay)}
  BY DEF SkInv, SignsInv, SignChanges, ChangesTo
<1>3. \A y : LET e == ChangeEvent(ChangeOf(y)) IN e.kind = "ingress" /\ <<e.day, e.what>> = of(y)
  BY DEF ChangeEvent, ChangeOf
<1>4. \A u \in ClosePeaks : AspectEvent(u).kind # "ingress"
  BY DEF AspectEvent
<1> HIDE DEF of
<1>5. ASSUME NEW z \in shown PROVE z \in made
  <2>1. PICK e \in PeriodEvents : e.kind = "ingress" /\ z = <<e.day, e.what>>
    BY <1>1
  <2>2. PICK x \in skIngresses : e = ChangeEvent(x)
    BY <1>4, <2>1, EventsAre
  <2>3. PICK y \in SignChanges : x = ChangeOf(y)
    BY <1>2, <2>2
  <2> QED BY <1>3, <2>1, <2>2, <2>3
<1>6. ASSUME NEW z \in made PROVE z \in shown
  <2>1. PICK y \in SignChanges : z = of(y)
    OBVIOUS
  <2>2. ChangeOf(y) \in skIngresses
    BY <1>2
  <2>3. ChangeEvent(ChangeOf(y)) \in PeriodEvents
    BY <2>2, EventsAre
  <2> QED BY <1>1, <1>3, <2>1, <2>3
<1>7. shown = made
  BY <1>5, <1>6
<1> QED BY <1>7 DEF of

LEMMA SkInvSound == SkInv => SkyAgrees
<1> SUFFICES ASSUME SkInv PROVE SkyAgrees
  OBVIOUS
<1>1. ChartAgrees
  BY ChartIsRight DEF SkInv, SkTypes
<1>2. WalkAgrees
  <2> SUFFICES ASSUME skDay = Len(skTrack) PROVE WalkAgrees
    BY DEF WalkAgrees
  <2>1. skTop = 0 => \A t \in Triples :
            IF \A d \in 1..Len(skTrack) : SkyOrb(d, t) > PeakOrb + 4 THEN Announced(t) = {}
            ELSE (\E d \in 1..Len(skTrack) : SkyOrb(d, t) <= PeakOrb) =>
                   \E e \in Announced(t) :
                     Announced(t) = {e} /\ \A d \in 1..Len(skTrack) : SkyOrb(e.day, t) <= SkyOrb(d, t) + 5
    BY EachCloseOnce
  <2>2. skTop = 0 => {<<e.day, e.what>> : e \in {x \in Timeline : x.kind = "ingress"}}
            = {<<y[1], <<y[2], Sign(skTrack[y[1] - 1][y[2]]), Sign(skTrack[y[1]][y[2]])>>>> : y \in SignChanges}
    BY EveryChangeShown
  <2>3. \A e \in PeriodEvents \ Timeline : \A kept \in Timeline : e.weight <= kept.weight
    BY HeaviestAreKept
  <2>4. \A e \in {x \in Timeline : x.kind = "aspect"} : \A sky \in SkHours(skTrack, e.day) :
            Distance(sky[e.what[1]], skTrack[e.day][e.what[1]]) <= Steady =>
              \/ e.what \in DayShown(sky)
              \/ Cardinality({t \in FoundAt(sky) : Weight(t) >= e.weight}) > 10
    BY AnnouncedIsShown
  <2> QED BY <2>1, <2>2, <2>3, <2>4, Zenon DEF WalkAgrees
<1> QED BY <1>1, <1>2 DEF SkyAgrees

(* Whatever the births, the tracks and how much is shown: a chart and a walk of the
   days say what the longitudes do. *)
THEOREM SkyAgreesHolds == SkSpec => []SkyAgrees
<1>1. SkInit => SkInv
  BY SkInvInit
<1>2. SkInv /\ [SkNext]_skVars => SkInv'
  BY SkInvStep
<1>3. SkInv => SkyAgrees
  BY SkInvSound
<1> QED BY <1>1, <1>2, <1>3, PTL DEF SkSpec
=============================================================================
