------------------------------ MODULE NatalCache ------------------------------
(***************************************************************************)
(* One user's natal readings as the endpoints other than the PDF job see   *)
(* them (api/routes/natal.py): a Redis entry that /mini, /full and the     *)
(* report generator each read, merge and write back whole, and a database  *)
(* row that they, the wheel upload and the profile edits write, with       *)
(* nothing but the report's input hash to tell what a text was written     *)
(* for, and nothing but a gender to tell what a mini text was.  PdfJobs    *)
(* models the queue and the PDF side of the same state, Wheels the picture *)
(* that an upload is about.                                                *)
(***************************************************************************)
EXTENDS Integers

CONSTANTS
  NatalHandlers,  \* requests in progress
  Genders, NoGender,  \* what a user may have set, and a user who has not
  Nothing,
  Reduced,        \* the hash of aspects without `applying`: of no stored chart
  MaxBirths,      \* bound: edits of the birth data
  MaxNatalAsks    \* bound: requests

Births == 0..MaxBirths
(* What a report is written from, and what its input hash stands for: the sign
   columns, the JSON column chart_data and the gender. *)
Input == [signs: Births, data: Births, gender: Genders \cup {NoGender}]

ASSUME NatalAssumption ==
  /\ MaxBirths \in Nat /\ MaxNatalAsks \in Nat
  /\ Nothing \notin Input /\ Reduced \notin Input \cup {Nothing}

Hash == Input \cup {Nothing, Reduced}
NatalRow == [signs: Births, data: Births, gender: Genders \cup {NoGender},
             text: Input \cup {Nothing}, hash: Hash]
(* A mini text: what it was written from, and the gender it is marked with. *)
Mini == [signs: Births, gender: Genders \cup {NoGender}, mark: Genders \cup {NoGender}]
NoMini == [signs |-> Nothing, gender |-> Nothing, mark |-> Nothing]
Entry == [planets: Births \cup {Nothing},
          text: Input \cup {Nothing}, hash: Hash, mini: Mini \cup {NoMini}]
NoEntry == [planets |-> Nothing, text |-> Nothing, hash |-> Nothing, mini |-> NoMini]

VARIABLES
  row,      \* users and natal_charts
  entry,    \* the Redis value under key_natal
  nreq,     \* handler -> [kind, at, row as loaded, cached as read, ready]
  honest,   \* ghost: every text served as fresh was written for who asked
  crossed,  \* ghost: a request that may write the entry crossed the last edit
  asks      \* requests so far

natalVars == <<row, entry, nreq, honest, crossed, asks>>

NatalIdle == [kind |-> "none", at |-> "idle", row |-> Nothing, cached |-> NoEntry, ready |-> Nothing]
NatalInit ==
  /\ row = [signs |-> 0, data |-> 0, gender |-> NoGender, text |-> Nothing, hash |-> Nothing]
  /\ entry = NoEntry /\ asks = 0
  /\ nreq = [h \in NatalHandlers |-> NatalIdle]
  /\ honest = TRUE /\ crossed = FALSE

InputOf(r) == [signs |-> r.signs, data |-> r.data, gender |-> r.gender]

(* _reading_is_fresh, for an entry as for the row's columns. *)
FreshReading(v, r) == v.text # Nothing /\ v.hash = InputOf(r)

(* _mini_is_fresh *)
FreshMini(mini, r) == mini # NoMini /\ mini.mark = r.gender

(* The requests that write the entry back. *)
Rewriters == {"mini", "full", "report"}
Rewriting == \E h \in NatalHandlers : nreq[h].kind \in Rewriters

(* A birth edit that has flushed holds both rows until it commits. *)
RowOpen == \A h \in NatalHandlers : nreq[h].at \notin {"uncache", "commit"}

Stands(h, kinds, at) == nreq[h].kind \in kinds /\ nreq[h].at = at
Step(h, at) == nreq' = [nreq EXCEPT ![h].at = at]
Close(h) == nreq' = [nreq EXCEPT ![h] = NatalIdle]
Show(asked, got) == honest' = (honest /\ asked = got)

(* The user and the chart are loaded once, at the start of every request. *)
OpenNatal(h, k) ==
  /\ nreq[h] = NatalIdle /\ asks < MaxNatalAsks
  /\ asks' = asks + 1
  /\ nreq' = [nreq EXCEPT ![h] = [kind |-> k, at |-> "read", row |-> row,
                                  cached |-> NoEntry, ready |-> Nothing]]
  /\ crossed' = (crossed \/ (/\ k \in Rewriters
                             /\ \E i \in NatalHandlers : nreq[i].at = "commit"))
  /\ UNCHANGED <<row, entry, honest>>

-----------------------------------------------------------------------------
(* /mini: served when its mark is the reader's gender, else written by a cheap
   LLM call (one per user in a process; an error serves none) *)

MiniRead(h) ==
  /\ Stands(h, {"mini"}, "read")
  /\ IF FreshMini(entry.mini, nreq[h].row)
     THEN /\ honest' = (/\ honest /\ entry.mini.gender = nreq[h].row.gender
                        /\ crossed \/ entry.mini.signs = nreq[h].row.signs)
          /\ Close(h)
     ELSE /\ nreq' = [nreq EXCEPT ![h].cached = entry, ![h].at = "write"]
          /\ UNCHANGED honest
  /\ UNCHANGED <<row, entry, crossed, asks>>

(* {**cached_payload, "mini_reading": ...}: the entry as read before the call,
   marked with the gender only. *)
MiniWrite(h) ==
  /\ Stands(h, {"mini"}, "write")
  /\ LET r == nreq[h].row
         mini == [signs |-> r.signs, gender |-> r.gender, mark |-> r.gender]
     IN  entry' \in {entry, [nreq[h].cached EXCEPT !.mini = mini]}
  /\ Close(h)
  /\ UNCHANGED <<row, honest, crossed, asks>>

-----------------------------------------------------------------------------
(* _get_ready_pdf_reading for /full and for the report generator: the entry is
   read a second time; a fresh text in it is copied to the row. *)

FullRead(h) ==
  /\ Stands(h, {"full", "report"}, "read")
  /\ nreq' = [nreq EXCEPT ![h].cached = entry, ![h].at = "ready"]
  /\ UNCHANGED <<row, entry, honest, crossed, asks>>

FindReady(h) ==
  /\ Stands(h, {"full", "report"}, "ready")
  /\ LET mine == nreq[h].row
         ready == IF FreshReading(entry, mine) THEN entry.text
                  ELSE IF FreshReading(mine, mine) THEN mine.text ELSE Nothing
     IN  /\ IF FreshReading(entry, mine) /\ ~FreshReading(mine, mine)
            THEN RowOpen /\ row' = [row EXCEPT !.text = entry.text, !.hash = InputOf(mine)]
            ELSE UNCHANGED row
         /\ IF nreq[h].kind = "report" /\ ready # Nothing
            THEN Close(h) /\ Show(InputOf(mine), ready)
            ELSE /\ nreq' = [nreq EXCEPT ![h].ready = ready,
                                         ![h].at = IF nreq[h].kind = "full" THEN "answer" ELSE "generate"]
                 /\ UNCHANGED honest
  /\ UNCHANGED <<entry, crossed, asks>>

(* /full never generates.  With positions in the entry it read and a fresh
   text it refreshes that entry; else it builds a new one, with a fresh text
   and its hash, or with an old text from the row and none. *)
Rebuilt_HashAlways(r, ready) ==
  [planets |-> r.data, text |-> IF ready # Nothing THEN ready ELSE r.text,
   hash |-> InputOf(r), mini |-> NoMini]
Rebuilt(r, ready) ==
  [planets |-> r.data, text |-> IF ready # Nothing THEN ready ELSE r.text,
   hash |-> IF ready # Nothing THEN InputOf(r) ELSE Nothing, mini |-> NoMini]
FullAnswer(h) ==
  /\ Stands(h, {"full"}, "answer")
  /\ LET q == nreq[h]
     IN  /\ entry' = IF q.cached.planets # Nothing /\ q.ready # Nothing
                     THEN [q.cached EXCEPT !.text = q.ready, !.hash = InputOf(q.row)]
                     ELSE Rebuilt(q.row, q.ready)
         /\ IF q.ready # Nothing THEN Show(InputOf(q.row), q.ready) ELSE UNCHANGED honest
  /\ Close(h)
  /\ UNCHANGED <<row, crossed, asks>>

(* A minute of LLM calls later: the row, then the entry as read before them.
   The inline PDF hashes reduced aspects. *)
ReportSave(h) ==
  /\ Stands(h, {"report"}, "generate")
  /\ \/ /\ RowOpen
        /\ \E hash \in {InputOf(nreq[h].row), Reduced} :
             /\ row' = [row EXCEPT !.text = InputOf(nreq[h].row), !.hash = hash]
             /\ nreq' = [nreq EXCEPT ![h].at = "cache",
                                     ![h].cached.text = InputOf(nreq[h].row),
                                     ![h].cached.hash = hash]
     \/ /\ Close(h)
        /\ UNCHANGED row
  /\ UNCHANGED <<entry, honest, crossed, asks>>
ReportCache(h) ==
  /\ Stands(h, {"report"}, "cache")
  /\ entry' = nreq[h].cached
  /\ Show(InputOf(nreq[h].row), nreq[h].cached.text)
  /\ Close(h)
  /\ UNCHANGED <<row, crossed, asks>>

-----------------------------------------------------------------------------
(* POST /natal/wheel-svg stores {**chart_data, "wheel_svg": svg}, unless the
   loaded column has that picture: the positions go back as they were loaded. *)
WheelStore(h) ==
  /\ Stands(h, {"wheel"}, "read")
  /\ RowOpen
  /\ row' \in {row, [row EXCEPT !.data = nreq[h].row.data]}
  /\ Close(h)
  /\ UNCHANGED <<entry, honest, crossed, asks>>

(* POST /users/me/birth: flush, drop the entry, commit on return.  The reading
   columns are cleared unless the session's copy had none. *)
BirthFlush(h) ==
  /\ Stands(h, {"birth"}, "read")
  /\ RowOpen /\ row.signs < MaxBirths
  /\ Step(h, "uncache")
  /\ UNCHANGED <<row, entry, honest, crossed, asks>>
BirthUncache_TextOnly(h) ==
  /\ Stands(h, {"birth"}, "uncache")
  /\ entry' = [NoEntry EXCEPT !.mini = entry.mini]
  /\ crossed' = Rewriting
  /\ Step(h, "commit")
  /\ UNCHANGED <<row, honest, asks>>
BirthUncache(h) ==
  /\ Stands(h, {"birth"}, "uncache")
  /\ entry' = NoEntry
  /\ crossed' = Rewriting
  /\ Step(h, "commit")
  /\ UNCHANGED <<row, honest, asks>>
BirthCommit(h) ==
  /\ Stands(h, {"birth"}, "commit")
  /\ LET new == [row EXCEPT !.signs = @ + 1, !.data = row.signs + 1]
     IN  row' = [new EXCEPT !.text = IF nreq[h].row.text = Nothing THEN @ ELSE Nothing,
                            !.hash = IF nreq[h].row.hash = Nothing THEN @ ELSE Nothing]
  /\ Close(h)
  /\ UNCHANGED <<entry, honest, crossed, asks>>

(* POST /users/me/gender leaves the texts where they are. *)
SetGender(h, g) ==
  /\ Stands(h, {"gender"}, "read")
  /\ RowOpen
  /\ row' = [row EXCEPT !.gender = g]
  /\ Close(h)
  /\ UNCHANGED <<entry, honest, crossed, asks>>

EntryExpires ==
  /\ entry # NoEntry
  /\ entry' = NoEntry
  /\ UNCHANGED <<row, nreq, honest, crossed, asks>>

NatalKinds == {"mini", "full", "report", "wheel", "birth", "gender"}
NatalNext ==
  \/ \E h \in NatalHandlers :
       \/ \E k \in NatalKinds : OpenNatal(h, k)
       \/ MiniRead(h) \/ MiniWrite(h)
       \/ FullRead(h) \/ FindReady(h) \/ FullAnswer(h)
       \/ ReportSave(h) \/ ReportCache(h)
       \/ WheelStore(h) \/ BirthFlush(h) \/ BirthUncache(h) \/ BirthCommit(h)
       \/ \E g \in Genders : SetGender(h, g)
  \/ EntryExpires

NatalSpec == NatalInit /\ [][NatalNext]_natalVars

-----------------------------------------------------------------------------

NatalRequest ==
  [kind: NatalKinds \cup {"none"},
   at: {"idle", "read", "write", "ready", "answer", "generate", "cache", "uncache", "commit"},
   row: NatalRow \cup {Nothing}, cached: Entry, ready: Input \cup {Nothing}]

(* Every variable has its type. *)
NatalTypeOK ==
  /\ row \in NatalRow /\ entry \in Entry /\ asks \in 0..MaxNatalAsks
  /\ honest \in BOOLEAN /\ crossed \in BOOLEAN
  /\ nreq \in [NatalHandlers -> NatalRequest]

(* Whatever order the blind writes of entry and row come in, a text under an
   input's hash was written from that input, a mini text is marked with the
   gender it was written for, and a fresh answer is about the row its request
   loaded.  The signs of a mini text are nowhere marked: they are the row's as
   long as no request that writes the entry back crossed the edit. *)
NatalTextsAreOwn ==
  /\ \A v \in {row, entry} : v.hash \in Input => v.text = v.hash
  /\ entry.mini.gender = entry.mini.mark
  /\ entry.mini = NoMini \/ crossed \/ entry.mini.signs = row.signs
  /\ honest
=============================================================================
