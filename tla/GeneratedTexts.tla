--------------------------- MODULE GeneratedTexts ---------------------------
(* Texts written by the LLM and kept: the transit, synastry and pair tables
   (transit_interpreter.py, synastry_interpreter.py), the cached transit pages
   (transits.py), horoscopes (horoscope.py, the nightly job in main.py) and
   tarot narratives (tarot.py). A text is "sound" when the validators accepted it
   or it is the service's symbolic text, "filler" or "generic" when it is static. *)
EXTENDS Naturals, FiniteSets

CONSTANTS
  TxHandlers,     \* requests at a time; each may leave one background task
  Charts,         \* natal charts the user's birth data give
  Pages,          \* pages of transits: today, one date, the week, the month
  PageAspects,    \* [Pages -> [Charts -> sets of (transit, natal, aspect)]]
  PairAspects,    \* the aspects of one synastry pair
  PairKey,        \* the hash of that pair: names and aspects
  Opened,         \* the transits whose card the user opens
  AdviceBlocks,   \* advice_do, advice_avoid, affirmation, ritual, risk_warning
  TxGenders

VARIABLES
  txRows,      \* rows of the three tables
  txPages,     \* Redis: transit pages
  txHoros,     \* Redis: horoscopes, per sign ("sign") and per user ("own")
  txTarot,     \* Redis: the narrative of one reading, at most one
  txReq,       \* requests
  txTask,      \* background tasks
  txChart, txGender
txVars == <<txRows, txPages, txHoros, txTarot, txReq, txTask,
            txChart, txGender>>

Transits == UNION {PageAspects[p][c] : p \in Pages, c \in Charts}
NoPage   == [texts |-> <<>>, long |-> FALSE]
NoAsk     == [at |-> "rest", service |-> "", key |-> "", want |-> {}, got |-> "none",
             page |-> NoPage, gender |-> ""]
NoFill   == [at |-> "rest", key |-> "", want |-> {}, got |-> "none"]

TextRow(tab, t, ver, text, advice) ==
  [tab |-> tab, t |-> t, ver |-> ver, text |-> text, advice |-> advice]

TxTypeOK ==
  /\ txRows \subseteq [tab: {"transit", "synastry", "pair"},
                       t: Transits \cup Opened \cup PairAspects \cup {PairKey},
                       ver: {"current", "legacy"},
                       text: {"sound", "filler"}, advice: SUBSET AdviceBlocks]
  /\ \A r, s \in txRows : r.tab = s.tab /\ r.t = s.t /\ r.ver = s.ver => r = s
  /\ \A h \in TxHandlers : txTask[h].got # "none" => txTask[h].at = "store"

-----------------------------------------------------------------------------
(* The LLM: one call, the validators, one corrected call *)

(* What one call brings: a text the validators accept, one they reject, an
   empty one, an answer of the wrong shape, an exception. *)
Outcomes == {"good", "bad", "empty", "shape", "error"}

(* The second answers that make a service fall back on its symbolic text. *)
RefusedBy(service) == CASE service \in {"batch", "aspects"} -> {"bad", "shape"}
                      [] service = "pair"  -> {"bad", "empty", "error"}
                      [] service = "tarot" -> {"bad"}
                      [] OTHER             -> {}

Judged_RetryUnchecked(service, first, second) ==
  LET last == IF first = "bad" THEN second ELSE first
  IN IF first = "bad" /\ last = "bad" THEN "rejected"
     ELSE IF last = "good" \/ (first = "bad" /\ last \in RefusedBy(service)) THEN "sound" ELSE "none"
Judged(service, first, second) ==
  LET last == IF first = "bad" THEN second ELSE first
  IN IF last = "good" \/ (first = "bad" /\ last \in RefusedBy(service)) THEN "sound" ELSE "none"

Answers(service) == {Judged(service, c, d) : c, d \in Outcomes}

-----------------------------------------------------------------------------
(* Lookups see rows of the current version only *)

Stored(tab, keys)  == {r \in txRows : r.tab = tab /\ r.ver = "current" /\ r.t \in keys}
Lacking(tab, keys) == keys \ {r.t : r \in Stored(tab, keys)}
TextOf(tab, t)     == IF Stored(tab, {t}) = {} THEN "filler"
                      ELSE (CHOOSE r \in Stored(tab, {t}) : TRUE).text

Engage(h, r) == txReq[h].at = "rest" /\ txReq' = [txReq EXCEPT ![h] = r]
Proceed(h, at) == txReq' = [txReq EXCEPT ![h].at = at]
Conclude(h)      == txReq' = [txReq EXCEPT ![h] = NoAsk]

(* All rows of one session are inserted by one commit: a row that is already
   there undoes the others. *)
InsertAll(tab, keys, text) ==
  txRows' = IF Lacking(tab, keys) = keys
            THEN txRows \cup {TextRow(tab, t, "current", text, {}) : t \in keys} ELSE txRows

-----------------------------------------------------------------------------
(* A page of transits: what the table has, filler for the rest, and a task
   that asks for the rest and then drops the page. *)

PageTexts(want)    == [t \in want |-> TextOf("transit", t)]
PageOf(want, full) == [texts |-> PageTexts(want), long |-> full]
PageIsDue(p)       == txPages[p] = NoPage

OpenPage_CountLate(h, p) ==
  /\ PageIsDue(p) /\ txTask[h] = NoFill
  /\ LET want == PageAspects[p][txChart]
         lack == Lacking("transit", want)
     IN /\ Engage(h, [NoAsk EXCEPT !.at = "answer", !.service = "page", !.key = p,
                       !.page = PageOf(want, TRUE)])
        /\ txTask' = [txTask EXCEPT ![h] =
             IF lack = {} THEN NoFill
             ELSE [at |-> "ask", key |-> p, want |-> lack, got |-> "none"]]
  /\ UNCHANGED <<txRows, txPages, txHoros, txTarot, txChart, txGender>>
OpenPage(h, p) ==
  /\ PageIsDue(p) /\ txTask[h] = NoFill
  /\ LET want == PageAspects[p][txChart]
         lack == Lacking("transit", want)
     IN /\ Engage(h, [NoAsk EXCEPT !.at = "answer", !.service = "page", !.key = p,
                       !.page = PageOf(want, lack = {})])
        /\ txTask' = [txTask EXCEPT ![h] =
             IF lack = {} THEN NoFill
             ELSE [at |-> "ask", key |-> p, want |-> lack, got |-> "none"]]
  /\ UNCHANGED <<txRows, txPages, txHoros, txTarot, txChart, txGender>>

AnswerPage(h) ==
  /\ txReq[h].at = "answer"
  /\ txPages' = [txPages EXCEPT ![txReq[h].key] = txReq[h].page]
  /\ Conclude(h)
  /\ UNCHANGED <<txRows, txHoros, txTarot, txTask, txChart, txGender>>

TaskAsk(h) ==
  /\ txTask[h].at = "ask"
  /\ \E a \in Answers("batch"), some \in SUBSET txTask[h].want :
       /\ a # "sound" => some = txTask[h].want
       /\ txTask' = [txTask EXCEPT ![h].at = IF a = "none" THEN "drop" ELSE "store",
                                   ![h].want = some, ![h].got = a]
  /\ UNCHANGED <<txRows, txPages, txHoros, txTarot, txReq, txChart, txGender>>

TaskStore(h) ==
  /\ txTask[h].at = "store"
  /\ InsertAll("transit", txTask[h].want, txTask[h].got)
  /\ txTask' = [txTask EXCEPT ![h].at = "drop", ![h].got = "none"]
  /\ UNCHANGED <<txPages, txHoros, txTarot, txReq, txChart, txGender>>

TaskDrop(h) ==
  /\ txTask[h].at = "drop"
  /\ txPages' = [txPages EXCEPT ![txTask[h].key] = NoPage]
  /\ txTask' = [txTask EXCEPT ![h] = NoFill]
  /\ UNCHANGED <<txRows, txHoros, txTarot, txReq, txChart, txGender>>

-----------------------------------------------------------------------------
(* Advice for one transit: completed in its row; without a current row a new
   one is inserted, under the column's default version and with the filler. *)

(* What one answer brings: some of the blocks, not all of them for sure. *)
NewAdvice == (SUBSET AdviceBlocks) \ {{}}

Details(h, t) ==
  LET mine == Stored("transit", {t})
  IN /\ \A r \in mine : r.advice # AdviceBlocks
     /\ Engage(h, [NoAsk EXCEPT !.at = "ask", !.service = "advice", !.key = t, !.want = mine])
     /\ UNCHANGED <<txRows, txPages, txHoros, txTarot, txTask, txChart, txGender>>

StoreAdvice(h) ==
  /\ txReq[h].at = "store" /\ txReq[h].service = "advice"
  /\ LET t == txReq[h].key  seen == txReq[h].want
         other == {r \in txRows : r.tab = "transit" /\ r.t = t /\ r.ver = "legacy"}
     IN \E new \in NewAdvice :
          IF seen # {}
          THEN txRows' = (txRows \ Stored("transit", {t}))
                 \cup {[r EXCEPT !.advice = new \cup UNION {s.advice : s \in seen}] :
                         r \in Stored("transit", {t})}
          ELSE txRows' = IF other # {} THEN txRows
                         ELSE txRows \cup {TextRow("transit", t, "legacy", "filler", new)}
  /\ Conclude(h)
  /\ UNCHANGED <<txPages, txHoros, txTarot, txTask, txChart, txGender>>

-----------------------------------------------------------------------------
(* Synastry: the texts of the aspects, then the portrait of the pair *)

Compare(h) ==
  /\ LET lack == Lacking("synastry", PairAspects)
     IN Engage(h, [NoAsk EXCEPT !.at = IF lack = {} THEN "pair" ELSE "ask",
                              !.service = "aspects", !.want = lack])
  /\ UNCHANGED <<txRows, txPages, txHoros, txTarot, txTask, txChart, txGender>>

(* A flush that meets another session's row fails the whole request. *)
StoreAspects(h) ==
  /\ txReq[h].at = "store" /\ txReq[h].service = "aspects"
  /\ InsertAll("synastry", txReq[h].want, txReq[h].got)
  /\ IF Lacking("synastry", txReq[h].want) = txReq[h].want THEN Proceed(h, "pair") ELSE Conclude(h)
  /\ UNCHANGED <<txPages, txHoros, txTarot, txTask, txChart, txGender>>

PairPortrait(h) ==
  /\ txReq[h].at = "pair"
  /\ txReq' = [txReq EXCEPT ![h] =
       IF Stored("pair", {PairKey}) # {} THEN NoAsk
       ELSE [NoAsk EXCEPT !.at = "ask", !.service = "pair"]]
  /\ UNCHANGED <<txRows, txPages, txHoros, txTarot, txTask, txChart, txGender>>

(* ON CONFLICT DO NOTHING *)
StorePair(h) ==
  /\ txReq[h].at = "store" /\ txReq[h].service = "pair"
  /\ InsertAll("pair", {PairKey}, txReq[h].got)
  /\ Conclude(h)
  /\ UNCHANGED <<txPages, txHoros, txTarot, txTask, txChart, txGender>>

-----------------------------------------------------------------------------
(* Horoscopes: any failure leaves the generic text in the cache for its day *)

OpenHoroscope(h, k) ==
  /\ txHoros[k] = "none"
  /\ Engage(h, [NoAsk EXCEPT !.at = "ask", !.service = "horoscope", !.key = k])
  /\ UNCHANGED <<txRows, txPages, txHoros, txTarot, txTask, txChart, txGender>>

(* The nightly job asks whatever the cache holds. *)
NightlyHoroscope(h) ==
  /\ Engage(h, [NoAsk EXCEPT !.at = "ask", !.service = "horoscope", !.key = "sign"])
  /\ UNCHANGED <<txRows, txPages, txHoros, txTarot, txTask, txChart, txGender>>

StoreHoroscope(h) ==
  /\ txReq[h].at = "store" /\ txReq[h].service = "horoscope"
  /\ txHoros' = [txHoros EXCEPT ![txReq[h].key] =
                   IF txReq[h].got = "none" THEN "generic" ELSE txReq[h].got]
  /\ Conclude(h)
  /\ UNCHANGED <<txRows, txPages, txTarot, txTask, txChart, txGender>>

(* The narrative of a spread, kept with the gender it was written for. *)
Interpret(h) ==
  /\ \A e \in txTarot : e.gender # txGender
  /\ Engage(h, [NoAsk EXCEPT !.at = "ask", !.service = "tarot", !.gender = txGender])
  /\ UNCHANGED <<txRows, txPages, txHoros, txTarot, txTask, txChart, txGender>>

StoreNarrative(h) ==
  /\ txReq[h].at = "store" /\ txReq[h].service = "tarot"
  /\ txTarot' = {[text |-> txReq[h].got, gender |-> txReq[h].gender]}
  /\ Conclude(h)
  /\ UNCHANGED <<txRows, txPages, txHoros, txTask, txChart, txGender>>

-----------------------------------------------------------------------------
(* The answer of the LLM in a request. A failure ends it: advice and tarot
   store nothing, synastry goes on with filler, a horoscope stores. *)
AskText(h) ==
  /\ txReq[h].at = "ask"
  /\ \E a \in Answers(txReq[h].service) :
       txReq' = [txReq EXCEPT ![h] =
         IF a # "none" \/ txReq[h].service = "horoscope"
         THEN [txReq[h] EXCEPT !.at = "store", !.got = a]
         ELSE IF txReq[h].service = "aspects" THEN [txReq[h] EXCEPT !.at = "pair"] ELSE NoAsk]
  /\ UNCHANGED <<txRows, txPages, txHoros, txTarot, txTask, txChart, txGender>>

EditChart ==
  /\ txChart' \in Charts
  /\ UNCHANGED <<txRows, txPages, txHoros, txTarot, txReq, txTask, txGender>>
EditReader ==
  /\ txGender' \in TxGenders
  /\ UNCHANGED <<txRows, txPages, txHoros, txTarot, txReq, txTask, txChart>>

ExpirePage(p) ==
  /\ txPages' = [txPages EXCEPT ![p] = NoPage]
  /\ UNCHANGED <<txRows, txHoros, txTarot, txReq, txTask, txChart, txGender>>
ExpireText ==
  /\ \/ txTarot' = {} /\ UNCHANGED txHoros
     \/ \E k \in DOMAIN txHoros : txHoros' = [txHoros EXCEPT ![k] = "none"] /\ UNCHANGED txTarot
  /\ UNCHANGED <<txRows, txPages, txReq, txTask, txChart, txGender>>

(* The process ends with a task and a request in it. *)
TaskDies(h) ==
  /\ txTask[h] # NoFill
  /\ txTask' = [txTask EXCEPT ![h] = NoFill] /\ Conclude(h)
  /\ UNCHANGED <<txRows, txPages, txHoros, txTarot, txChart, txGender>>

TxInit ==
  /\ txRows = {} /\ txPages = [p \in Pages |-> NoPage]
  /\ txHoros = [k \in {"sign", "own"} |-> "none"] /\ txTarot = {}
  /\ txReq = [h \in TxHandlers |-> NoAsk] /\ txTask = [h \in TxHandlers |-> NoFill]
  /\ txChart \in Charts /\ txGender \in TxGenders

(* The services share the LLM and the process, not their state. *)
TransitsNext ==
  \/ \E h \in TxHandlers :
       \/ \E p \in Pages : OpenPage(h, p)
       \/ \E t \in Opened : Details(h, t)
       \/ AnswerPage(h) \/ TaskAsk(h) \/ TaskStore(h) \/ TaskDrop(h) \/ TaskDies(h)
       \/ StoreAdvice(h) \/ AskText(h)
  \/ EditChart \/ \E p \in Pages : ExpirePage(p)
PairNext ==
  \E h \in TxHandlers :
    Compare(h) \/ StoreAspects(h) \/ PairPortrait(h) \/ StorePair(h) \/ AskText(h)
DailyNext ==
  \/ \E h \in TxHandlers :
       \/ \E k \in {"sign", "own"} : OpenHoroscope(h, k)
       \/ NightlyHoroscope(h) \/ StoreHoroscope(h)
       \/ Interpret(h) \/ StoreNarrative(h) \/ AskText(h)
  \/ EditReader \/ ExpireText
TxNext == TransitsNext \/ PairNext \/ DailyNext

TxSpec == TxInit /\ [][TxNext]_txVars

-----------------------------------------------------------------------------
(* What is kept can be served again: no table and no cache holds an answer the
   validators rejected, and a page cached for hours (not for the minute its
   task needs) shows for every aspect the text the table has, never filler,
   whatever tasks, collisions of commits, deaths and advice rows come between. *)
KeptTexts ==
  /\ \A r \in txRows : r.text # "rejected"
  /\ \A k \in DOMAIN txHoros : txHoros[k] # "rejected"
  /\ \A e \in txTarot : e.text # "rejected"
  /\ \A p \in Pages : txPages[p].long =>
       \A t \in DOMAIN txPages[p].texts :
         /\ Stored("transit", {t}) # {}
         /\ txPages[p].texts[t] = TextOf("transit", t)
=============================================================================
