-------------------------- MODULE NatalDescriptions --------------------------
(* The descriptions of planets, houses and aspects (services/astro/
   natal_descriptions.py): batches asked at once, texts judged by
   services/quality_validator.py, two rounds of repair, and the aspects that the
   report hides. A text is [says, words, faults]: its content, its length and
   the faults the validator's patterns find in it. *)
EXTENDS Naturals, Sequences, Functions

CONSTANTS
  NdCharts,     \* [planets, houses, aspects], sequences of keys, and stray keys
  NdImportant,  \* the aspects with a narrow orb or a personal planet
  NdReplies,    \* [short, full]: what the model may write for a key
  NdBatch,      \* keys of one call, _BATCH_SIZE
  NdAttempts,   \* _RATE_LIMIT_MAX_ATTEMPTS
  NdPlainWords(_) \* the words of an aspect's plain text

(* A text is one with its words, and a plain text is told from the model's: with
   the names of two planets it has from 99 to 109 words. *)
ASSUME DescriptionsAssumption ==
  /\ NdBatch \in Nat \ {0} /\ \A k \in NdImportant : NdPlainWords(k) \in 99..109
  /\ \A c \in NdCharts : \A s \in {"planets", "houses", "aspects"} : Len(c[s]) \in Nat
  /\ \A r \in NdReplies :
       /\ r.short \in BOOLEAN /\ r.full.words \in Nat /\ r.full.says[1] # "plain"
       /\ \A q \in NdReplies : q.full.says = r.full.says => q.full = r.full

VARIABLES
  ndChart,
  ndCalls,     \* the calls in flight: [section, keys, tries, reply]
  ndFirst,     \* section -> the entries the batches brought
  ndEntries,   \* section -> the entries as repaired so far
  ndRepairing  \* <<section, round>> to come, <<>> when all is done
ndVars == <<ndChart, ndCalls, ndFirst, ndEntries, ndRepairing>>

-----------------------------------------------------------------------------
(* What the validator says of a text *)

Fatal == {"EMPTY", "TOO_SHORT_CRITICAL", "TRUNCATED", "FOREIGN_SCRIPT", "MIXED_SCRIPT_WORD"}
ThinFloor(section) == CASE section = "planets" -> 72 [] section = "houses" -> 96 [] OTHER -> 112
ByPattern(section) ==
  {"TRUNCATED", "FOREIGN_SCRIPT", "MIXED_SCRIPT_WORD", "TEMPLATE_PHRASE", "LATIN_IN_RUSSIAN",
   "GENDER_NUMBER_MISMATCH", "PERSON_MISMATCH", "CASE_AFTER_PREP", "SIGN_PLANET_REVERSED", "TYPO",
   "WORD_DUPLICATION"}
  \cup (IF section = "aspects" THEN {"FALSE_ASC_ATTRIBUTION"} ELSE {"GENERATIONAL_IN_INDIVIDUAL"})
Issues(text, section) ==
  IF text.words = 0 THEN {"EMPTY"}
  ELSE (IF text.words < 50 THEN {"TOO_SHORT_CRITICAL"}
        ELSE IF text.words < ThinFloor(section) THEN {"TOO_SHORT_THIN"} ELSE {})
       \cup (text.faults \cap ByPattern(section))

(* Asked for again: what cannot stand, and texts copied from elsewhere. Hidden:
   nearly the same, for aspects. *)
HideCodes == Fatal \cup {"TEMPLATE_PHRASE", "TOO_SHORT_THIN", "CASE_AFTER_PREP",
  "FALSE_ASC_ATTRIBUTION", "GENDER_NUMBER_MISMATCH", "PERSON_MISMATCH", "LATIN_IN_RUSSIAN",
  "SIGN_PLANET_REVERSED", "TYPO"}
RepairCodes == HideCodes \cup {"GENERATIONAL_IN_INDIVIDUAL"}
NeedsRepair(e, section) ==
  Issues(e.full, section) \cap RepairCodes # {} \/ "COPY_MARKER" \in e.full.faults
Unfit(e) == Issues(e.full, "aspects") \cap HideCodes # {}

-----------------------------------------------------------------------------
(* The batches *)

NdSections == {"planets", "houses", "aspects"}
ChunksOf(keys) ==
  [i \in 1..((Len(keys) + NdBatch - 1) \div NdBatch) |->
     SubSeq(keys, (i - 1) * NdBatch + 1, IF i * NdBatch < Len(keys) THEN i * NdBatch ELSE Len(keys))]
CallsFor(chart, section) ==
  [i \in DOMAIN ChunksOf(chart[section]) |->
     [section |-> section, keys |-> ChunksOf(chart[section])[i], tries |-> 0, reply |-> <<"none">>]]
CallsOf(chart) ==
  CallsFor(chart, "planets") \o CallsFor(chart, "houses") \o CallsFor(chart, "aspects")

NdInit ==
  /\ ndChart \in NdCharts
  /\ ndCalls = CallsOf(ndChart)
  /\ ndFirst = [s \in NdSections |-> <<>>] /\ ndEntries = ndFirst
  /\ ndRepairing = <<"planets", 1>>

Waiting(i) == ndCalls[i].reply = <<"none">>

(* The provider asks to come back later, a limited number of times. *)
RateLimited(i) ==
  /\ Waiting(i) /\ ndCalls[i].tries < NdAttempts - 1
  /\ ndCalls' = [ndCalls EXCEPT ![i].tries = @ + 1]
  /\ UNCHANGED <<ndChart, ndFirst, ndEntries, ndRepairing>>

CallFailed(i) ==
  /\ Waiting(i)
  /\ ndCalls' = [ndCalls EXCEPT ![i].reply = <<"texts", <<>>>>]
  /\ UNCHANGED <<ndChart, ndFirst, ndEntries, ndRepairing>>

(* The reply holds some of the keys, in any order, and perhaps others. *)
SomeEntries(keys, n) ==
  {[j \in 1..n |-> [key |-> ks[j], short |-> rs[j].short, full |-> rs[j].full]] :
     ks \in {k \in [1..n -> keys] : \A i, j \in 1..n : i # j => k[i] # k[j]}, rs \in [1..n -> NdReplies]}
Entries(keys) == UNION {SomeEntries(keys, n) : n \in 1..NdBatch}
Replied(i) ==
  /\ Waiting(i)
  /\ \E es \in Entries(Range(ndCalls[i].keys) \cup ndChart.stray) :
       ndCalls' = [ndCalls EXCEPT ![i].reply = <<"texts", es>>]
  /\ UNCHANGED <<ndChart, ndFirst, ndEntries, ndRepairing>>

(* When every call is back: entries with a text, in the order they came; a key
   that comes again takes the place of the first. Only aspects are looked up in
   the chart. *)
Put(es, e) ==
  IF \E i \in DOMAIN es : es[i].key = e.key
  THEN [i \in DOMAIN es |-> IF es[i].key = e.key THEN e ELSE es[i]] ELSE Append(es, e)
Kept(section, e) ==
  /\ e.short \/ e.full.words > 0
  /\ section = "aspects" => e.key \in Range(ndChart.aspects)
PutAll(section, es, more) ==
  LET f[i \in 0..Len(more)] ==
        IF i = 0 THEN es ELSE IF Kept(section, more[i]) THEN Put(f[i - 1], more[i]) ELSE f[i - 1]
  IN f[Len(more)]
Collected(section) ==
  LET f[i \in 0..Len(ndCalls)] ==
        IF i = 0 THEN <<>>
        ELSE IF ndCalls[i].section = section THEN PutAll(section, f[i - 1], ndCalls[i].reply[2])
        ELSE f[i - 1]
  IN f[Len(ndCalls)]
Gather ==
  /\ ndCalls # <<>> /\ \A i \in DOMAIN ndCalls : ~Waiting(i)
  /\ ndFirst' = [s \in NdSections |-> Collected(s)]
  /\ ndEntries' = ndFirst' /\ ndCalls' = <<>>
  /\ UNCHANGED <<ndChart, ndRepairing>>

-----------------------------------------------------------------------------
(* _repair_entries: every bad text is asked for once more, twice; an answer with
   a text takes its place. *)
RepairKeys(section) == {e.key : e \in {x \in Range(ndEntries[section]) : NeedsRepair(x, section)}}
NextRepair(section, round) ==
  CASE round = 1 /\ RepairKeys(section) # {} -> <<section, 2>>
    [] section = "planets" -> <<"houses", 1>>
    [] section = "houses"  -> <<"aspects", 1>>
    [] OTHER -> <<>>
Repaired(es, reply) ==
  LET Better(e) == e.key \in DOMAIN reply
                   /\ (reply[e.key].short \/ reply[e.key].full.words > 0)
  IN [i \in DOMAIN es |->
        IF Better(es[i])
        THEN [key |-> es[i].key, short |-> reply[es[i].key].short, full |-> reply[es[i].key].full]
        ELSE es[i]]
Repair ==
  /\ ndCalls = <<>> /\ ndRepairing # <<>>
  /\ LET section == ndRepairing[1]
     IN \E reply \in [RepairKeys(section) -> NdReplies] :
          ndEntries' = [ndEntries EXCEPT ![section] = Repaired(@, reply)]
  /\ ndRepairing' = NextRepair(ndRepairing[1], ndRepairing[2])
  /\ UNCHANGED <<ndChart, ndCalls, ndFirst>>

NdNext ==
  \/ \E i \in DOMAIN ndCalls : RateLimited(i) \/ CallFailed(i) \/ Replied(i)
  \/ Gather \/ Repair

NdSpec == NdInit /\ [][NdNext]_ndVars

-----------------------------------------------------------------------------
(* What the report shows of the aspects: an unfit text is hidden, but an
   important aspect without one gets a plain text; a text that was there before
   is hidden. *)
PlainText(key) == [says |-> <<"plain", key>>, words |-> NdPlainWords(key), faults |-> {}]
Marked_LastOnly(e, seen) ==
  LET plain == Unfit(e) /\ e.full.words = 0 /\ e.key \in NdImportant
      full  == IF plain THEN PlainText(e.key) ELSE e.full
  IN [key |-> e.key, full |-> full,
      hide |-> (Unfit(e) /\ ~plain)
               \/ (full.words > 0 /\ seen # <<>> /\ full.says = seen[Len(seen)])]
Marked(e, seen) ==
  LET plain == Unfit(e) /\ e.full.words = 0 /\ e.key \in NdImportant
      full  == IF plain THEN PlainText(e.key) ELSE e.full
  IN [key |-> e.key, full |-> full,
      hide |-> (Unfit(e) /\ ~plain) \/ (full.words > 0 /\ full.says \in Range(seen))]
Says(shown) == [i \in DOMAIN shown |-> shown[i].full.says]
MarkedAll(es) ==
  LET f[i \in 0..Len(es)] ==
        IF i = 0 THEN <<>> ELSE Append(f[i - 1], Marked(es[i], Says(f[i - 1])))
  IN f[Len(es)]
AspectsOut == MarkedAll(ndEntries["aspects"])

(* Words the validator accepts; or the plain text of an important aspect that the
   model gave no words for, in which the validator finds nothing but that it is short. *)
FitOrPlain(shown, e) ==
  \/ ~Unfit(shown)
  \/ /\ e.key \in NdImportant /\ e.full.words = 0
     /\ shown.full = PlainText(e.key) /\ Issues(shown.full, "aspects") = {"TOO_SHORT_THIN"}
(* A text the validator accepted is never asked for again or replaced; nothing
   but the chart's aspects is shown, none without words or with words that the
   validator refuses, the short plain text excepted; no two of them have the same
   text; and an important aspect that was answered at all is left out only for a
   text that was refused or that stands elsewhere. *)
DescriptionsSound ==
  /\ ndCalls = <<>> =>
       \A s \in NdSections : \A e \in Range(ndFirst[s]) :
         ~NeedsRepair(e, s) => e \in Range(ndEntries[s])
  /\ ndRepairing = <<>> =>
       LET shown == {i \in DOMAIN AspectsOut : ~AspectsOut[i].hide}
       IN /\ \A i \in shown :
               /\ AspectsOut[i].key \in Range(ndChart.aspects)
               /\ AspectsOut[i].full.words > 0 /\ FitOrPlain(AspectsOut[i], ndEntries["aspects"][i])
          /\ \A i, j \in shown : AspectsOut[i].full.says = AspectsOut[j].full.says => i = j
          /\ \A i \in (DOMAIN AspectsOut) \ shown :
               AspectsOut[i].key \in NdImportant =>
                 \/ ndEntries["aspects"][i].full.words > 0 /\ Unfit(ndEntries["aspects"][i])
                 \/ \E j \in shown : AspectsOut[j].full.says = AspectsOut[i].full.says
=============================================================================
