----------------------------- MODULE NatalReport -----------------------------
(* One natal report as the LLM writes it (services/astro/natal_report.py): the
   facts of the chart in groups, a call and one corrective call for each group,
   what is accepted of an answer, and what is printed. The groups are generated
   in parallel and share nothing, so one order of them stands for all.

   A text is [says, cites, claims, fit]: its words, the facts it mentions, what
   it says of them, and whether length, sections and language are right. *)
EXTENDS Naturals, Sequences, FiniteSets

CONSTANTS
  NrCharts,   \* [timed, asc, nodes, planets, houses, aspects]
  NrTexts     \* what the LLM may write for an item

(* A chart lists each planet and each house once (not so the aspects); a text is
   told from a fallback. *)
ASSUME ReportAssumption ==
  /\ \A c \in NrCharts :
       /\ c.timed \in BOOLEAN
       /\ c.order \in Seq({p.name : p \in c.planets})
       /\ \A i, j \in DOMAIN c.order : c.order[i] = c.order[j] => i = j
       /\ c.houses \in Seq({c.houses[i] : i \in DOMAIN c.houses})
       /\ \A i, j \in DOMAIN c.houses : c.houses[i].number = c.houses[j].number => i = j
       /\ c.aspects \in Seq({c.aspects[i] : i \in DOMAIN c.aspects})
  /\ \A t \in NrTexts : t.says[1] \notin {"nothing", "fallback"}

VARIABLES
  nrChart,
  nrGroup,    \* the groups still to come, the one at work first
  nrAsked,    \* facts this call asks for and whose answers are not yet judged
  nrAttempt,  \* 0 or 1: the call and the corrective one
  nrTaken,    \* fact -> accepted text, of the group at work
  nrOut       \* group -> the items of a finished group
nrVars == <<nrChart, nrGroup, nrAsked, nrAttempt, nrTaken, nrOut>>

-----------------------------------------------------------------------------
(* The facts of a chart; each allows some mentions and no others *)

Mention(kind, what) == <<kind, what>>
PlanetOf(c, name) == CHOOSE p \in c.planets : p.name = name
Aspects   == {"conjunction", "sextile", "square", "trine", "opposition"}
Fact(group, id, allowed) == [group |-> group, id |-> id, allowed |-> allowed]

Lights(c)    == {Mention("planet", "sun"), Mention("planet", "moon")}
MainSigns(c) == {Mention("sign", PlanetOf(c, n).sign) : n \in {"sun", "moon"}}
                  \cup (IF c.timed THEN {Mention("sign", c.asc)} ELSE {})
Ascendant(c) == IF c.timed THEN {Mention("point", "ascendant")} ELSE {}
NodeFacts(c) == UNION {{Mention("sign", n.sign), Mention("point", n.name)}
                         \cup (IF c.timed THEN {Mention("house", n.house)} ELSE {}) : n \in c.nodes}
CoreFacts(c) == Lights(c) \cup MainSigns(c) \cup Ascendant(c) \cup NodeFacts(c)

Core(c) ==
  <<Fact("core", "foundation", Lights(c) \cup MainSigns(c) \cup Ascendant(c))>>
  \o (IF c.nodes = {} THEN <<>> ELSE <<Fact("core", "lunar_nodes", NodeFacts(c))>>)
  \o [i \in 1..3 |-> Fact("core", <<"dominants", "synthesis", "recommendations">>[i], CoreFacts(c))]

PlanetFact(c, p) ==
  Fact("planets", p.name,
       {Mention("planet", p.name), Mention("sign", p.sign)}
         \cup (IF c.timed THEN {Mention("house", p.house)} ELSE {}))

HouseFact(c, h) ==
  Fact("houses", h.number,
       {Mention("house", h.number), Mention("sign", h.sign), Mention("point", "cusp")}
         \cup {Mention("planet", p.name) : p \in {q \in c.planets : q.house = h.number}})

AspectFact(a) ==
  Fact("aspects", a, {Mention("planet", a[1]), Mention("planet", a[2]), Mention("aspect", a[3])})

(* The elements of s at some places, in their order. *)
Rank(places, i) == Cardinality({j \in places : j <= i})
Chosen(s, places) ==
  [k \in 1..Cardinality(places) |-> s[CHOOSE i \in places : Rank(places, i) = k]]

(* The aspects of the five kinds, each once. *)
Distinct(s) ==
  Chosen(s, {i \in DOMAIN s : s[i][3] \in Aspects /\ \A j \in 1..i - 1 : s[j] # s[i]})

FactsOf(c, group) ==
  CASE group = "core"    -> Core(c)
    [] group = "planets" -> [i \in DOMAIN c.order |-> PlanetFact(c, PlanetOf(c, c.order[i]))]
    [] group = "houses"  -> IF c.timed THEN [i \in DOMAIN c.houses |-> HouseFact(c, c.houses[i])]
                            ELSE <<>>
    [] group = "aspects" -> [i \in DOMAIN Distinct(c.aspects) |-> AspectFact(Distinct(c.aspects)[i])]

Groups(c) ==
  IF c.timed THEN <<"core", "planets", "houses", "aspects">> ELSE <<"core", "planets", "aspects">>

-----------------------------------------------------------------------------
(* What a text may not say *)

PlanetsIn(t)  == {m \in t.cites : m[1] = "planet"}
AspectsIn(t) == {m \in t.cites : m[1] = "aspect"}

(* The name of an aspect is a plain word as well: it counts where the item is
   about an aspect or names two planets. *)
ScopeErrors(t, f) ==
  {m \in t.cites \ f.allowed :
     m[1] = "aspect" => (\E n \in f.allowed : n[1] = "aspect") \/ Cardinality(PlanetsIn(t)) >= 2}

(* validate_generated_text: what the chart contradicts, and what no chart
   without a birth time can tell. *)
OfTheHour(m) == m[1] = "house" \/ m \in {Mention("point", "ascendant"), Mention("point", "cusp")}
WrongPlace(c, p, place) == place \notin {Mention("sign", p.sign), Mention("house", p.house)}
ContextErrors(t, c) ==
  {m \in t.cites : ~c.timed /\ OfTheHour(m)}
  \cup {m \in t.claims : \E p \in c.planets : p.name = m[1] /\ WrongPlace(c, p, m[2])}
  \cup {m \in AspectsIn(t) : Cardinality(PlanetsIn(t)) = 2 /\ Cardinality(AspectsIn(t)) = 1
          /\ \A i \in DOMAIN c.aspects :
               {Mention("planet", c.aspects[i][1]), Mention("planet", c.aspects[i][2])} # PlanetsIn(t)
               \/ c.aspects[i][3] # m[2]}

Acceptable_ScopeOnly(t, f, c) == t.fit /\ ScopeErrors(t, f) = {}
Acceptable(t, f, c) == t.fit /\ ScopeErrors(t, f) = {} /\ ContextErrors(t, c) = {}

-----------------------------------------------------------------------------
(* The calls *)

NrGroup == Head(nrGroup)
NrFacts == FactsOf(nrChart, NrGroup)
Unanswered == [says |-> <<"nothing", 0>>, cites |-> {}, claims |-> {}, fit |-> FALSE]
PlainItem(i) == [says |-> <<"fallback", i>>, cites |-> {}, claims |-> {}, fit |-> TRUE]

Missing(taken) == Chosen(NrFacts, {i \in DOMAIN NrFacts : taken[NrFacts[i].id] = Unanswered})
NothingYet(c, groups) ==
  IF groups = <<>> THEN <<>>
  ELSE [id \in {FactsOf(c, Head(groups))[i].id : i \in DOMAIN FactsOf(c, Head(groups))} |-> Unanswered]
AskedFirst(c, groups) == IF groups = <<>> THEN <<>> ELSE FactsOf(c, Head(groups))

(* Facts in their order, a fallback for what was not accepted. *)
Items(taken) ==
  [i \in DOMAIN NrFacts |->
     [fact |-> NrFacts[i], fallback |-> taken[NrFacts[i].id] = Unanswered,
      text |-> IF taken[NrFacts[i].id] = Unanswered THEN PlainItem(i) ELSE taken[NrFacts[i].id]]]

(* The end of a call: a corrective one for what is missing, or the next group. *)
CallEnds(taken) ==
  IF nrAttempt = 0 /\ Missing(taken) # <<>>
  THEN /\ nrAttempt' = 1 /\ nrAsked' = Missing(taken) /\ nrTaken' = taken
       /\ UNCHANGED <<nrChart, nrGroup, nrOut>>
  ELSE /\ nrOut' = [nrOut EXCEPT ![NrGroup] = Items(taken)]
       /\ nrGroup' = Tail(nrGroup) /\ nrAttempt' = 0
       /\ nrAsked' = AskedFirst(nrChart, Tail(nrGroup))
       /\ nrTaken' = NothingYet(nrChart, Tail(nrGroup))
       /\ UNCHANGED nrChart

Judge(taken) ==
  IF Len(nrAsked) = 1 THEN CallEnds(taken)
  ELSE /\ nrAsked' = Tail(nrAsked) /\ nrTaken' = taken
       /\ UNCHANGED <<nrChart, nrGroup, nrAttempt, nrOut>>

(* The answer has one text for the next fact. *)
NewWords(t) == \A id \in DOMAIN nrTaken : nrTaken[id].says # t.says
Answered(t) ==
  Judge(IF Acceptable(t, Head(nrAsked), nrChart) /\ NewWords(t)
        THEN [nrTaken EXCEPT ![Head(nrAsked).id] = t] ELSE nrTaken)

(* It has none or several. *)
NotOne == Judge(nrTaken)

(* A malformed answer or a failed request. *)
CallFails ==
  /\ nrAsked = (IF nrAttempt = 0 THEN NrFacts ELSE Missing(nrTaken))
  /\ CallEnds(nrTaken)

(* A group without facts is not asked for. *)
NothingToAsk == nrAsked = <<>> /\ CallEnds(nrTaken)

NrInit ==
  /\ nrChart \in NrCharts
  /\ nrGroup = Groups(nrChart) /\ nrAttempt = 0
  /\ nrAsked = AskedFirst(nrChart, nrGroup) /\ nrTaken = NothingYet(nrChart, nrGroup)
  /\ nrOut = [g \in {"core", "planets", "houses", "aspects"} |-> <<>>]

NrNext ==
  /\ nrGroup # <<>>
  /\ \/ NothingToAsk
     \/ nrAsked # <<>> /\ ((\E t \in NrTexts : Answered(t)) \/ NotOne \/ CallFails)

NrSpec == NrInit /\ [][NrNext]_nrVars

-----------------------------------------------------------------------------
(* What is made of the items *)

Pick(items, ids) == Chosen(items, {i \in DOMAIN items : items[i].fact.id \in ids})
Rendered(out) ==
  Pick(out["core"], {"foundation", "dominants"}) \o out["planets"] \o out["houses"]
    \o Pick(out["core"], {"lunar_nodes"}) \o out["aspects"]
    \o Pick(out["core"], {"synthesis", "recommendations"})

Status(out) == IF \E g \in DOMAIN out : \E i \in DOMAIN out[g] : out[g][i].fallback
               THEN "ready_with_fallback" ELSE "ready"

(* report_descriptions: the texts the PDF looks up by planet, house, aspect. *)
DescriptionsOf(out) ==
  [g \in {"planets", "houses", "aspects"} |-> {<<out[g][i].fact.id, out[g][i].text>> : i \in DOMAIN out[g]}]

-----------------------------------------------------------------------------
(* A finished report covers its chart and says nothing else: every fact has one
   item in the printed text and, but for the core, one description; a text of
   the LLM mentions its own item's facts and contradicts none of the chart's,
   repeats no other of its group, and a report that calls itself ready has no
   fallback - whatever was missing, doubled, malformed or refused on the way. *)
TrueOf(t, c) == \A m \in t.claims : \A p \in c.planets : p.name = m[1] => ~WrongPlace(c, p, m[2])
SameFact(f, g) == f.group = g.group /\ f.id = g.id
Sound(items) ==
  \A i \in DOMAIN items :
    /\ \A j \in DOMAIN items : items[i].text.says = items[j].text.says => i = j
    /\ ~items[i].fallback =>
         /\ {m \in items[i].text.cites : m[1] # "aspect"} \subseteq items[i].fact.allowed
         /\ TrueOf(items[i].text, nrChart)
         /\ ~nrChart.timed => \A m \in items[i].text.cites : ~OfTheHour(m)
ReportIsSound ==
  nrGroup = <<>> =>
    /\ \A g \in DOMAIN nrOut : Sound(nrOut[g])
    /\ \A g \in {"core", "planets", "houses", "aspects"} : \A i \in DOMAIN FactsOf(nrChart, g) :
         LET f == FactsOf(nrChart, g)[i]
         IN /\ Cardinality({k \in DOMAIN Rendered(nrOut) : SameFact(Rendered(nrOut)[k].fact, f)}) = 1
            /\ g # "core" => Cardinality({e \in DescriptionsOf(nrOut)[g] : e[1] = f.id}) = 1
    /\ Status(nrOut) = "ready" =>
         \A k \in DOMAIN Rendered(nrOut) : Rendered(nrOut)[k].text \in NrTexts
=============================================================================
