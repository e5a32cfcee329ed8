------------------------------ MODULE MCRequests ------------------------------
(***************************************************************************)
(* Small instances of the components that serve one request at a time and  *)
(* share nothing but the process: a behaviour is one of a single part,     *)
(* chosen at the start, while the others rest in an initial state.         *)
(***************************************************************************)
EXTENDS Synastry, NatalCache, Wheels, MatrixReading, Draws, TokenBucket,
        Support, News, Accounts, Arcana, GeneratedTexts, NatalTexts,
        SkyEvents, Prices, Downloads

CONSTANT chart1
VARIABLE part

mcVars == <<part, vars, natalVars, wlVars, mxVars, drawVars, bucketVars,
            supportVars, newsVars, acctVars, arcanaVars, txVars, nrVars,
            ndVars, skVars, prVars, dlVars>>

Symmetry == Permutations(Handlers)

(* Noons of five days: the moon changes sign, mars turns and turns back. *)
MCSky == [d \in 0..LastDay + 2 |->
            [p \in Planets |-> IF p = "moon" THEN <<d > 2, FALSE>> ELSE <<FALSE, d \in {2, 3}>>]]

(* Birth dates of a few years, and days around a new year and a leap day. *)
MCDates == [d: 1..28, m: 1..12, y: {1999}] \cup [d: {1, 9, 19, 29, 30, 31}, m: {1, 10, 12}, y: {1899, 1985, 2004}]
MCDays == {[d |-> 31, m |-> 12, y |-> 2024], [d |-> 1, m |-> 1, y |-> 2025], [d |-> 28, m |-> 2, y |-> 2025]}
SomeBirth == CHOOSE date \in BirthDates : TRUE

Parts == {"synastry", "natal", "wheel", "matrix", "draws", "bucket", "support", "news", "accounts",
          "arcana", "transits", "pair", "daily", "report", "descriptions", "sky", "prices", "downloads"}

(* The aspects a transit page shows before and after an edit of the birth data. *)
MCPageAspects == [p \in Pages |-> [c \in Charts |-> IF c = chart1 THEN {"ta", "tb"} ELSE {"tb"}]]

(* A chart with a birth time and a node, an aspect twice and one the report
   leaves out, and one without; texts of each kind that must be refused. *)
MCStars == {[name |-> "sun", sign |-> "leo", house |-> 1],
            [name |-> "moon", sign |-> "aries", house |-> 2]}
MCChart(timed, nodes, aspects) ==
  [timed |-> timed, asc |-> "virgo", planets |-> MCStars, order |-> <<"sun", "moon">>,
   nodes |-> nodes, houses |-> <<[number |-> 1, sign |-> "virgo"]>>, aspects |-> aspects]
MCNrCharts ==
  {MCChart(TRUE, {[name |-> "north_node", sign |-> "aries", house |-> 2]},
           <<<<"sun", "moon", "square">>, <<"sun", "moon", "quincunx">>, <<"sun", "moon", "square">>>>),
   MCChart(FALSE, {}, <<>>), [MCChart(FALSE, {}, <<>>) EXCEPT !.houses = <<>>]}
MCText(n, cites, claims, fit) ==
  [says |-> <<"words", n>>, cites |-> cites, claims |-> claims, fit |-> fit]
MCNrTexts ==
  {MCText(1, {}, {}, TRUE), MCText(2, {<<"planet", "sun">>}, {}, TRUE),
   MCText(3, {<<"planet", "sun">>, <<"sign", "aries">>}, {<<"sun", <<"sign", "aries">>>>}, TRUE),
   MCText(4, {<<"house", 1>>}, {}, TRUE), MCText(5, {<<"point", "ascendant">>}, {}, TRUE),
   MCText(6, {<<"planet", "sun">>, <<"planet", "moon">>, <<"aspect", "trine">>}, {}, TRUE),
   MCText(7, {}, {}, FALSE)}

(* Descriptions: texts to keep, to ask for again and to do without; keys nobody
   asked for and keys that come again. *)
MCNdText(says, words, marks) == [says |-> says, words |-> words, faults |-> marks]
MCNdReplies ==
  {[short |-> TRUE, full |-> MCNdText(<<"llm", "one">>, 150, {})], [short |-> FALSE, full |-> MCNdText(<<"llm", "two">>, 150, {})],
   [short |-> TRUE, full |-> MCNdText(<<"llm", "thin">>, 95, {"WORD_DUPLICATION"})],
   [short |-> TRUE, full |-> MCNdText(<<"llm", "">>, 0, {})], [short |-> FALSE, full |-> MCNdText(<<"llm", "">>, 0, {})]}
MCNdChart(planets, houses, aspects, stray) ==
  [planets |-> planets, houses |-> houses, aspects |-> aspects, stray |-> stray]
MCNdRest == MCNdChart(<<>>, <<>>, <<>>, {})
MCNdCharts ==
  {MCNdChart(<<"sun">>, <<"h1">>, <<>>, {}), MCNdChart(<<>>, <<"h1", "h2", "h3">>, <<>>, {"h1"}),
   MCNdChart(<<>>, <<>>, <<"a1", "a2", "a3">>, {}), MCNdChart(<<>>, <<>>, <<"a1">>, {"a9"}), MCNdRest}

(* The shortest and the longest plain text. *)
MCNdPlainWords(key) == IF key = "a1" THEN 99 ELSE 109

(* Births on both sides of the equinox and at the limits of the orbs; noons of a
   moon that changes sign and a mars that turns back within a hundredth of a
   degree of an exact aspect, or on the equinox, or comes near one on the last day. *)
MCNoons(moon, mars) ==
  [d \in 1..Len(moon) |-> [moon |-> moon[d], mars |-> mars[d]]]
(* The page of a day is drawn at noon, or at midnight half way from the noon before. *)
MCSkHours(track, d) ==
  LET Back(p) == ((track[d - 1][p] - track[d][p] + 180000) % Circle) - 180000
  IN {track[d]} \cup IF d = 1 THEN {} ELSE
       {[p \in DOMAIN track[d] |-> (track[d][p] + Back(p) \div 2) % Circle]}
(* Changes of sign come after the peaks, in the order of days. *)
MCSkPlace(e) ==
  IF e.kind = "ingress" THEN 1000 + e.day * 10 + PlanetWeight[e.what[1]]
  ELSE (CHOOSE i \in 1..10 : Order[i] = e.what[2]) * 100 + (CHOOSE k \in 1..5 : Majors[k] = e.what[3]) * 10
       + PlanetWeight[e.what[1]]
MCSkRest == [sun |-> 0]
MCSkBirths ==
  {[sun |-> 358500, venus |-> 3500, mars |-> 98500, saturn |-> 39350, ascendant |-> 150000],
   [sun |-> 8400, moon |-> 128400, mercury |-> 14300],
   [sun |-> 119000, moon |-> 300000, saturn |-> 359990, pluto |-> 4000], MCSkRest}
MCSkTracks ==
  {MCNoons(<<330000, 344000, 358000, 12000, 26000>>, <<98600, 99996, 100003, 100001, 99900>>),
   MCNoons(<<80000, 92000, 104000, 116000, 128000>>, <<359000, 359997, 999, 1004, 990>>),
   MCNoons(<<80000, 92000>>, <<97000, 97900>>)}

(* Rubles priced or not; stars at more than rubles. *)
MCPrCatalogues ==
  {[xtr |-> 3, rub |-> 2, type |-> "subscription"], [xtr |-> 3, rub |-> 0, type |-> "one_time"]}

MCInit ==
  /\ part \in Parts
  /\ Init /\ NatalInit /\ WlInit /\ DrawInit /\ BucketInit
  /\ SupportInit /\ NewsInit /\ AcctInit
  /\ MxInit /\ (part # "matrix" => gender = "male" /\ ~hasFull /\ ~looksOld /\ numbers = "none")
  /\ TxInit /\ (part # "transits" => txChart = chart1) /\ (part # "daily" => txGender = "male")
  /\ NdInit /\ (part # "descriptions" <=> ndChart = MCNdRest)
  /\ SkInit /\ (part # "sky" <=> skBirth = MCSkRest)
  /\ (part # "sky" => skTop = 0 /\ skTrack[1]["mars"] = 98600)
  /\ DlInit /\ PrInit
  /\ (part # "prices" => prCatalogue.type = "subscription" /\ \A c \in Currencies : prOverride[c] = <<"none", 0>>)
  /\ NrInit /\ (part # "report" <=> nrChart.houses = <<>>)
  /\ ArcanaInit /\ (part # "arcana" => birth = SomeBirth)

MCNext ==
  /\ UNCHANGED part
  /\ (part = "synastry" /\ Next) \/ (part # "synastry" /\ UNCHANGED vars)
  /\ (part = "natal" /\ NatalNext) \/ (part # "natal" /\ UNCHANGED natalVars)
  /\ (part = "wheel" /\ WlNext) \/ (part # "wheel" /\ UNCHANGED wlVars)
  /\ (part = "matrix" /\ MxNext) \/ (part # "matrix" /\ UNCHANGED mxVars)
  /\ (part = "draws" /\ DrawNext) \/ (part # "draws" /\ UNCHANGED drawVars)
  /\ (part = "bucket" /\ BucketNext) \/ (part # "bucket" /\ UNCHANGED bucketVars)
  /\ (part = "support" /\ SupportNext) \/ (part # "support" /\ UNCHANGED supportVars)
  /\ (part = "news" /\ NewsNext) \/ (part # "news" /\ UNCHANGED newsVars)
  /\ (part = "accounts" /\ AcctNext) \/ (part # "accounts" /\ UNCHANGED acctVars)
  /\ \/ part = "transits" /\ TransitsNext
     \/ part = "pair" /\ PairNext
     \/ part = "daily" /\ DailyNext
     \/ part \notin {"transits", "pair", "daily"} /\ UNCHANGED txVars
  /\ (part = "descriptions" /\ NdNext) \/ (part # "descriptions" /\ UNCHANGED ndVars)
  /\ (part = "sky" /\ SkNext) \/ (part # "sky" /\ UNCHANGED skVars)
  /\ (part = "prices" /\ PrNext) \/ (part # "prices" /\ UNCHANGED prVars)
  /\ (part = "downloads" /\ DlNext) \/ (part # "downloads" /\ UNCHANGED dlVars)
  /\ (part = "report" /\ NrNext) \/ (part # "report" /\ UNCHANGED nrVars)
  /\ (part = "arcana" /\ ArcanaNext) \/ (part # "arcana" /\ UNCHANGED arcanaVars)

(* Every variable of every part has its type. *)
TypesOK ==
  /\ TypeOK /\ NatalTypeOK /\ WlTypeOK /\ MxTypeOK /\ DrawTypeOK /\ BucketTypeOK
  /\ SupportTypeOK /\ NewsTypeOK /\ AcctTypeOK /\ TxTypeOK

(* What is shown of a birth chart, its texts and its wheel, is that chart's. *)
NatalIsOwn == NatalTextsAreOwn /\ WheelIsExact

(* The numbers a page is built on are those of the definition they walk or
   fold towards: the sky's events and the arcana of a birth date.  (A part is only
   asked while it is the one that moves: at rest it is in its initial state.) *)
NumbersAgree ==
  /\ part = "sky" => SkyAgrees
  /\ part = "arcana" => ArcanaAgree

MCSpec == MCInit /\ [][MCNext]_mcVars
=============================================================================
