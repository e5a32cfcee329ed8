----------------------------- MODULE Texts_proofs -----------------------------
(***************************************************************************)
(* Proofs about what is written of a birth chart: its report and the       *)
(* descriptions of its planets, houses and aspects, for every chart and    *)
(* whatever the model answers.                                             *)
(***************************************************************************)
EXTENDS NatalTexts, FiniteSetTheorems, WellFoundedInduction, TLAPS

-----------------------------------------------------------------------------
(* The report of a chart.  Chosen(s, places) is s at those places, each once and no
   other: ranks count the places, so that every number up to theirs is the rank of
   exactly one. *)

IsPick(s, places, pos, n) ==
  /\ n \in Nat /\ pos \in [1..n -> places]
  /\ \A i \in places : \E k \in 1..n : pos[k] = i
  /\ \A j, k \in 1..n : pos[j] = pos[k] => j = k
  /\ Chosen(s, places) = [k \in 1..n |-> s[pos[k]]]

LEMMA PlacesAreFinite ==
  ASSUME NEW n \in Nat, NEW places \in SUBSET (1..n)
  PROVE  IsFiniteSet(places) /\ Cardinality(places) \in Nat
<1>1. IsFiniteSet(1..n)
  BY FS_Interval
<1>2. IsFiniteSet(places)
  BY <1>1, FS_Subset
<1> QED BY <1>2, FS_CardinalityType

LEMMA ChosenPlaces ==
  ASSUME NEW s, NEW m \in Nat, NEW places \in SUBSET (1..m)
  PROVE  \E pos : IsPick(s, places, pos, Cardinality(places))
<1> DEFINE n == Cardinality(places)
           Below(i) == {j \in places : j <= i}
           rank == [i \in places |-> Rank(places, i)]
<1>1. IsFiniteSet(places) /\ n \in Nat
  BY PlacesAreFinite
<1>2. ASSUME NEW i \in places
      PROVE  IsFiniteSet(Below(i)) /\ Rank(places, i) \in 1..n
  <2>1. Below(i) \in SUBSET places
    OBVIOUS
  <2>2. IsFiniteSet(Below(i)) /\ Cardinality(Below(i)) <= n
    BY <1>1, <2>1, FS_Subset
  <2>3. Cardinality(Below(i)) \in Nat /\ (Cardinality(Below(i)) = 0 <=> Below(i) = {})
    BY <2>2, FS_CardinalityType, FS_EmptySet
  <2>4. i \in Below(i)
    OBVIOUS
  <2>5. Cardinality(Below(i)) \in 1..n
    BY <1>1, <2>2, <2>3, <2>4
  <2> QED BY <2>2, <2>5 DEF Rank
<1>3. ASSUME NEW i \in places, NEW j \in places, i < j
      PROVE  Rank(places, i) # Rank(places, j)
  <2>1. Below(i) \in SUBSET Below(j) /\ j \in Below(j) /\ j \notin Below(i)
    <3>1. ASSUME NEW k \in places, k <= i PROVE k <= j
      <4>1. k \in Nat /\ i \in Nat /\ j \in Nat
        OBVIOUS
      <4> QED BY <1>3, <3>1, <4>1
    <3>2. j <= j /\ ~(j <= i)
      <4>1. i \in Nat /\ j \in Nat
        OBVIOUS
      <4> QED BY <1>3, <4>1
    <3> QED BY <3>1, <3>2
  <2>2. IsFiniteSet(Below(j))
    BY <1>2
  <2>3. Cardinality(Below(j)) # Cardinality(Below(i))
    <3> HIDE DEF Below
    <3>1. Cardinality(Below(j)) = Cardinality(Below(i)) => Below(j) = Below(i)
      BY <2>1, <2>2, FS_Subset
    <3> QED BY <2>1, <3>1
  <2> QED BY <2>3 DEF Rank
<1>4. ASSUME NEW i \in places, NEW j \in places, Rank(places, i) = Rank(places, j) PROVE i = j
  <2>1. i < j \/ j < i \/ i = j
    OBVIOUS
  <2> QED BY <1>3, <1>4, <2>1
<1>5. rank \in Injection(places, 1..n)
  <2>1. rank \in [places -> 1..n]
    BY <1>2
  <2>2. ASSUME NEW i \in places, NEW j \in places, rank[i] = rank[j] PROVE i = j
    BY <1>4, <2>2
  <2> HIDE DEF rank
  <2> QED BY <2>1, <2>2 DEF Injection, IsInjective
<1>6. rank \in Surjection(places, 1..n)
  <2>1. IsFiniteSet(1..n) /\ Cardinality(1..n) = n
    <3>1. n \in Int /\ 1 \in Int
      BY <1>1
    <3>2. IsFiniteSet(1..n) /\ Cardinality(1..n) = IF 1 > n THEN 0 ELSE n - 1 + 1
      BY <3>1, FS_Interval
    <3> QED BY <1>1, <3>2
  <2> HIDE DEF rank
  <2> QED BY <1>5, <2>1, FS_Injection
<1>7. ASSUME NEW k \in 1..n PROVE \E i \in places : Rank(places, i) = k
  BY <1>6 DEF Surjection
<1> DEFINE pos == [k \in 1..n |-> CHOOSE i \in places : Rank(places, i) = k]
<1>8. ASSUME NEW k \in 1..n PROVE pos[k] \in places /\ Rank(places, pos[k]) = k
  BY <1>7
<1>9. ASSUME NEW i \in places PROVE \E k \in 1..n : pos[k] = i
  <2>1. Rank(places, i) \in 1..n
    BY <1>2
  <2>2. pos[Rank(places, i)] \in places /\ Rank(places, pos[Rank(places, i)]) = Rank(places, i)
    BY <1>8, <2>1
  <2>3. pos[Rank(places, i)] = i
    <3> HIDE DEF pos
    <3> QED BY <1>4, <2>2
  <2> QED BY <2>1, <2>3
<1>10. Chosen(s, places) = [k \in 1..n |-> s[pos[k]]]
  BY DEF Chosen
<1>11. pos \in [1..n -> places]
  BY <1>8
<1>12. \A j, k \in 1..n : pos[j] = pos[k] => j = k
  <2> HIDE DEF pos
  <2> QED BY <1>8
<1>13. IsPick(s, places, pos, n)
  <2> HIDE DEF pos, n
  <2> QED BY <1>1, <1>9, <1>10, <1>11, <1>12 DEF IsPick
<1> QED BY <1>13

-----------------------------------------------------------------------------
(* What is known between two calls.  Of the group at work, every accepted text
   fits its fact and no two are the same; a group that is done has an item for
   each of its facts, in their order. *)

AllGroups == {"core", "planets", "houses", "aspects"}
FactsRange(c, g) == {FactsOf(c, g)[i] : i \in DOMAIN FactsOf(c, g)}
IdsOf(c, g) == {FactsOf(c, g)[i].id : i \in DOMAIN FactsOf(c, g)}
SomeGroups(left) ==
  /\ left \in Seq(AllGroups)
  /\ \A j, k \in DOMAIN left : left[j] = left[k] => j = k

TextFits(t, f, c) == t \in NrTexts /\ ScopeErrors(t, f) = {} /\ ContextErrors(t, c) = {}
TakenOK(taken, c, g) ==
  /\ DOMAIN taken = IdsOf(c, g)
  /\ \A i \in DOMAIN FactsOf(c, g) :
       LET t == taken[FactsOf(c, g)[i].id] IN t = Unanswered \/ TextFits(t, FactsOf(c, g)[i], c)
  /\ \A a, b \in DOMAIN taken : taken[a].says = taken[b].says => a = b \/ taken[a] = Unanswered
ItemOK(item, i, f, c) ==
  /\ item.fact = f
  /\ item.fallback => item.text = PlainItem(i)
  /\ ~item.fallback => TextFits(item.text, f, c)
ItemsOK(items, fs, c) ==
  /\ items = [i \in DOMAIN fs |-> items[i]]
  /\ \A i \in DOMAIN fs : ItemOK(items[i], i, fs[i], c)
  /\ \A i, j \in DOMAIN fs : items[i].text.says = items[j].text.says => i = j
ToCome(g) == \E k \in DOMAIN nrGroup : nrGroup[k] = g

NrInv ==
  /\ nrChart \in NrCharts /\ SomeGroups(nrGroup)
  /\ nrGroup # <<>> => nrAsked \in Seq(FactsRange(nrChart, NrGroup)) /\ TakenOK(nrTaken, nrChart, NrGroup)
  /\ DOMAIN nrOut = AllGroups
  /\ \A g \in AllGroups : ~ToCome(g) => ItemsOK(nrOut[g], FactsOf(nrChart, g), nrChart)

(* The facts of a group are a sequence, all of that group, and no two have the
   same id. *)
Elems(s) == {s[i] : i \in DOMAIN s}
FactsFine(fs, g) ==
  /\ fs \in Seq(Elems(fs))
  /\ \A i \in DOMAIN fs : fs[i].group = g
  /\ \A i, j \in DOMAIN fs : fs[i].id = fs[j].id => i = j

LEMMA ChosenElements ==
  ASSUME NEW S, NEW s \in Seq(S), NEW places \in SUBSET (DOMAIN s)
  PROVE  /\ Chosen(s, places) \in Seq(S)
         /\ \A k \in DOMAIN Chosen(s, places) : \E i \in places : Chosen(s, places)[k] = s[i]
         /\ \A i \in places : \E k \in DOMAIN Chosen(s, places) : Chosen(s, places)[k] = s[i]
         /\ \A j, k \in DOMAIN Chosen(s, places) : j # k =>
              \E i, h \in places : i # h /\ Chosen(s, places)[j] = s[i] /\ Chosen(s, places)[k] = s[h]
<1> DEFINE n == Cardinality(places)
<1>1. Len(s) \in Nat /\ DOMAIN s = 1..Len(s)
  OBVIOUS
<1>2. PICK pos : IsPick(s, places, pos, n)
  BY <1>1, ChosenPlaces
<1> HIDE DEF n
<1>3. /\ n \in Nat /\ pos \in [1..n -> places] /\ Chosen(s, places) = [k \in 1..n |-> s[pos[k]]]
      /\ \A i \in places : \E k \in 1..n : pos[k] = i
      /\ \A j, k \in 1..n : pos[j] = pos[k] => j = k
  BY <1>2 DEF IsPick
<1>4. \A k \in 1..n : pos[k] \in DOMAIN s /\ s[pos[k]] \in S
  BY <1>1, <1>3
<1>5. Chosen(s, places) \in Seq(S)
  BY <1>3, <1>4
<1> QED BY <1>3, <1>5

LEMMA MappedIsSeq ==
  ASSUME NEW n \in Nat, NEW t, t = [i \in 1..n |-> t[i]]
  PROVE  t \in Seq(Elems(t))
<1>1. DOMAIN t = 1..n
  OBVIOUS
<1>2. \A i \in 1..n : t[i] \in Elems(t)
  BY <1>1 DEF Elems
<1> QED BY <1>2

LEMMA Joined ==
  ASSUME NEW S, NEW a \in Seq(S), NEW b \in Seq(S)
  PROVE  /\ a \o b \in Seq(S) /\ Len(a \o b) = Len(a) + Len(b)
         /\ Len(a) \in Nat /\ Len(b) \in Nat
         /\ DOMAIN a = 1..Len(a) /\ DOMAIN b = 1..Len(b) /\ DOMAIN (a \o b) = 1..(Len(a) + Len(b))
         /\ \A i \in 1..Len(a) : (a \o b)[i] = a[i]
         /\ \A i \in 1..Len(b) : (a \o b)[Len(a) + i] = b[i]
OBVIOUS

CoreIds == {"foundation", "lunar_nodes", "dominants", "synthesis", "recommendations"}
LEMMA CoreFine ==
  ASSUME NEW c \in NrCharts
  PROVE  FactsFine(Core(c), "core") /\ \A i \in DOMAIN Core(c) : Core(c)[i].id \in CoreIds
<1> DEFINE f1 == Fact("core", "foundation", Lights(c) \cup MainSigns(c) \cup Ascendant(c))
           f2 == Fact("core", "lunar_nodes", NodeFacts(c))
           last == [i \in 1..3 |-> Fact("core", <<"dominants", "synthesis", "recommendations">>[i], CoreFacts(c))]
           F == {f1, f2, last[1], last[2], last[3]}
<1>1. /\ f1.group = "core" /\ f1.id = "foundation"
      /\ f2.group = "core" /\ f2.id = "lunar_nodes"
  BY DEF Fact
<1>2. /\ last[1].group = "core" /\ last[1].id = "dominants"
      /\ last[2].group = "core" /\ last[2].id = "synthesis"
      /\ last[3].group = "core" /\ last[3].id = "recommendations"
  BY DEF Fact
<1>3. last \in Seq(F) /\ Len(last) = 3
  <2>1. \A i \in 1..3 : last[i] \in F
    <3>1. \A i \in 1..3 : i = 1 \/ i = 2 \/ i = 3
      OBVIOUS
    <3> HIDE DEF f1, f2, last
    <3> QED BY <3>1
  <2>2. last = [i \in 1..3 |-> last[i]]
    OBVIOUS
  <2> HIDE DEF last, F
  <2> QED BY <2>1, <2>2
<1>4. f1 \in F /\ f2 \in F
  OBVIOUS
<1> DEFINE middle == IF c.nodes = {} THEN <<>> ELSE <<f2>>
           front == <<f1>> \o middle
<1>5. Core(c) = front \o last
  BY DEF Core
<1> HIDE DEF f1, f2, last, F
<1>6. CASE c.nodes = {}
  <2>1. front \in Seq(F) /\ Len(front) = 1 /\ front[1] = f1
    <3>1. <<f1>> \in Seq(F) /\ Len(<<f1>>) = 1 /\ <<f1>>[1] = f1
      BY <1>4
    <3>2. middle = <<>> /\ middle \in Seq(F) /\ Len(middle) = 0
      BY <1>4, <1>6
    <3> HIDE DEF middle
    <3>3. /\ <<f1>> \o middle \in Seq(F) /\ Len(<<f1>> \o middle) = 1 + Len(middle)
          /\ (<<f1>> \o middle)[1] = f1
          /\ \A i \in 1..Len(middle) : (<<f1>> \o middle)[1 + i] = middle[i]
      BY <3>1, <3>2, Joined
    <3> QED BY <3>2, <3>3
  <2> HIDE DEF middle, front
  <2>2. Core(c) = front \o last
    BY <1>5
  <2>3. /\ front \o last \in Seq(F) /\ Len(front \o last) = 1 + 3
        /\ \A i \in 1..1 : (front \o last)[i] = front[i]
        /\ \A i \in 1..3 : (front \o last)[1 + i] = last[i]
    <3>1. /\ front \o last \in Seq(F) /\ Len(front \o last) = Len(front) + Len(last)
          /\ \A i \in 1..Len(front) : (front \o last)[i] = front[i]
          /\ \A i \in 1..Len(last) : (front \o last)[Len(front) + i] = last[i]
      <4>1. front \in Seq(F) /\ last \in Seq(F)
        BY <1>3, <2>1
      <4> QED BY <4>1, Joined
    <3> QED BY <1>3, <2>1, <3>1
  <2>4. Core(c) \in Seq(F) /\ DOMAIN Core(c) = 1..4
    BY <2>2, <2>3
  <2>5. /\ Core(c)[1] = f1 /\ Core(c)[2] = last[1] /\ Core(c)[3] = last[2]
        /\ Core(c)[4] = last[3]
    BY <2>1, <2>2, <2>3
  <2>6. \A i \in 1..4 : i = 1 \/ i = 2 \/ i = 3 \/ i = 4
    OBVIOUS
  <2>7. \A i \in DOMAIN Core(c) : Core(c)[i].group = "core"
    BY <1>1, <1>2, <2>4, <2>5, <2>6
  <2>8. \A i, j \in DOMAIN Core(c) : Core(c)[i].id = Core(c)[j].id => i = j
    BY <1>1, <1>2, <2>4, <2>5, <2>6
  <2>9. Core(c) = [i \in 1..4 |-> Core(c)[i]]
    BY <2>4
  <2>10. Core(c) \in Seq(Elems(Core(c)))
    BY <2>9, MappedIsSeq
  <2>11. \A i \in DOMAIN Core(c) : Core(c)[i].id \in CoreIds
    BY <1>1, <1>2, <2>4, <2>5, <2>6 DEF CoreIds
  <2> QED BY <2>7, <2>8, <2>10, <2>11 DEF FactsFine
<1>7. CASE c.nodes # {}
  <2>1. front \in Seq(F) /\ Len(front) = 2 /\ front[1] = f1 /\ front[2] = f2
    <3>1. <<f1>> \in Seq(F) /\ Len(<<f1>>) = 1 /\ <<f1>>[1] = f1
      BY <1>4
    <3>2. middle = <<f2>> /\ middle \in Seq(F) /\ Len(middle) = 1 /\ middle[1] = f2
      BY <1>4, <1>7
    <3> HIDE DEF middle
    <3>3. /\ <<f1>> \o middle \in Seq(F) /\ Len(<<f1>> \o middle) = 1 + Len(middle)
          /\ (<<f1>> \o middle)[1] = f1
          /\ \A i \in 1..Len(middle) : (<<f1>> \o middle)[1 + i] = middle[i]
      BY <3>1, <3>2, Joined
    <3> QED BY <3>2, <3>3
  <2> HIDE DEF middle, front
  <2>2. Core(c) = front \o last
    BY <1>5
  <2>3. /\ front \o last \in Seq(F) /\ Len(front \o last) = 2 + 3
        /\ \A i \in 1..2 : (front \o last)[i] = front[i]
        /\ \A i \in 1..3 : (front \o last)[2 + i] = last[i]
    <3>1. /\ front \o last \in Seq(F) /\ Len(front \o last) = Len(front) + Len(last)
          /\ \A i \in 1..Len(front) : (front \o last)[i] = front[i]
          /\ \A i \in 1..Len(last) : (front \o last)[Len(front) + i] = last[i]
      <4>1. front \in Seq(F) /\ last \in Seq(F)
        BY <1>3, <2>1
      <4> QED BY <4>1, Joined
    <3> QED BY <1>3, <2>1, <3>1
  <2>4. Core(c) \in Seq(F) /\ DOMAIN Core(c) = 1..5
    BY <2>2, <2>3
  <2>5. /\ Core(c)[1] = f1 /\ Core(c)[2] = f2 /\ Core(c)[3] = last[1]
        /\ Core(c)[4] = last[2] /\ Core(c)[5] = last[3]
    BY <2>1, <2>2, <2>3
  <2>6. \A i \in 1..5 : i = 1 \/ i = 2 \/ i = 3 \/ i = 4 \/ i = 5
    OBVIOUS
  <2>7. \A i \in DOMAIN Core(c) : Core(c)[i].group = "core"
    BY <1>1, <1>2, <2>4, <2>5, <2>6
  <2>8. \A i, j \in DOMAIN Core(c) : Core(c)[i].id = Core(c)[j].id => i = j
    BY <1>1, <1>2, <2>4, <2>5, <2>6
  <2>9. Core(c) = [i \in 1..5 |-> Core(c)[i]]
    BY <2>4
  <2>10. Core(c) \in Seq(Elems(Core(c)))
    BY <2>9, MappedIsSeq
  <2>11. \A i \in DOMAIN Core(c) : Core(c)[i].id \in CoreIds
    BY <1>1, <1>2, <2>4, <2>5, <2>6 DEF CoreIds
  <2> QED BY <2>7, <2>8, <2>10, <2>11 DEF FactsFine
<1> QED BY <1>6, <1>7

LEMMA FactsAreFine ==
  ASSUME NEW c \in NrCharts, NEW g \in AllGroups
  PROVE  FactsFine(FactsOf(c, g), g)
<1>0. /\ c.order \in Seq({p.name : p \in c.planets})
      /\ \A i, j \in DOMAIN c.order : c.order[i] = c.order[j] => i = j
      /\ c.houses \in Seq({c.houses[i] : i \in DOMAIN c.houses})
      /\ \A i, j \in DOMAIN c.houses : c.houses[i].number = c.houses[j].number => i = j
      /\ c.aspects \in Seq({c.aspects[i] : i \in DOMAIN c.aspects})
  BY ReportAssumption
<1>1. CASE g = "core"
  BY <1>1, CoreFine DEF FactsOf
<1>2. CASE g = "planets"
  <2> DEFINE fs == [i \in DOMAIN c.order |-> PlanetFact(c, PlanetOf(c, c.order[i]))]
  <2>1. FactsOf(c, g) = fs
    BY <1>2 DEF FactsOf
  <2>2. fs \in Seq(Elems(fs))
    <3>1. Len(c.order) \in Nat /\ DOMAIN c.order = 1..Len(c.order)
      BY <1>0
    <3>2. fs = [i \in 1..Len(c.order) |-> fs[i]]
      BY <3>1
    <3> HIDE DEF fs
    <3> QED BY <3>1, <3>2, MappedIsSeq
  <2>3. ASSUME NEW i \in DOMAIN fs PROVE fs[i].group = "planets" /\ fs[i].id = c.order[i]
    <3>1. i \in DOMAIN c.order
      OBVIOUS
    <3>2. c.order[i] \in {p.name : p \in c.planets}
      BY <1>0, <3>1
    <3>3. PlanetOf(c, c.order[i]).name = c.order[i]
      BY <3>2 DEF PlanetOf
    <3> QED BY <3>1, <3>3 DEF PlanetFact, Fact
  <2>4. DOMAIN fs = DOMAIN c.order
    OBVIOUS
  <2> HIDE DEF fs
  <2>5. FactsFine(fs, "planets")
    BY <1>0, <2>2, <2>3, <2>4 DEF FactsFine
  <2> QED BY <1>2, <2>1, <2>5
<1>3. CASE g = "houses"
  <2>1. CASE c.timed
    <3> DEFINE fs == [i \in DOMAIN c.houses |-> HouseFact(c, c.houses[i])]
    <3>1. FactsOf(c, g) = fs
      BY <1>3, <2>1 DEF FactsOf
    <3>2. fs \in Seq(Elems(fs))
      <4>1. Len(c.houses) \in Nat /\ DOMAIN c.houses = 1..Len(c.houses)
        BY <1>0
      <4>2. fs = [i \in 1..Len(c.houses) |-> fs[i]]
        BY <4>1
      <4> HIDE DEF fs
      <4> QED BY <4>1, <4>2, MappedIsSeq
    <3>3. ASSUME NEW i \in DOMAIN fs PROVE fs[i].group = "houses" /\ fs[i].id = c.houses[i].number
      BY DEF HouseFact, Fact
    <3>4. DOMAIN fs = DOMAIN c.houses
      OBVIOUS
    <3> HIDE DEF fs
    <3>5. FactsFine(fs, "houses")
      BY <1>0, <3>2, <3>3, <3>4 DEF FactsFine
    <3> QED BY <1>3, <3>1, <3>5
  <2>2. CASE ~c.timed
    <3>1. FactsOf(c, g) = <<>>
      BY <1>3, <2>2 DEF FactsOf
    <3>2. FactsFine(<<>>, g)
      BY DEF FactsFine
    <3> QED BY <3>1, <3>2
  <2> QED BY <2>1, <2>2
<1>4. CASE g = "aspects"
  <2> DEFINE places == {i \in DOMAIN c.aspects :
                          c.aspects[i][3] \in Aspects /\ \A j \in 1..i - 1 : c.aspects[j] # c.aspects[i]}
             d == Distinct(c.aspects)
             fs == [i \in DOMAIN d |-> AspectFact(d[i])]
             S == {c.aspects[i] : i \in DOMAIN c.aspects}
  <2>1. FactsOf(c, g) = fs
    BY <1>4 DEF FactsOf
  <2>2. d = Chosen(c.aspects, places) /\ places \in SUBSET (DOMAIN c.aspects)
    BY DEF Distinct
  <2>3. \A i, h \in places : i # h => c.aspects[i] # c.aspects[h]
    <3> SUFFICES ASSUME NEW i \in places, NEW h \in places, i # h
                 PROVE  c.aspects[i] # c.aspects[h]
      OBVIOUS
    <3>1. i \in Nat /\ h \in Nat /\ i >= 1 /\ h >= 1
      <4>1. DOMAIN c.aspects = 1..Len(c.aspects) /\ Len(c.aspects) \in Nat
        BY <1>0
      <4> QED BY <4>1
    <3>2. CASE i < h
      <4>1. i \in 1..h - 1
        BY <3>1, <3>2
      <4> QED BY <4>1
    <3>3. CASE h < i
      <4>1. h \in 1..i - 1
        BY <3>1, <3>3
      <4> QED BY <4>1
    <3> QED BY <3>1, <3>2, <3>3
  <2> HIDE DEF places, S
  <2>4. /\ d \in Seq(S)
        /\ \A j, k \in DOMAIN d : j # k =>
             \E i, h \in places : i # h /\ d[j] = c.aspects[i] /\ d[k] = c.aspects[h]
    <3>1. c.aspects \in Seq(S)
      BY <1>0 DEF S
    <3>2. /\ Chosen(c.aspects, places) \in Seq(S)
          /\ \A j, k \in DOMAIN Chosen(c.aspects, places) : j # k =>
               \E i, h \in places : i # h /\ Chosen(c.aspects, places)[j] = c.aspects[i]
                                     /\ Chosen(c.aspects, places)[k] = c.aspects[h]
      BY <2>2, <3>1, ChosenElements
    <3> HIDE DEF d
    <3> QED BY <2>2, <3>2
  <2> HIDE DEF d
  <2>5. \A j, k \in DOMAIN d : d[j] = d[k] => j = k
    BY <2>3, <2>4
  <2>6. fs \in Seq(Elems(fs))
    <3>1. Len(d) \in Nat /\ DOMAIN d = 1..Len(d)
      BY <2>4
    <3>2. fs = [i \in 1..Len(d) |-> fs[i]]
      BY <3>1
    <3> HIDE DEF fs
    <3> QED BY <3>1, <3>2, MappedIsSeq
  <2>7. ASSUME NEW i \in DOMAIN fs PROVE fs[i].group = "aspects" /\ fs[i].id = d[i]
    BY DEF AspectFact, Fact
  <2>8. DOMAIN fs = DOMAIN d
    OBVIOUS
  <2> HIDE DEF fs
  <2>9. FactsFine(fs, "aspects")
    BY <2>5, <2>6, <2>7, <2>8 DEF FactsFine
  <2> QED BY <1>4, <2>1, <2>9
<1> QED BY <1>1, <1>2, <1>3, <1>4 DEF AllGroups

-----------------------------------------------------------------------------
(* The groups: the one at work is a group of the chart, and what is left after it
   are the groups after it. *)

LEMMA GroupsInOrder ==
  ASSUME NEW left, SomeGroups(left), left # <<>>
  PROVE  /\ Head(left) \in AllGroups /\ SomeGroups(Tail(left))
         /\ \A k \in DOMAIN left : left[k] \in AllGroups
         /\ \A g : (\E k \in DOMAIN left : left[k] = g)
                     <=> g = Head(left) \/ \E k \in DOMAIN Tail(left) : Tail(left)[k] = g
         /\ ~\E k \in DOMAIN Tail(left) : Tail(left)[k] = Head(left)
<1>1. left \in Seq(AllGroups) /\ \A j, k \in DOMAIN left : left[j] = left[k] => j = k
  BY DEF SomeGroups
<1>2. Len(left) \in Nat /\ Len(left) >= 1
  BY <1>1
<1>5. /\ DOMAIN left = 1..Len(left) /\ Len(left) \in Nat /\ Head(left) = left[1]
      /\ DOMAIN Tail(left) = 1..(Len(left) - 1)
      /\ \A k \in 1..(Len(left) - 1) : Tail(left)[k] = left[k + 1]
  BY <1>1, <1>2
<1>3. Head(left) \in AllGroups /\ \A k \in DOMAIN left : left[k] \in AllGroups
  BY <1>1, <1>2
<1>4. SomeGroups(Tail(left))
  <2>1. Tail(left) \in Seq(AllGroups)
    BY <1>1
  <2>2. ASSUME NEW j \in DOMAIN Tail(left), NEW k \in DOMAIN Tail(left), Tail(left)[j] = Tail(left)[k]
        PROVE  j = k
    <3>1. j + 1 \in DOMAIN left /\ k + 1 \in DOMAIN left /\ left[j + 1] = left[k + 1]
      BY <1>2, <1>5, <2>2
    <3>2. j + 1 = k + 1
      BY <1>1, <3>1
    <3> QED BY <1>5, <3>2
  <2> QED BY <2>1, <2>2 DEF SomeGroups
<1>6. ASSUME NEW g
      PROVE  (\E k \in DOMAIN left : left[k] = g)
               <=> g = Head(left) \/ \E k \in DOMAIN Tail(left) : Tail(left)[k] = g
  <2>1. ASSUME NEW k \in DOMAIN left, left[k] = g
        PROVE  g = Head(left) \/ \E j \in DOMAIN Tail(left) : Tail(left)[j] = g
    <3>1. CASE k = 1
      BY <1>5, <2>1, <3>1
    <3>2. CASE k # 1
      <4>1. k - 1 \in DOMAIN Tail(left) /\ Tail(left)[k - 1] = left[(k - 1) + 1] /\ (k - 1) + 1 = k
        BY <1>5, <3>2
      <4> QED BY <2>1, <4>1
    <3> QED BY <3>1, <3>2
  <2>2. ASSUME NEW k \in DOMAIN Tail(left), Tail(left)[k] = g
        PROVE  \E j \in DOMAIN left : left[j] = g
    <3>1. k + 1 \in DOMAIN left /\ left[k + 1] = g
      BY <1>5, <2>2
    <3> QED BY <3>1
  <2>3. 1 \in DOMAIN left
    BY <1>2, <1>5
  <2> QED BY <1>5, <2>1, <2>2, <2>3
<1>7. ASSUME NEW k \in DOMAIN Tail(left), Tail(left)[k] = Head(left) PROVE FALSE
  <2>1. k + 1 \in DOMAIN left /\ 1 \in DOMAIN left /\ left[k + 1] = left[1] /\ k + 1 # 1
    BY <1>2, <1>5, <1>7
  <2> QED BY <1>1, <2>1
<1> QED BY <1>3, <1>4, <1>6, <1>7

(* A group is begun with nothing accepted, and every fact asked for is its own. *)
LEMMA GroupBegins ==
  ASSUME NEW c \in NrCharts, NEW left, SomeGroups(left), left # <<>>
  PROVE  /\ AskedFirst(c, left) \in Seq(FactsRange(c, Head(left)))
         /\ TakenOK(NothingYet(c, left), c, Head(left))
<1> DEFINE g == Head(left)
           fs == FactsOf(c, g)
           taken == [id \in IdsOf(c, g) |-> Unanswered]
<1>1. g \in AllGroups
  BY GroupsInOrder
<1>2. FactsFine(fs, g)
  BY <1>1, FactsAreFine
<1>3. AskedFirst(c, left) = fs /\ NothingYet(c, left) = taken
  BY DEF AskedFirst, NothingYet, IdsOf
<1>4. fs \in Seq(FactsRange(c, g))
  BY <1>2 DEF FactsFine, FactsRange, Elems
<1>5. TakenOK(taken, c, g)
  BY DEF TakenOK, IdsOf
<1> QED BY <1>3, <1>4, <1>5

(* What is missing is part of the group. *)
LEMMA MissingIsOwn ==
  ASSUME NEW taken, nrChart \in NrCharts, NrGroup \in AllGroups
  PROVE  Missing(taken) \in Seq(FactsRange(nrChart, NrGroup))
<1> DEFINE places == {i \in DOMAIN NrFacts : taken[NrFacts[i].id] = Unanswered}
<1>1. NrFacts \in Seq(FactsRange(nrChart, NrGroup))
  BY FactsAreFine DEF FactsFine, FactsRange, NrFacts, Elems
<1>2. places \in SUBSET (DOMAIN NrFacts)
  OBVIOUS
<1> HIDE DEF places
<1>3. Chosen(NrFacts, places) \in Seq(FactsRange(nrChart, NrGroup))
  BY <1>1, <1>2, ChosenElements
<1> QED BY <1>3 DEF Missing, places

(* The items of a group whose accepted texts fit. *)
LEMMA ItemsFit ==
  ASSUME NEW taken, nrChart \in NrCharts, NrGroup \in AllGroups, TakenOK(taken, nrChart, NrGroup)
  PROVE  ItemsOK(Items(taken), NrFacts, nrChart)
<1> DEFINE items == Items(taken)
           T(i) == taken[NrFacts[i].id]
<1>1. FactsFine(NrFacts, NrGroup)
  BY FactsAreFine DEF NrFacts
<1>2. /\ \A i \in DOMAIN NrFacts : T(i) = Unanswered \/ TextFits(T(i), NrFacts[i], nrChart)
      /\ \A i \in DOMAIN NrFacts : NrFacts[i].id \in DOMAIN taken
      /\ \A a, b \in DOMAIN taken : taken[a].says = taken[b].says => a = b \/ taken[a] = Unanswered
  BY DEF TakenOK, NrFacts, IdsOf
<1>3. items = [i \in DOMAIN NrFacts |-> items[i]]
  BY DEF Items
<1>4. ASSUME NEW i \in DOMAIN NrFacts
      PROVE  /\ items[i].fact = NrFacts[i]
             /\ T(i) = Unanswered => items[i].fallback /\ items[i].text = PlainItem(i)
             /\ T(i) # Unanswered => ~items[i].fallback /\ items[i].text = T(i)
  <2>1. PICK none \in BOOLEAN : none = (T(i) = Unanswered)
    OBVIOUS
  <2>2. items[i] = [fact |-> NrFacts[i], fallback |-> none,
                    text |-> IF T(i) = Unanswered THEN PlainItem(i) ELSE T(i)]
    BY <2>1 DEF Items
  <2> HIDE DEF items
  <2>3. /\ items[i].fact = NrFacts[i] /\ items[i].fallback = none
        /\ items[i].text = IF T(i) = Unanswered THEN PlainItem(i) ELSE T(i)
    BY <2>2
  <2> HIDE DEF T
  <2>4. CASE T(i) = Unanswered
    <3>1. none = TRUE
      BY <2>1, <2>4
    <3> QED BY <2>3, <2>4, <3>1
  <2>5. CASE T(i) # Unanswered
    <3>1. none = FALSE
      BY <2>1, <2>5
    <3> QED BY <2>3, <2>5, <3>1
  <2> QED BY <2>4, <2>5
<1> HIDE DEF items
<1>5. ASSUME NEW i \in DOMAIN NrFacts PROVE ItemOK(items[i], i, NrFacts[i], nrChart)
  BY <1>2, <1>4 DEF ItemOK
<1>6. ASSUME NEW i \in DOMAIN NrFacts, NEW j \in DOMAIN NrFacts,
             items[i].text.says = items[j].text.says
      PROVE  i = j
  <2>1. ASSUME NEW k \in DOMAIN NrFacts, T(k) # Unanswered
        PROVE  items[k].text.says[1] # "fallback"
    <3>1. T(k) \in NrTexts /\ items[k].text = T(k)
      BY <1>2, <1>4, <2>1 DEF TextFits
    <3> QED BY <3>1, ReportAssumption
  <2>2. ASSUME NEW k \in DOMAIN NrFacts, T(k) = Unanswered
        PROVE  items[k].text.says = <<"fallback", k>>
    <3>1. items[k].text = PlainItem(k)
      BY <1>4, <2>2
    <3>2. PlainItem(k).says = <<"fallback", k>>
      BY DEF PlainItem
    <3> QED BY <3>1, <3>2
  <2>3. CASE T(i) = Unanswered /\ T(j) = Unanswered
    BY <1>6, <2>2, <2>3
  <2>4. CASE T(i) = Unanswered /\ T(j) # Unanswered
    BY <1>6, <2>1, <2>2, <2>4
  <2>5. CASE T(i) # Unanswered /\ T(j) = Unanswered
    BY <1>6, <2>1, <2>2, <2>5
  <2>6. CASE T(i) # Unanswered /\ T(j) # Unanswered
    <3>1. T(i).says = T(j).says
      BY <1>4, <1>6, <2>6
    <3>2. NrFacts[i].id = NrFacts[j].id
      BY <1>2, <2>6, <3>1
    <3> QED BY <1>1, <3>2 DEF FactsFine
  <2> QED BY <2>3, <2>4, <2>5, <2>6
<1>7. ItemsOK(items, NrFacts, nrChart)
  BY <1>3, <1>5, <1>6 DEF ItemsOK
<1> QED BY <1>7 DEF items

LEMMA NrInvInit == NrInit => NrInv
<1> SUFFICES ASSUME NrInit PROVE NrInv
  OBVIOUS
<1>1. nrChart \in NrCharts /\ nrChart.timed \in BOOLEAN
  BY ReportAssumption DEF NrInit
<1>2. SomeGroups(nrGroup) /\ nrGroup # <<>>
      /\ nrGroup = IF nrChart.timed THEN <<"core", "planets", "houses", "aspects">>
                   ELSE <<"core", "planets", "aspects">>
  <2>1. CASE nrChart.timed
    <3>1. nrGroup = <<"core", "planets", "houses", "aspects">>
      BY <2>1 DEF NrInit, Groups
    <3> QED BY <2>1, <3>1 DEF SomeGroups, AllGroups
  <2>2. CASE ~nrChart.timed
    <3>1. nrGroup = <<"core", "planets", "aspects">>
      BY <2>2 DEF NrInit, Groups
    <3> QED BY <2>2, <3>1 DEF SomeGroups, AllGroups
  <2> QED BY <2>1, <2>2
<1>3. nrAsked \in Seq(FactsRange(nrChart, NrGroup)) /\ TakenOK(nrTaken, nrChart, NrGroup)
  BY <1>1, <1>2, GroupBegins DEF NrInit, NrGroup
<1>4. DOMAIN nrOut = AllGroups /\ \A g \in AllGroups : nrOut[g] = <<>>
  BY DEF NrInit, AllGroups
<1>5. ASSUME NEW g \in AllGroups, ~ToCome(g) PROVE ItemsOK(nrOut[g], FactsOf(nrChart, g), nrChart)
  <2>1. g = "houses" /\ ~nrChart.timed
    <3>1. CASE nrChart.timed
      <4>1. \E k \in 1..4 : nrGroup[k] = g
        <5>1. nrGroup[1] = "core" /\ nrGroup[2] = "planets" /\ nrGroup[3] = "houses" /\ nrGroup[4] = "aspects"
          BY <1>2, <3>1
        <5> QED BY <5>1 DEF AllGroups
      <4>2. DOMAIN nrGroup = 1..4
        BY <1>2, <3>1
      <4> QED BY <1>5, <4>1, <4>2 DEF ToCome
    <3>2. CASE ~nrChart.timed
      <4>1. nrGroup[1] = "core" /\ nrGroup[2] = "planets" /\ nrGroup[3] = "aspects" /\ DOMAIN nrGroup = 1..3
        BY <1>2, <3>2
      <4>2. \A h \in {"core", "planets", "aspects"} : \E k \in 1..3 : nrGroup[k] = h
        BY <4>1
      <4> QED BY <1>5, <3>2, <4>1, <4>2 DEF ToCome, AllGroups
    <3> QED BY <3>1, <3>2
  <2>2. FactsOf(nrChart, g) = <<>>
    BY <2>1 DEF FactsOf
  <2>3. ItemsOK(<<>>, <<>>, nrChart)
    BY DEF ItemsOK
  <2> QED BY <1>4, <2>2, <2>3
<1> QED BY <1>1, <1>2, <1>3, <1>4, <1>5 DEF NrInv

(* The end of a call keeps the invariant, whatever fitting texts it leaves. *)
LEMMA CallEndsKeeps ==
  ASSUME NrInv, nrGroup # <<>>, NEW taken, TakenOK(taken, nrChart, NrGroup), CallEnds(taken)
  PROVE  NrInv'
<1>1. NrGroup \in AllGroups /\ SomeGroups(Tail(nrGroup)) /\ nrChart \in NrCharts
  BY GroupsInOrder DEF NrInv, NrGroup
<1>2. CASE nrAttempt = 0 /\ Missing(taken) # <<>>
  <2>1. nrAsked' = Missing(taken) /\ nrTaken' = taken /\ UNCHANGED <<nrChart, nrGroup, nrOut>>
    BY <1>2 DEF CallEnds
  <2>2. NrGroup' = NrGroup
    BY <2>1 DEF NrGroup
  <2>3. nrAsked' \in Seq(FactsRange(nrChart, NrGroup))
    BY <1>1, <2>1, MissingIsOwn
  <2> QED BY <2>1, <2>2, <2>3 DEF NrInv, ToCome
<1>3. CASE ~(nrAttempt = 0 /\ Missing(taken) # <<>>)
  <2>1. /\ nrOut' = [nrOut EXCEPT ![NrGroup] = Items(taken)] /\ nrGroup' = Tail(nrGroup)
        /\ nrAsked' = AskedFirst(nrChart, Tail(nrGroup)) /\ nrTaken' = NothingYet(nrChart, Tail(nrGroup))
        /\ nrChart' = nrChart
    BY <1>3 DEF CallEnds
  <2>2. nrGroup' # <<>> =>
          nrAsked' \in Seq(FactsRange(nrChart', NrGroup')) /\ TakenOK(nrTaken', nrChart', NrGroup')
    <3> SUFFICES ASSUME Tail(nrGroup) # <<>>
                 PROVE  nrAsked' \in Seq(FactsRange(nrChart', NrGroup')) /\ TakenOK(nrTaken', nrChart', NrGroup')
      BY <2>1
    <3>1. NrGroup' = Head(Tail(nrGroup))
      BY <2>1 DEF NrGroup
    <3> QED BY <1>1, <2>1, <3>1, GroupBegins
  <2>3. ItemsOK(Items(taken), NrFacts, nrChart)
    BY <1>1, ItemsFit
  <2>4. DOMAIN nrOut' = AllGroups
    BY <2>1 DEF NrInv
  <2>5. ASSUME NEW g \in AllGroups, ~ToCome(g)'
        PROVE  ItemsOK(nrOut'[g], FactsOf(nrChart, g), nrChart)
    <3>1. ~\E k \in DOMAIN Tail(nrGroup) : Tail(nrGroup)[k] = g
      BY <2>1, <2>5 DEF ToCome
    <3>2. CASE g = NrGroup
      <4>1. nrOut'[g] = Items(taken)
        BY <1>1, <2>1, <3>2 DEF NrInv
      <4> QED BY <2>3, <3>2, <4>1 DEF NrFacts
    <3>3. CASE g # NrGroup
      <4>1. ~ToCome(g)
        BY <3>1, <3>3, GroupsInOrder DEF ToCome, NrInv, NrGroup
      <4>2. nrOut'[g] = nrOut[g]
        BY <2>1, <3>3 DEF NrInv
      <4> QED BY <4>1, <4>2 DEF NrInv
    <3> QED BY <3>2, <3>3
  <2> QED BY <1>1, <2>1, <2>2, <2>4, <2>5 DEF NrInv
<1> QED BY <1>2, <1>3

LEMMA NrInvNext == NrInv /\ [NrNext]_nrVars => NrInv'
<1> SUFFICES ASSUME NrInv, [NrNext]_nrVars PROVE NrInv'
  OBVIOUS
<1>1. CASE UNCHANGED nrVars
  BY <1>1 DEF nrVars, NrInv, NrGroup, ToCome
<1>2. CASE NrNext
  <2>1. /\ nrGroup # <<>> /\ nrChart \in NrCharts
        /\ nrAsked \in Seq(FactsRange(nrChart, NrGroup)) /\ TakenOK(nrTaken, nrChart, NrGroup)
    BY <1>2 DEF NrNext, NrInv
  <2>2. NrGroup \in AllGroups
    BY <2>1, GroupsInOrder DEF NrInv, NrGroup
  <2>3. ASSUME NEW taken, TakenOK(taken, nrChart, NrGroup), Judge(taken), nrAsked # <<>>
        PROVE  NrInv'
    <3>1. CASE Len(nrAsked) = 1
      BY <2>1, <2>3, <3>1, CallEndsKeeps DEF Judge
    <3>2. CASE Len(nrAsked) # 1
      <4>1. nrAsked' = Tail(nrAsked) /\ nrTaken' = taken /\ UNCHANGED <<nrChart, nrGroup, nrOut>>
        BY <2>3, <3>2 DEF Judge
      <4>2. Tail(nrAsked) \in Seq(FactsRange(nrChart, NrGroup))
        BY <2>1, <2>3
      <4>3. NrGroup' = NrGroup
        BY <4>1 DEF NrGroup
      <4> QED BY <2>3, <4>1, <4>2, <4>3 DEF NrInv, ToCome
    <3> QED BY <3>1, <3>2
  <2>4. CASE NothingToAsk
    BY <2>1, <2>4, CallEndsKeeps DEF NothingToAsk
  <2>5. CASE nrAsked # <<>> /\ NotOne
    BY <2>1, <2>3, <2>5 DEF NotOne
  <2>6. CASE nrAsked # <<>> /\ CallFails
    BY <2>1, <2>6, CallEndsKeeps DEF CallFails
  <2>7. ASSUME NEW t \in NrTexts, nrAsked # <<>>, Answered(t) PROVE NrInv'
    <3> DEFINE f == Head(nrAsked)
    <3>1. CASE ~(Acceptable(t, f, nrChart) /\ NewWords(t))
      BY <2>1, <2>3, <2>7, <3>1 DEF Answered
    <3>2. CASE Acceptable(t, f, nrChart) /\ NewWords(t)
      <4> DEFINE taken == [nrTaken EXCEPT ![f.id] = t]
      <4>1. Judge(taken)
        BY <2>7, <3>2 DEF Answered
      <4>2. PICK n \in DOMAIN FactsOf(nrChart, NrGroup) : f = FactsOf(nrChart, NrGroup)[n]
        <5>1. f \in FactsRange(nrChart, NrGroup)
          BY <2>1, <2>7
        <5> QED BY <5>1 DEF FactsRange
      <4>3. FactsFine(FactsOf(nrChart, NrGroup), NrGroup)
        BY <2>1, <2>2, FactsAreFine
      <4>4. TextFits(t, f, nrChart) /\ \A id \in DOMAIN nrTaken : nrTaken[id].says # t.says
        BY <3>2 DEF TextFits, Acceptable, NewWords
      <4>5. f.id \in DOMAIN nrTaken
        BY <2>1, <4>2 DEF TakenOK, IdsOf
      <4> HIDE DEF f
      <4>6. /\ DOMAIN taken = DOMAIN nrTaken
            /\ \A id \in DOMAIN nrTaken : taken[id] = IF id = f.id THEN t ELSE nrTaken[id]
        BY <4>5
      <4> HIDE DEF taken
      <4>7. ASSUME NEW i \in DOMAIN FactsOf(nrChart, NrGroup)
            PROVE  \/ taken[FactsOf(nrChart, NrGroup)[i].id] = Unanswered
                   \/ TextFits(taken[FactsOf(nrChart, NrGroup)[i].id], FactsOf(nrChart, NrGroup)[i], nrChart)
        <5>1. FactsOf(nrChart, NrGroup)[i].id \in DOMAIN nrTaken
          BY <2>1 DEF TakenOK, IdsOf
        <5>2. CASE i = n
          BY <4>2, <4>4, <4>6, <5>1, <5>2
        <5>3. CASE i # n
          <6>1. FactsOf(nrChart, NrGroup)[i].id # f.id
            BY <4>2, <4>3, <5>3 DEF FactsFine
          <6> QED BY <2>1, <4>6, <5>1, <6>1 DEF TakenOK
        <5> QED BY <5>2, <5>3
      <4>8. ASSUME NEW a \in DOMAIN taken, NEW b \in DOMAIN taken, taken[a].says = taken[b].says
            PROVE  a = b \/ taken[a] = Unanswered
        <5>1. CASE a = f.id /\ b # f.id
          BY <4>4, <4>6, <4>8, <5>1
        <5>2. CASE a # f.id /\ b = f.id
          BY <4>4, <4>6, <4>8, <5>2
        <5>3. CASE a # f.id /\ b # f.id
          BY <2>1, <4>6, <4>8, <5>3 DEF TakenOK
        <5> QED BY <5>1, <5>2, <5>3
      <4>9. TakenOK(taken, nrChart, NrGroup)
        BY <2>1, <4>6, <4>7, <4>8 DEF TakenOK
      <4> QED BY <2>3, <2>7, <4>1, <4>9 DEF taken
    <3> QED BY <3>1, <3>2
  <2> QED BY <1>2, <2>4, <2>5, <2>6, <2>7 DEF NrNext
<1> QED BY <1>1, <1>2

-----------------------------------------------------------------------------
(* What is printed.  A fact that is shown once by one part and by no other is
   shown once by the whole. *)

Shows(items, k, f) == SameFact(items[k].fact, f)
OnceIn(items, f) ==
  \E k \in DOMAIN items : Shows(items, k, f) /\ \A j \in DOMAIN items : Shows(items, j, f) => j = k
NoneIn(items, f) == \A k \in DOMAIN items : ~Shows(items, k, f)

LEMMA NoneInBoth ==
  ASSUME NEW S, NEW a \in Seq(S), NEW b \in Seq(S), NEW f, NoneIn(a, f), NoneIn(b, f)
  PROVE  NoneIn(a \o b, f)
<1> SUFFICES ASSUME NEW k \in DOMAIN (a \o b) PROVE ~Shows(a \o b, k, f)
  BY DEF NoneIn
<1>1. /\ DOMAIN a = 1..Len(a) /\ DOMAIN b = 1..Len(b) /\ Len(a) \in Nat /\ Len(b) \in Nat
      /\ DOMAIN (a \o b) = 1..(Len(a) + Len(b))
      /\ \A i \in 1..Len(a) : (a \o b)[i] = a[i]
      /\ \A i \in 1..Len(b) : (a \o b)[Len(a) + i] = b[i]
  BY Joined
<1>2. CASE k <= Len(a)
  <2>1. k \in DOMAIN a /\ (a \o b)[k] = a[k]
    BY <1>1, <1>2
  <2> QED BY <2>1 DEF NoneIn, Shows
<1>3. CASE k > Len(a)
  <2>1. k - Len(a) \in DOMAIN b /\ Len(a) + (k - Len(a)) = k
    BY <1>1, <1>3
  <2>2. (a \o b)[k] = b[k - Len(a)]
    BY <1>1, <2>1
  <2> QED BY <2>1, <2>2 DEF NoneIn, Shows
<1>4. k \in Nat
  BY <1>1
<1> QED BY <1>1, <1>2, <1>3, <1>4

LEMMA OnceInFirst ==
  ASSUME NEW S, NEW a \in Seq(S), NEW b \in Seq(S), NEW f, OnceIn(a, f), NoneIn(b, f)
  PROVE  OnceIn(a \o b, f)
<1>1. /\ DOMAIN a = 1..Len(a) /\ DOMAIN b = 1..Len(b) /\ Len(a) \in Nat /\ Len(b) \in Nat
      /\ DOMAIN (a \o b) = 1..(Len(a) + Len(b))
      /\ \A i \in 1..Len(a) : (a \o b)[i] = a[i]
      /\ \A i \in 1..Len(b) : (a \o b)[Len(a) + i] = b[i]
  BY Joined
<1>2. PICK k \in DOMAIN a : Shows(a, k, f) /\ \A j \in DOMAIN a : Shows(a, j, f) => j = k
  BY DEF OnceIn
<1>3. k \in DOMAIN (a \o b) /\ (a \o b)[k] = a[k]
  BY <1>1
<1>4. ASSUME NEW j \in DOMAIN (a \o b), Shows(a \o b, j, f) PROVE j = k
  <2>1. j \in Nat
    BY <1>1
  <2>2. CASE j <= Len(a)
    <3>1. j \in DOMAIN a /\ (a \o b)[j] = a[j]
      BY <1>1, <2>2
    <3> QED BY <1>2, <1>4, <3>1 DEF Shows
  <2>3. CASE j > Len(a)
    <3>1. j - Len(a) \in DOMAIN b /\ Len(a) + (j - Len(a)) = j
      BY <1>1, <2>3
    <3>2. (a \o b)[j] = b[j - Len(a)]
      BY <1>1, <3>1
    <3> QED BY <1>4, <3>1, <3>2 DEF NoneIn, Shows
  <2> QED BY <1>1, <2>1, <2>2, <2>3
<1>5. Shows(a \o b, k, f)
  BY <1>2, <1>3 DEF Shows
<1> QED BY <1>3, <1>4, <1>5 DEF OnceIn

LEMMA OnceInSecond ==
  ASSUME NEW S, NEW a \in Seq(S), NEW b \in Seq(S), NEW f, NoneIn(a, f), OnceIn(b, f)
  PROVE  OnceIn(a \o b, f)
<1>1. /\ DOMAIN a = 1..Len(a) /\ DOMAIN b = 1..Len(b) /\ Len(a) \in Nat /\ Len(b) \in Nat
      /\ DOMAIN (a \o b) = 1..(Len(a) + Len(b))
      /\ \A i \in 1..Len(a) : (a \o b)[i] = a[i]
      /\ \A i \in 1..Len(b) : (a \o b)[Len(a) + i] = b[i]
  BY Joined
<1>2. PICK k \in DOMAIN b : Shows(b, k, f) /\ \A j \in DOMAIN b : Shows(b, j, f) => j = k
  BY DEF OnceIn
<1>3. Len(a) + k \in DOMAIN (a \o b) /\ (a \o b)[Len(a) + k] = b[k]
  BY <1>1
<1>4. ASSUME NEW j \in DOMAIN (a \o b), Shows(a \o b, j, f) PROVE j = Len(a) + k
  <2>1. j \in Nat
    BY <1>1
  <2>2. CASE j <= Len(a)
    <3>1. j \in DOMAIN a /\ (a \o b)[j] = a[j]
      BY <1>1, <2>2
    <3> QED BY <1>4, <3>1 DEF NoneIn, Shows
  <2>3. CASE j > Len(a)
    <3>1. j - Len(a) \in DOMAIN b /\ Len(a) + (j - Len(a)) = j
      BY <1>1, <2>3
    <3>2. (a \o b)[j] = b[j - Len(a)]
      BY <1>1, <3>1
    <3>3. j - Len(a) = k
      BY <1>2, <1>4, <3>1, <3>2 DEF Shows
    <3> QED BY <1>1, <3>1, <3>3
  <2> QED BY <1>1, <2>1, <2>2, <2>3
<1>5. Shows(a \o b, Len(a) + k, f)
  BY <1>2, <1>3 DEF Shows
<1> QED BY <1>3, <1>4, <1>5 DEF OnceIn

(* What every part has, the whole has. *)
LEMMA AllInBoth ==
  ASSUME NEW S, NEW a \in Seq(S), NEW b \in Seq(S), NEW T,
         \A k \in DOMAIN a : a[k].text \in T, \A k \in DOMAIN b : b[k].text \in T
  PROVE  \A k \in DOMAIN (a \o b) : (a \o b)[k].text \in T
<1> SUFFICES ASSUME NEW k \in DOMAIN (a \o b) PROVE (a \o b)[k].text \in T
  OBVIOUS
<1>1. /\ DOMAIN a = 1..Len(a) /\ DOMAIN b = 1..Len(b) /\ Len(a) \in Nat /\ Len(b) \in Nat
      /\ DOMAIN (a \o b) = 1..(Len(a) + Len(b))
      /\ \A i \in 1..Len(a) : (a \o b)[i] = a[i]
      /\ \A i \in 1..Len(b) : (a \o b)[Len(a) + i] = b[i]
  BY Joined
<1>2. CASE k <= Len(a)
  <2>1. k \in DOMAIN a /\ (a \o b)[k] = a[k]
    BY <1>1, <1>2
  <2> QED BY <2>1
<1>3. CASE k > Len(a)
  <2>1. k - Len(a) \in DOMAIN b /\ Len(a) + (k - Len(a)) = k
    BY <1>1, <1>3
  <2>2. (a \o b)[k] = b[k - Len(a)]
    BY <1>1, <2>1
  <2> QED BY <2>1, <2>2
<1>4. k \in Nat
  BY <1>1
<1> QED BY <1>1, <1>2, <1>3, <1>4

(* A group's own items show each of its facts once; no other group's show it. *)
LEMMA GroupShowsOnce ==
  ASSUME NEW c \in NrCharts, NEW g \in AllGroups, NEW items, ItemsOK(items, FactsOf(c, g), c),
         NEW h \in AllGroups, NEW i \in DOMAIN FactsOf(c, h)
  PROVE  /\ items \in Seq(Elems(items))
         /\ h = g => OnceIn(items, FactsOf(c, h)[i])
         /\ h # g => NoneIn(items, FactsOf(c, h)[i])
<1> DEFINE fs == FactsOf(c, g)
           f == FactsOf(c, h)[i]
<1>1. FactsFine(fs, g) /\ f.group = h
  BY FactsAreFine DEF FactsFine
<1>2. DOMAIN items = DOMAIN fs /\ \A k \in DOMAIN fs : items[k].fact = fs[k]
  <2>1. items = [k \in DOMAIN fs |-> items[k]]
    BY DEF ItemsOK
  <2>2. DOMAIN items = DOMAIN fs
    BY <2>1
  <2> QED BY <2>2 DEF ItemsOK, ItemOK
<1>3. items \in Seq(Elems(items))
  <2>1. Len(fs) \in Nat /\ DOMAIN fs = 1..Len(fs)
    BY <1>1 DEF FactsFine
  <2>2. items = [k \in 1..Len(fs) |-> items[k]]
    BY <2>1 DEF ItemsOK
  <2> HIDE DEF fs
  <2> QED BY <2>1, <2>2, MappedIsSeq
<1>4. ASSUME h = g PROVE OnceIn(items, f)
  <2>1. i \in DOMAIN fs /\ fs[i] = f
    BY <1>4
  <2>2. Shows(items, i, f)
    BY <1>2, <2>1 DEF Shows, SameFact
  <2>3. ASSUME NEW j \in DOMAIN items, Shows(items, j, f) PROVE j = i
    <3>1. j \in DOMAIN fs /\ fs[j].id = fs[i].id
      BY <1>2, <2>1, <2>3 DEF Shows, SameFact
    <3> QED BY <1>1, <2>1, <3>1 DEF FactsFine
  <2> QED BY <1>2, <2>1, <2>2, <2>3 DEF OnceIn
<1>5. ASSUME h # g PROVE NoneIn(items, f)
  <2>1. \A k \in DOMAIN items : items[k].fact.group = g
    BY <1>1, <1>2 DEF FactsFine
  <2> QED BY <1>1, <1>5, <2>1 DEF NoneIn, Shows, SameFact
<1> QED BY <1>3, <1>4, <1>5

(* Some of the items of a group, by the ids of their facts. *)
LEMMA PickShows ==
  ASSUME NEW items, items \in Seq(Elems(items)), NEW ids, NEW f
  PROVE  /\ Pick(items, ids) \in Seq(Elems(items))
         /\ NoneIn(items, f) \/ f.id \notin ids => NoneIn(Pick(items, ids), f)
         /\ OnceIn(items, f) /\ f.id \in ids => OnceIn(Pick(items, ids), f)
         /\ \A T : (\A k \in DOMAIN items : items[k].text \in T)
                     => \A k \in DOMAIN Pick(items, ids) : Pick(items, ids)[k].text \in T
<1> DEFINE places == {i \in DOMAIN items : items[i].fact.id \in ids}
           picked == Chosen(items, places)
           S == Elems(items)
<1>1. Pick(items, ids) = picked
  BY DEF Pick
<1>2. items \in Seq(S) /\ places \in SUBSET (DOMAIN items)
  OBVIOUS
<1>3. /\ \A i \in places : i \in DOMAIN items /\ items[i].fact.id \in ids
      /\ \A i \in DOMAIN items : items[i].fact.id \in ids => i \in places
  OBVIOUS
<1> HIDE DEF places, S
<1>4. /\ picked \in Seq(S)
      /\ \A k \in DOMAIN picked : \E i \in places : picked[k] = items[i]
      /\ \A i \in places : \E k \in DOMAIN picked : picked[k] = items[i]
      /\ \A j, k \in DOMAIN picked : j # k =>
           \E i, h \in places : i # h /\ picked[j] = items[i] /\ picked[k] = items[h]
  BY <1>2, ChosenElements
<1> HIDE DEF picked
<1>5. ASSUME NoneIn(items, f) \/ f.id \notin ids PROVE NoneIn(picked, f)
  <2>1. ASSUME NEW k \in DOMAIN picked, Shows(picked, k, f) PROVE FALSE
    <3>1. PICK i \in places : picked[k] = items[i]
      BY <1>4
    <3>2. i \in DOMAIN items /\ items[i].fact.id \in ids /\ Shows(items, i, f) /\ items[i].fact.id = f.id
      BY <1>3, <2>1, <3>1 DEF Shows, SameFact
    <3> QED BY <1>5, <3>2 DEF NoneIn
  <2> QED BY <2>1 DEF NoneIn
<1>6. ASSUME OnceIn(items, f), f.id \in ids PROVE OnceIn(picked, f)
  <2>1. PICK i \in DOMAIN items : Shows(items, i, f) /\ \A j \in DOMAIN items : Shows(items, j, f) => j = i
    BY <1>6 DEF OnceIn
  <2>2. i \in places
    BY <1>3, <1>6, <2>1 DEF Shows, SameFact
  <2>3. PICK k \in DOMAIN picked : picked[k] = items[i]
    BY <1>4, <2>2
  <2>4. Shows(picked, k, f)
    BY <2>1, <2>3 DEF Shows
  <2>5. ASSUME NEW j \in DOMAIN picked, Shows(picked, j, f), j # k PROVE FALSE
    <3>1. PICK a \in places, b \in places : a # b /\ picked[j] = items[a] /\ picked[k] = items[b]
      BY <1>4, <2>5
    <3>2. Shows(items, a, f) /\ Shows(items, b, f) /\ a \in DOMAIN items /\ b \in DOMAIN items
      BY <1>3, <2>4, <2>5, <3>1 DEF Shows
    <3> QED BY <2>1, <3>1, <3>2
  <2> QED BY <2>3, <2>4, <2>5 DEF OnceIn
<1>7. ASSUME NEW T, \A k \in DOMAIN items : items[k].text \in T, NEW k \in DOMAIN picked
      PROVE  picked[k].text \in T
  BY <1>3, <1>4, <1>7
<1> QED BY <1>1, <1>4, <1>5, <1>6, <1>7 DEF S

LEMMA OnceIsOne ==
  ASSUME NEW items, NEW f, OnceIn(items, f)
  PROVE  Cardinality({k \in DOMAIN items : SameFact(items[k].fact, f)}) = 1
<1>1. PICK k \in DOMAIN items : Shows(items, k, f) /\ \A j \in DOMAIN items : Shows(items, j, f) => j = k
  BY DEF OnceIn
<1>2. {j \in DOMAIN items : SameFact(items[j].fact, f)} = {k}
  BY <1>1 DEF Shows
<1> QED BY <1>2, FS_Singleton

(* A sequence stays one of a larger set. *)
LEMMA SeqOfMore ==
  ASSUME NEW S, NEW T, S \subseteq T, NEW s \in Seq(S)
  PROVE  s \in Seq(T)
OBVIOUS

LEMMA NrInvSound == NrInv => ReportIsSound
<1> SUFFICES ASSUME NrInv, nrGroup = <<>>
             PROVE  /\ \A g \in DOMAIN nrOut : Sound(nrOut[g])
                    /\ \A g \in AllGroups : \A i \in DOMAIN FactsOf(nrChart, g) :
                         LET f == FactsOf(nrChart, g)[i]
                         IN /\ Cardinality({k \in DOMAIN Rendered(nrOut) : SameFact(Rendered(nrOut)[k].fact, f)}) = 1
                            /\ g # "core" => Cardinality({e \in DescriptionsOf(nrOut)[g] : e[1] = f.id}) = 1
                    /\ Status(nrOut) = "ready" =>
                         \A k \in DOMAIN Rendered(nrOut) : Rendered(nrOut)[k].text \in NrTexts
  BY DEF ReportIsSound, AllGroups
<1>1. nrChart \in NrCharts /\ DOMAIN nrOut = AllGroups
  BY DEF NrInv
<1>2. ASSUME NEW g \in AllGroups PROVE ItemsOK(nrOut[g], FactsOf(nrChart, g), nrChart)
  BY DEF NrInv, ToCome
<1>3. ASSUME NEW g \in AllGroups PROVE Sound(nrOut[g])
  <2> DEFINE items == nrOut[g]
             fs == FactsOf(nrChart, g)
  <2>1. DOMAIN items = DOMAIN fs
    <3>1. items = [i \in DOMAIN fs |-> items[i]]
      BY <1>2 DEF ItemsOK
    <3> QED BY <3>1
  <2>2. ASSUME NEW i \in DOMAIN items, NEW j \in DOMAIN items, items[i].text.says = items[j].text.says
        PROVE  i = j
    BY <1>2, <2>1, <2>2 DEF ItemsOK
  <2>3. ASSUME NEW i \in DOMAIN items, ~items[i].fallback
        PROVE  /\ {m \in items[i].text.cites : m[1] # "aspect"} \subseteq items[i].fact.allowed
               /\ TrueOf(items[i].text, nrChart)
               /\ ~nrChart.timed => \A m \in items[i].text.cites : ~OfTheHour(m)
    <3> DEFINE t == items[i].text
    <3>1. items[i].fact = fs[i] /\ TextFits(t, fs[i], nrChart)
      BY <1>2, <2>1, <2>3 DEF ItemsOK, ItemOK
    <3> HIDE DEF t, fs
    <3>2. ASSUME NEW m \in t.cites, m[1] # "aspect" PROVE m \in fs[i].allowed
      BY <3>1, <3>2 DEF TextFits, ScopeErrors
    <3>3. TrueOf(t, nrChart)
      BY <3>1 DEF TrueOf, TextFits, ContextErrors
    <3>4. ASSUME ~nrChart.timed, NEW m \in t.cites PROVE ~OfTheHour(m)
      BY <3>1, <3>4 DEF TextFits, ContextErrors
    <3> QED BY <3>1, <3>2, <3>3, <3>4 DEF t
  <2> HIDE DEF items
  <2>4. Sound(items)
    BY <2>2, <2>3 DEF Sound
  <2> QED BY <2>4 DEF items
<1> DEFINE S == Elems(nrOut["core"]) \cup Elems(nrOut["planets"]) \cup Elems(nrOut["houses"]) \cup Elems(nrOut["aspects"])
           p1 == Pick(nrOut["core"], {"foundation", "dominants"})
           p2 == Pick(nrOut["core"], {"lunar_nodes"})
           p3 == Pick(nrOut["core"], {"synthesis", "recommendations"})
           r1 == p1 \o nrOut["planets"]
           r2 == r1 \o nrOut["houses"]
           r3 == r2 \o p2
           r4 == r3 \o nrOut["aspects"]
<1>4. Rendered(nrOut) = r4 \o p3
  BY DEF Rendered
<1>5. "core" \in AllGroups /\ "planets" \in AllGroups /\ "houses" \in AllGroups /\ "aspects" \in AllGroups
  BY DEF AllGroups
<1>6. ASSUME NEW g \in AllGroups
      PROVE  nrOut[g] \in Seq(Elems(nrOut[g])) /\ Elems(nrOut[g]) \subseteq S
  <2>1. nrOut[g] \in Seq(Elems(nrOut[g]))
    <3> DEFINE fs == FactsOf(nrChart, g)
    <3>1. Len(fs) \in Nat /\ DOMAIN fs = 1..Len(fs)
      BY <1>1, FactsAreFine DEF FactsFine
    <3>2. nrOut[g] = [k \in 1..Len(fs) |-> nrOut[g][k]]
      BY <1>2, <3>1 DEF ItemsOK
    <3> HIDE DEF fs
    <3> QED BY <3>1, <3>2, MappedIsSeq
  <2>2. Elems(nrOut[g]) \subseteq S
    BY DEF AllGroups
  <2> QED BY <2>1, <2>2
<1>7. p1 \in Seq(S) /\ p2 \in Seq(S) /\ p3 \in Seq(S)
  <2> DEFINE core == nrOut["core"]
  <2>1. core \in Seq(Elems(core)) /\ Elems(core) \subseteq S
    BY <1>5, <1>6
  <2> HIDE DEF core, S
  <2>2. ASSUME NEW ids PROVE Pick(core, ids) \in Seq(S)
    <3>1. \A f : Pick(core, ids) \in Seq(Elems(core))
      BY <2>1, PickShows
    <3>2. Pick(core, ids) \in Seq(Elems(core))
      BY <3>1
    <3> QED BY <2>1, <3>2, SeqOfMore
  <2> QED BY <2>2 DEF core
<1>8. nrOut["planets"] \in Seq(S) /\ nrOut["houses"] \in Seq(S) /\ nrOut["aspects"] \in Seq(S)
  BY <1>5, <1>6, SeqOfMore
<1> HIDE DEF S
<1>9. r1 \in Seq(S)
  BY <1>7, <1>8, Joined
<1>10. r2 \in Seq(S)
  <2> HIDE DEF r1
  <2> QED BY <1>8, <1>9, Joined
<1>11. r3 \in Seq(S)
  <2> HIDE DEF r2, p2
  <2> QED BY <1>7, <1>10, Joined
<1>12. r4 \in Seq(S)
  <2> HIDE DEF r3
  <2> QED BY <1>8, <1>11, Joined
<1>13. ASSUME NEW g \in AllGroups, NEW i \in DOMAIN FactsOf(nrChart, g)
       PROVE  OnceIn(Rendered(nrOut), FactsOf(nrChart, g)[i])
  <2> DEFINE f == FactsOf(nrChart, g)[i]
  <2>1. ASSUME NEW h \in AllGroups
        PROVE  (h = g => OnceIn(nrOut[h], f)) /\ (h # g => NoneIn(nrOut[h], f))
    BY <1>1, <1>2, GroupShowsOnce
  <2>2. /\ NoneIn(nrOut["core"], f) => NoneIn(p1, f) /\ NoneIn(p2, f) /\ NoneIn(p3, f)
        /\ f.id \notin {"foundation", "dominants"} => NoneIn(p1, f)
        /\ f.id \notin {"lunar_nodes"} => NoneIn(p2, f)
        /\ f.id \notin {"synthesis", "recommendations"} => NoneIn(p3, f)
        /\ OnceIn(nrOut["core"], f) =>
             /\ f.id \in {"foundation", "dominants"} => OnceIn(p1, f)
             /\ f.id \in {"lunar_nodes"} => OnceIn(p2, f)
             /\ f.id \in {"synthesis", "recommendations"} => OnceIn(p3, f)
    BY <1>5, <1>6, PickShows
  <2>3. g = "core" => f.id \in {"foundation", "lunar_nodes", "dominants", "synthesis", "recommendations"}
    BY <1>1, CoreFine DEF FactsOf, CoreIds
  <2> DEFINE r5 == r4 \o p3
             Joins(a, b, c) == /\ NoneIn(a, f) /\ NoneIn(b, f) => NoneIn(c, f)
                               /\ OnceIn(a, f) /\ NoneIn(b, f) => OnceIn(c, f)
                               /\ NoneIn(a, f) /\ OnceIn(b, f) => OnceIn(c, f)
  <2> HIDE DEF f, p1, p2, p3
  <2>9. Joins(p1, nrOut["planets"], r1)
    BY <1>7, <1>8, NoneInBoth, OnceInFirst, OnceInSecond
  <2>10. Joins(r1, nrOut["houses"], r2)
    <3> HIDE DEF r1
    <3> QED BY <1>8, <1>9, NoneInBoth, OnceInFirst, OnceInSecond
  <2>11. Joins(r2, p2, r3)
    <3> HIDE DEF r2
    <3> QED BY <1>7, <1>10, NoneInBoth, OnceInFirst, OnceInSecond
  <2>12. Joins(r3, nrOut["aspects"], r4)
    <3> HIDE DEF r3
    <3> QED BY <1>8, <1>11, NoneInBoth, OnceInFirst, OnceInSecond
  <2>13. Joins(r4, p3, r5)
    <3> HIDE DEF r4
    <3> QED BY <1>7, <1>12, NoneInBoth, OnceInFirst, OnceInSecond
  <2> HIDE DEF r1, r2, r3, r4, r5
  <2>4. ASSUME g = "planets" PROVE OnceIn(r5, f)
    <3>1. OnceIn(nrOut["planets"], f) /\ NoneIn(nrOut["houses"], f) /\ NoneIn(nrOut["aspects"], f)
          /\ NoneIn(p1, f) /\ NoneIn(p2, f) /\ NoneIn(p3, f)
      BY <1>5, <2>1, <2>2, <2>4
    <3> QED BY <3>1, <2>9, <2>10, <2>11, <2>12, <2>13
  <2>5. ASSUME g = "houses" PROVE OnceIn(r5, f)
    <3>1. NoneIn(nrOut["planets"], f) /\ OnceIn(nrOut["houses"], f) /\ NoneIn(nrOut["aspects"], f)
          /\ NoneIn(p1, f) /\ NoneIn(p2, f) /\ NoneIn(p3, f)
      BY <1>5, <2>1, <2>2, <2>5
    <3> QED BY <3>1, <2>9, <2>10, <2>11, <2>12, <2>13
  <2>6. ASSUME g = "aspects" PROVE OnceIn(r5, f)
    <3>1. NoneIn(nrOut["planets"], f) /\ NoneIn(nrOut["houses"], f) /\ OnceIn(nrOut["aspects"], f)
          /\ NoneIn(p1, f) /\ NoneIn(p2, f) /\ NoneIn(p3, f)
      BY <1>5, <2>1, <2>2, <2>6
    <3> QED BY <3>1, <2>9, <2>10, <2>11, <2>12, <2>13
  <2>7. ASSUME g = "core" PROVE OnceIn(r5, f)
    <3>1. NoneIn(nrOut["planets"], f) /\ NoneIn(nrOut["houses"], f) /\ NoneIn(nrOut["aspects"], f)
      BY <1>5, <2>1, <2>7
    <3>2. CASE f.id \in {"foundation", "dominants"}
      <4>1. OnceIn(p1, f) /\ NoneIn(p2, f) /\ NoneIn(p3, f)
        BY <1>5, <2>1, <2>2, <2>7, <3>2
      <4> QED BY <3>1, <4>1, <2>9, <2>10, <2>11, <2>12, <2>13
    <3>3. CASE f.id = "lunar_nodes"
      <4>1. NoneIn(p1, f) /\ OnceIn(p2, f) /\ NoneIn(p3, f)
        BY <1>5, <2>1, <2>2, <2>7, <3>3
      <4> QED BY <3>1, <4>1, <2>9, <2>10, <2>11, <2>12, <2>13
    <3>4. CASE f.id \in {"synthesis", "recommendations"}
      <4>1. NoneIn(p1, f) /\ NoneIn(p2, f) /\ OnceIn(p3, f)
        BY <1>5, <2>1, <2>2, <2>7, <3>4
      <4> QED BY <3>1, <4>1, <2>9, <2>10, <2>11, <2>12, <2>13
    <3> QED BY <2>3, <2>7, <3>2, <3>3, <3>4
  <2>8. g = "core" \/ g = "planets" \/ g = "houses" \/ g = "aspects"
    BY DEF AllGroups
  <2>14. OnceIn(r5, f)
    BY <2>4, <2>5, <2>6, <2>7, <2>8
  <2>15. Rendered(nrOut) = r5
    BY <1>4 DEF r5
  <2> QED BY <2>14, <2>15 DEF f
<1>14. ASSUME NEW g \in AllGroups, g # "core", NEW i \in DOMAIN FactsOf(nrChart, g)
       PROVE  Cardinality({e \in DescriptionsOf(nrOut)[g] : e[1] = FactsOf(nrChart, g)[i].id}) = 1
  <2> DEFINE f == FactsOf(nrChart, g)[i]
             items == nrOut[g]
  <2>1. DescriptionsOf(nrOut)[g] = {<<items[k].fact.id, items[k].text>> : k \in DOMAIN items}
    BY <1>14 DEF DescriptionsOf, AllGroups
  <2>2. DOMAIN items = DOMAIN FactsOf(nrChart, g)
    <3>1. items = [k \in DOMAIN FactsOf(nrChart, g) |-> items[k]]
      BY <1>2 DEF ItemsOK
    <3> QED BY <3>1
  <2>3. \A k \in DOMAIN items : items[k].fact = FactsOf(nrChart, g)[k]
    BY <1>2, <2>2 DEF ItemsOK, ItemOK
  <2>4. \A k \in DOMAIN items : items[k].fact.id = f.id => k = i
    BY <1>1, <2>2, <2>3, FactsAreFine DEF FactsFine
  <2> HIDE DEF items
  <2>5. {e \in DescriptionsOf(nrOut)[g] : e[1] = f.id} = {<<items[i].fact.id, items[i].text>>}
    <3>1. i \in DOMAIN items /\ items[i].fact.id = f.id
      BY <2>2, <2>3
    <3> HIDE DEF f
    <3>2. ASSUME NEW e \in DescriptionsOf(nrOut)[g], e[1] = f.id PROVE e = <<items[i].fact.id, items[i].text>>
      <4>1. PICK k \in DOMAIN items : e = <<items[k].fact.id, items[k].text>>
        BY <2>1
      <4>2. items[k].fact.id = f.id
        BY <3>2, <4>1
      <4> QED BY <2>4, <4>1, <4>2
    <3>3. <<items[i].fact.id, items[i].text>> \in DescriptionsOf(nrOut)[g]
      BY <2>1, <3>1
    <3> QED BY <3>1, <3>2, <3>3
  <2> QED BY <2>5, FS_Singleton
<1>15. ASSUME Status(nrOut) = "ready"
       PROVE  \A k \in DOMAIN Rendered(nrOut) : Rendered(nrOut)[k].text \in NrTexts
  <2>1. ASSUME NEW g \in AllGroups, NEW k \in DOMAIN nrOut[g] PROVE nrOut[g][k].text \in NrTexts
    <3>1. ~nrOut[g][k].fallback
      BY <1>1, <1>15 DEF Status
    <3>2. nrOut[g] = [j \in DOMAIN FactsOf(nrChart, g) |-> nrOut[g][j]]
      BY <1>2 DEF ItemsOK
    <3>3. k \in DOMAIN FactsOf(nrChart, g)
      BY <3>2
    <3> QED BY <1>2, <3>1, <3>3 DEF ItemsOK, ItemOK, TextFits
  <2>2. /\ \A k \in DOMAIN p1 : p1[k].text \in NrTexts
        /\ \A k \in DOMAIN p2 : p2[k].text \in NrTexts
        /\ \A k \in DOMAIN p3 : p3[k].text \in NrTexts
    BY <1>5, <1>6, <2>1, PickShows
  <2> HIDE DEF p1, p2, p3
  <2>3. \A k \in DOMAIN r1 : r1[k].text \in NrTexts
    BY <1>5, <1>7, <1>8, <2>1, <2>2, AllInBoth
  <2>4. \A k \in DOMAIN r2 : r2[k].text \in NrTexts
    <3> HIDE DEF r1
    <3> QED BY <1>5, <1>8, <1>9, <2>1, <2>3, AllInBoth
  <2>5. \A k \in DOMAIN r3 : r3[k].text \in NrTexts
    <3> HIDE DEF r2
    <3> QED BY <1>7, <1>10, <2>2, <2>4, AllInBoth
  <2>6. \A k \in DOMAIN r4 : r4[k].text \in NrTexts
    <3> HIDE DEF r3
    <3> QED BY <1>5, <1>8, <1>11, <2>1, <2>5, AllInBoth
  <2>7. \A k \in DOMAIN (r4 \o p3) : (r4 \o p3)[k].text \in NrTexts
    <3> HIDE DEF r4
    <3> QED BY <1>7, <1>12, <2>2, <2>6, AllInBoth
  <2> QED BY <1>4, <2>7
<1>16. ASSUME NEW g \in AllGroups, NEW i \in DOMAIN FactsOf(nrChart, g)
       PROVE  Cardinality({k \in DOMAIN Rendered(nrOut) :
                             SameFact(Rendered(nrOut)[k].fact, FactsOf(nrChart, g)[i])}) = 1
  BY <1>13, OnceIsOne
<1> HIDE DEF r4, p1, p2, p3
<1> QED BY <1>1, <1>3, <1>14, <1>15, <1>16

(* Whatever is missing, doubled, malformed or refused on the way, and whatever
   the chart: a finished report covers it and says nothing else. *)
THEOREM ReportIsSoundHolds == NrSpec => []ReportIsSound
<1>1. NrInit => NrInv
  BY NrInvInit
<1>2. NrInv /\ [NrNext]_nrVars => NrInv'
  BY NrInvNext
<1>3. NrInv => ReportIsSound
  BY NrInvSound
<1> QED BY <1>1, <1>2, <1>3, PTL DEF NrSpec

-----------------------------------------------------------------------------
(* The descriptions.  What a fold keeps at every step it keeps to its end: the
   numbers that have a property are all numbers if 0 has it and each hands it on
   to the next. *)

LEMMA LeastNatural ==
  ASSUME NEW T, T \subseteq Nat, T # {}
  PROVE  \E x \in T : \A y \in T : x <= y
<1> DEFINE R == OpToRel(<, Nat)
<1>1. IsWellFoundedOn(R, Nat)
  BY NatLessThanWellFounded
<1>2. \A x, y \in Nat : y < x => <<y, x>> \in R
  BY DEF OpToRel
<1> HIDE DEF R
<1>3. \E x \in T : \A y \in T : ~ (<<y, x>> \in R)
  BY <1>1, WFMin, Zenon
<1>4. PICK x \in T : \A y \in T : ~ (<<y, x>> \in R)
  BY <1>3
<1>5. ASSUME NEW y \in T PROVE x <= y
  <2>1. x \in Nat /\ y \in Nat
    OBVIOUS
  <2>2. ~ (<<y, x>> \in R)
    BY <1>4, Zenon
  <2>3. ~ (y < x)
    BY <2>1, <2>2, <1>2, Zenon
  <2> QED BY <2>1, <2>3
<1> QED BY <1>5

LEMMA StepByStep ==
  ASSUME NEW n \in Nat, NEW T, 0 \in T, \A i \in 1..n : i - 1 \in T => i \in T
  PROVE  \A i \in 0..n : i \in T
<1> DEFINE without == {i \in 0..n : i \notin T}
<1>1. without \subseteq Nat
  OBVIOUS
<1>2. ASSUME without # {} PROVE FALSE
  <2>1. PICK x \in without : \A y \in without : x <= y
    BY <1>1, <1>2, LeastNatural
  <2>2. x \in 1..n /\ x - 1 \in 0..n /\ ~(x <= x - 1)
    BY <2>1
  <2>3. x - 1 \in T
    BY <2>1, <2>2
  <2> QED BY <2>1, <2>2, <2>3
<1> QED BY <1>2

(* A function that is given step by step exists. *)
IsStep(step, n, S) == step \in [S \X (1..n) -> S]
IsFold(f, step, n, S, init) ==
  f \in [0..n -> S] /\ f[0] = init /\ \A i \in 1..n : f[i] = step[<<f[i - 1], i>>]

LEMMA FoldExists ==
  ASSUME NEW n \in Nat, NEW S, NEW init \in S, NEW step, IsStep(step, n, S)
  PROVE  \E f : IsFold(f, step, n, S, init)
<1> DEFINE Upto(m, f) == f \in [0..m -> S] /\ f[0] = init /\ \A i \in 1..m : f[i] = step[<<f[i - 1], i>>]
           T == {m \in 0..n : \E f : Upto(m, f)}
<1> USE DEF IsStep
<1>1. 0 \in T
  <2> DEFINE g == [i \in 0..0 |-> init]
  <2>1. g \in [0..0 -> S] /\ g[0] = init /\ 1..0 = {}
    OBVIOUS
  <2> HIDE DEF g
  <2>2. Upto(0, g)
    BY <2>1
  <2> QED BY <2>2
<1>2. ASSUME NEW m \in 1..n, m - 1 \in T PROVE m \in T
  <2>1. PICK f : Upto(m - 1, f)
    BY <1>2
  <2> DEFINE g == [i \in 0..m |-> IF i = m THEN step[<<f[m - 1], m>>] ELSE f[i]]
  <2>2. m - 1 \in 0..(m - 1) /\ m \in Nat
    OBVIOUS
  <2>3. f[m - 1] \in S
    BY <2>1, <2>2
  <2>4. step[<<f[m - 1], m>>] \in S
    BY <2>3
  <2>5. \A i \in 0..m : i # m => i \in 0..(m - 1)
    OBVIOUS
  <2>6. \A i \in 0..(m - 1) : g[i] = f[i] /\ f[i] \in S
    BY <2>1
  <2>7. g \in [0..m -> S]
    BY <2>1, <2>4, <2>5
  <2>8. g[0] = init
    BY <2>1, <2>6
  <2>9. ASSUME NEW i \in 1..m PROVE g[i] = step[<<g[i - 1], i>>]
    <3>1. i - 1 \in 0..(m - 1) /\ g[i - 1] = f[i - 1]
      OBVIOUS
    <3>2. CASE i = m
      <4>1. g[m] = step[<<f[m - 1], m>>]
        OBVIOUS
      <4> HIDE DEF g
      <4> QED BY <3>1, <3>2, <4>1
    <3>3. CASE i # m
      <4>1. i \in 1..(m - 1) /\ g[i] = f[i]
        BY <3>3
      <4> HIDE DEF g
      <4> QED BY <2>1, <3>1, <4>1
    <3> QED BY <3>2, <3>3
  <2> HIDE DEF g
  <2>10. Upto(m, g)
    BY <2>7, <2>8, <2>9
  <2> QED BY <2>10
<1>3. n \in T
  <2> HIDE DEF T
  <2>1. \A i \in 0..n : i \in T
    BY <1>1, <1>2, StepByStep
  <2> QED BY <2>1
<1> QED BY <1>3 DEF IsFold

FullTexts == {r.full : r \in NdReplies}
EntryOf(K) == [key : K, short : BOOLEAN, full : FullTexts]
OneEach(es) == \A i, j \in DOMAIN es : es[i].key = es[j].key => i = j
GoodEntries(section, K) ==
  {es \in Seq(EntryOf(K)) : OneEach(es) /\ \A i \in DOMAIN es : Kept(section, es[i])}
IsReply(reply) ==
  reply = <<"none">> \/ \E K : \E es \in Seq(EntryOf(K)) : reply = <<"texts", es>>
IsBatches(calls) ==
  /\ Len(calls) \in Nat /\ DOMAIN calls = 1..Len(calls) /\ calls \in Seq(Elems(calls))
  /\ \A i \in DOMAIN calls : "reply" \in DOMAIN calls[i] /\ IsReply(calls[i].reply)

LEMMA PutFine ==
  ASSUME NEW section, NEW K, NEW es \in GoodEntries(section, K), NEW e \in EntryOf(K), Kept(section, e)
  PROVE  Put(es, e) \in GoodEntries(section, K)
<1> DEFINE E == EntryOf(K)
<1>1. es \in Seq(E) /\ OneEach(es) /\ \A i \in DOMAIN es : Kept(section, es[i])
  BY DEF GoodEntries
<1>2. CASE \E i \in DOMAIN es : es[i].key = e.key
  <2> DEFINE new == [i \in DOMAIN es |-> IF es[i].key = e.key THEN e ELSE es[i]]
  <2>1. Put(es, e) = new
    BY <1>2 DEF Put
  <2>2. new \in Seq(E)
    <3> HIDE DEF E
    <3>1. e \in E
      BY DEF E
    <3>2. DOMAIN es = 1..Len(es) /\ Len(es) \in Nat /\ \A i \in 1..Len(es) : es[i] \in E
      BY <1>1
    <3> QED BY <3>1, <3>2
  <2>3. \A i \in DOMAIN es : new[i].key = es[i].key /\ Kept(section, new[i])
    BY <1>1
  <2>4. DOMAIN new = DOMAIN es
    OBVIOUS
  <2> HIDE DEF new
  <2>5. OneEach(new)
    BY <1>1, <2>3, <2>4 DEF OneEach
  <2> QED BY <2>1, <2>2, <2>3, <2>4, <2>5 DEF GoodEntries
<1>3. CASE ~\E i \in DOMAIN es : es[i].key = e.key
  <2> DEFINE new == Append(es, e)
  <2>1. Put(es, e) = new
    BY <1>3 DEF Put
  <2>2. /\ new \in Seq(E) /\ Len(es) \in Nat /\ DOMAIN es = 1..Len(es) /\ DOMAIN new = 1..(Len(es) + 1)
        /\ \A i \in 1..Len(es) : new[i] = es[i]
        /\ new[Len(es) + 1] = e
    <3>1. e \in E
      OBVIOUS
    <3> HIDE DEF E
    <3> QED BY <1>1, <3>1
  <2> HIDE DEF new
  <2>3. \A i \in DOMAIN new : i \in DOMAIN es \/ i = Len(es) + 1
    BY <2>2
  <2>4. \A i \in DOMAIN new : Kept(section, new[i])
    BY <1>1, <2>2, <2>3
  <2>5. OneEach(new)
    <3>1. ASSUME NEW i \in DOMAIN new, NEW j \in DOMAIN new, new[i].key = new[j].key PROVE i = j
      <4>1. CASE i \in DOMAIN es /\ j \in DOMAIN es
        BY <1>1, <2>2, <3>1, <4>1 DEF OneEach
      <4>2. CASE i = Len(es) + 1 \/ j = Len(es) + 1
        BY <1>3, <2>2, <2>3, <3>1, <4>2
      <4> QED BY <2>3, <4>1, <4>2
    <3> QED BY <3>1 DEF OneEach
  <2> QED BY <2>1, <2>2, <2>4, <2>5 DEF GoodEntries
<1> QED BY <1>2, <1>3

(* The entries of a reply, put in one after the other. *)
LEMMA PutAllFine ==
  ASSUME NEW section, NEW K, NEW es \in GoodEntries(section, K), NEW more \in Seq(EntryOf(K))
  PROVE  PutAll(section, es, more) \in GoodEntries(section, K)
<1> DEFINE n == Len(more)
           S == GoodEntries(section, K)
           Step(x, i) == IF Kept(section, more[i]) THEN Put(x, more[i]) ELSE x
           step == [x \in S \X (1..n) |-> Step(x[1], x[2])]
           Folds(h) == h = [i \in 0..n |->
                              IF i = 0 THEN es
                              ELSE IF Kept(section, more[i]) THEN Put(h[i - 1], more[i]) ELSE h[i - 1]]
           f == CHOOSE h : Folds(h)
<1>1. n \in Nat /\ \A i \in 1..n : more[i] \in EntryOf(K)
  OBVIOUS
<1>2. ASSUME NEW x \in S, NEW i \in 1..n PROVE Step(x, i) \in S
  BY <1>1, PutFine
<1> HIDE DEF S, n
<1>3. step \in [S \X (1..n) -> S]
  <2> HIDE DEF Step
  <2> QED BY <1>2
<1>4. es \in S
  BY DEF S
<1>5. PICK g : IsFold(g, step, n, S, es)
  <2> HIDE DEF step
  <2>1. IsStep(step, n, S)
    BY <1>3 DEF IsStep
  <2> QED BY <1>1, <1>4, <2>1, FoldExists
<1>6. ASSUME NEW i \in 1..n PROVE g[i] = Step(g[i - 1], i)
  <2>1. i - 1 \in 0..n /\ g[i - 1] \in S
    BY <1>1, <1>5 DEF IsFold
  <2> HIDE DEF Step
  <2> QED BY <1>5, <2>1 DEF IsFold
<1>7. Folds(g)
  <2>1. \A i \in 0..n : i = 0 \/ i \in 1..n
    BY <1>1
  <2>2. g = [i \in 0..n |-> g[i]]
    BY <1>5 DEF IsFold
  <2>3. \A i \in 0..n : g[i] = IF i = 0 THEN es
                               ELSE IF Kept(section, more[i]) THEN Put(g[i - 1], more[i]) ELSE g[i - 1]
    BY <1>5, <1>6, <2>1 DEF IsFold
  <2> QED BY <2>2, <2>3, Zenon
<1>8. Folds(f)
  <2> HIDE DEF Folds
  <2> QED BY <1>7
<1>9. PutAll(section, es, more) = f[n]
  BY DEF PutAll, n
<1> HIDE DEF f
<1>10. f[0] \in S
  <2>1. f[0] = es
    BY <1>1, <1>8
  <2> QED BY <1>4, <2>1
<1>11. ASSUME NEW i \in 1..n, f[i - 1] \in S PROVE f[i] \in S
  <2>1. i \in 0..n /\ i # 0
    BY <1>1
  <2>2. f[i] = IF Kept(section, more[i]) THEN Put(f[i - 1], more[i]) ELSE f[i - 1]
    BY <1>8, <2>1
  <2>3. f[i] = Step(f[i - 1], i)
    BY <2>2
  <2> HIDE DEF Step
  <2> QED BY <1>2, <1>11, <2>3
<1> DEFINE T == {i \in 0..n : f[i] \in S}
<1>12. n \in T
  <2>1. 0 \in T /\ \A i \in 1..n : i - 1 \in T => i \in T
    BY <1>1, <1>10, <1>11
  <2> HIDE DEF T
  <2>2. \A i \in 0..n : i \in T
    BY <1>1, <2>1, StepByStep
  <2> QED BY <1>1, <2>2
<1> QED BY <1>9, <1>12 DEF S

LEMMA EmptyIsGood ==
  ASSUME NEW section, NEW K
  PROVE  <<>> \in GoodEntries(section, K)
<1> DEFINE E == EntryOf(K)
<1>1. <<>> \in Seq(E) /\ DOMAIN <<>> = {}
  OBVIOUS
<1> HIDE DEF E
<1>2. OneEach(<<>>) /\ \A i \in DOMAIN <<>> : Kept(section, <<>>[i])
  BY <1>1 DEF OneEach
<1> QED BY <1>1, <1>2 DEF GoodEntries, E

(* The replies of a section, one after the other. *)
LEMMA CollectedFine ==
  ASSUME IsBatches(ndCalls), \A i \in DOMAIN ndCalls : ~Waiting(i), NEW section
  PROVE  \E K : Collected(section) \in GoodEntries(section, K)
<1> DEFINE n == Len(ndCalls)
           K == UNION {{e.key : e \in Elems(ndCalls[i].reply[2])} : i \in DOMAIN ndCalls}
           S == GoodEntries(section, K)
           Step(x, i) == IF ndCalls[i].section = section THEN PutAll(section, x, ndCalls[i].reply[2]) ELSE x
           step == [x \in S \X (1..n) |-> Step(x[1], x[2])]
           Folds(h) == h = [i \in 0..n |->
                              IF i = 0 THEN <<>>
                              ELSE IF ndCalls[i].section = section
                                   THEN PutAll(section, h[i - 1], ndCalls[i].reply[2])
                              ELSE h[i - 1]]
           f == CHOOSE h : Folds(h)
<1>1. n \in Nat /\ DOMAIN ndCalls = 1..n
  BY DEF IsBatches
<1>2. ASSUME NEW i \in 1..n PROVE ndCalls[i].reply[2] \in Seq(EntryOf(K))
  <2> DEFINE es == ndCalls[i].reply[2]
  <2>1. PICK L : \E es0 \in Seq(EntryOf(L)) : ndCalls[i].reply = <<"texts", es0>>
    BY <1>1 DEF IsBatches, IsReply, Waiting
  <2>2. es \in Seq(EntryOf(L))
    BY <2>1
  <2>3. \A e \in Elems(es) : e.key \in K
    BY <1>1
  <2> HIDE DEF es, K
  <2>4. /\ Len(es) \in Nat /\ DOMAIN es = 1..Len(es) /\ \A k \in 1..Len(es) : es[k] \in EntryOf(L)
        /\ es = [k \in 1..Len(es) |-> es[k]]
    BY <2>2
  <2>5. \A k \in 1..Len(es) : es[k] \in EntryOf(K)
    <3> SUFFICES ASSUME NEW k \in 1..Len(es) PROVE es[k] \in EntryOf(K)
      OBVIOUS
    <3>1. es[k].key \in K
      BY <2>3, <2>4 DEF Elems
    <3>2. es[k] \in EntryOf(L)
      BY <2>4
    <3> QED BY <3>1, <3>2 DEF EntryOf
  <2>6. es \in Seq(EntryOf(K))
    <3> DEFINE E == EntryOf(K)
    <3>1. \A k \in 1..Len(es) : es[k] \in E
      BY <2>5
    <3> HIDE DEF E
    <3>2. es \in Seq(E)
      BY <2>4, <3>1
    <3> QED BY <3>2 DEF E
  <2> QED BY <2>6 DEF es
<1> HIDE DEF K
<1>3. ASSUME NEW x \in S, NEW i \in 1..n PROVE Step(x, i) \in S
  BY <1>2, PutAllFine
<1>4. <<>> \in S
  BY EmptyIsGood
<1> HIDE DEF S, n
<1>5. step \in [S \X (1..n) -> S]
  <2> HIDE DEF Step
  <2> QED BY <1>3
<1>6. PICK g : IsFold(g, step, n, S, <<>>)
  <2> HIDE DEF step
  <2>1. IsStep(step, n, S)
    BY <1>5 DEF IsStep
  <2> QED BY <1>1, <1>4, <2>1, FoldExists
<1>7. ASSUME NEW i \in 1..n PROVE g[i] = Step(g[i - 1], i)
  <2>1. i - 1 \in 0..n /\ g[i - 1] \in S
    BY <1>1, <1>6 DEF IsFold
  <2> HIDE DEF Step
  <2> QED BY <1>6, <2>1 DEF IsFold
<1>8. Folds(g)
  <2>1. \A i \in 0..n : i = 0 \/ i \in 1..n
    BY <1>1
  <2>2. g = [i \in 0..n |-> g[i]]
    BY <1>6 DEF IsFold
  <2>3. \A i \in 0..n : g[i] = IF i = 0 THEN <<>>
                               ELSE IF ndCalls[i].section = section
                                    THEN PutAll(section, g[i - 1], ndCalls[i].reply[2])
                               ELSE g[i - 1]
    BY <1>6, <1>7, <2>1 DEF IsFold
  <2> QED BY <2>2, <2>3, Zenon
<1>9. Folds(f)
  <2> HIDE DEF Folds
  <2> QED BY <1>8
<1>10. Collected(section) = f[n]
  BY DEF Collected, n
<1> HIDE DEF f
<1>11. f[0] \in S
  <2>1. f[0] = <<>>
    BY <1>1, <1>9
  <2> QED BY <1>4, <2>1
<1>12. ASSUME NEW i \in 1..n, f[i - 1] \in S PROVE f[i] \in S
  <2>1. i \in 0..n /\ i # 0
    BY <1>1
  <2>2. f[i] = IF ndCalls[i].section = section THEN PutAll(section, f[i - 1], ndCalls[i].reply[2])
               ELSE f[i - 1]
    BY <1>9, <2>1
  <2>3. f[i] = Step(f[i - 1], i)
    BY <2>2
  <2> HIDE DEF Step
  <2> QED BY <1>3, <1>12, <2>3
<1> DEFINE T == {i \in 0..n : f[i] \in S}
<1>13. n \in T
  <2>1. 0 \in T /\ \A i \in 1..n : i - 1 \in T => i \in T
    BY <1>1, <1>11, <1>12
  <2> HIDE DEF T
  <2>2. \A i \in 0..n : i \in T
    BY <1>1, <2>1, StepByStep
  <2> QED BY <1>1, <2>2
<1> QED BY <1>10, <1>13 DEF S

(* What is known between two steps.  No key comes twice in a list, and what has
   taken an entry's place since the batches came is that of a bad text. *)

ListsFit(section) ==
  /\ \E K : ndEntries[section] \in GoodEntries(section, K)
  /\ DOMAIN ndFirst[section] = DOMAIN ndEntries[section]
  /\ \A i \in DOMAIN ndFirst[section] :
       ~NeedsRepair(ndFirst[section][i], section) => ndEntries[section][i] = ndFirst[section][i]

NdInv ==
  /\ ndChart \in NdCharts /\ IsBatches(ndCalls)
  /\ DOMAIN ndFirst = NdSections /\ DOMAIN ndEntries = NdSections
  /\ \A section \in NdSections : ListsFit(section)
  /\ ndRepairing = <<>> \/ \E section \in NdSections : \E round \in 1..2 : ndRepairing = <<section, round>>

LEMMA ChunksFine ==
  ASSUME NEW keys, Len(keys) \in Nat
  PROVE  \E n \in Nat : DOMAIN ChunksOf(keys) = 1..n
<1> DEFINE a == Len(keys) + NdBatch - 1
           n == a \div NdBatch
<1>1. a \in Nat /\ NdBatch \in Nat /\ NdBatch > 0
  BY DescriptionsAssumption
<1>2. n \in Nat
  <2> HIDE DEF a
  <2> QED BY <1>1
<1>3. DOMAIN ChunksOf(keys) = 1..n
  BY DEF ChunksOf
<1> HIDE DEF n
<1> QED BY <1>2, <1>3

LEMMA NdInvInit == NdInit => NdInv
<1> SUFFICES ASSUME NdInit PROVE NdInv
  OBVIOUS
<1>1. ndChart \in NdCharts /\ ndRepairing = <<"planets", 1>> /\ "planets" \in NdSections
  BY DEF NdInit, NdSections
<1>2. ASSUME NEW section \in NdSections
      PROVE  /\ CallsFor(ndChart, section) \in Seq(Elems(CallsFor(ndChart, section)))
             /\ \A c \in Elems(CallsFor(ndChart, section)) : "reply" \in DOMAIN c /\ c.reply = <<"none">>
  <2> DEFINE chunks == ChunksOf(ndChart[section])
             calls == CallsFor(ndChart, section)
  <2>1. PICK n \in Nat : DOMAIN chunks = 1..n
    BY <1>1, ChunksFine, DescriptionsAssumption DEF NdSections
  <2>2. calls = [i \in 1..n |-> [section |-> section, keys |-> chunks[i], tries |-> 0, reply |-> <<"none">>]]
    BY <2>1 DEF CallsFor
  <2> HIDE DEF chunks, calls
  <2>3. calls = [i \in 1..n |-> calls[i]] /\ \A i \in 1..n : "reply" \in DOMAIN calls[i] /\ calls[i].reply = <<"none">>
    BY <2>2
  <2>4. calls \in Seq(Elems(calls))
    BY <2>3, MappedIsSeq
  <2>5. DOMAIN calls = 1..n
    BY <2>2
  <2>6. \A c \in Elems(calls) : "reply" \in DOMAIN c /\ c.reply = <<"none">>
    BY <2>3, <2>5 DEF Elems
  <2> QED BY <2>4, <2>6 DEF calls
<1>3. IsBatches(ndCalls)
  <2> DEFINE a == CallsFor(ndChart, "planets")
             b == CallsFor(ndChart, "houses")
             c == CallsFor(ndChart, "aspects")
             S == Elems(a) \cup Elems(b) \cup Elems(c)
             ab == a \o b
             abc == ab \o c
  <2>1. ndCalls = abc
    BY DEF NdInit, CallsOf
  <2>2. a \in Seq(Elems(a)) /\ b \in Seq(Elems(b)) /\ c \in Seq(Elems(c))
        /\ \A d \in S : "reply" \in DOMAIN d /\ d.reply = <<"none">>
    BY <1>2 DEF NdSections
  <2> HIDE DEF a, b, c
  <2>3. a \in Seq(S) /\ b \in Seq(S) /\ c \in Seq(S)
    <3>1. Elems(a) \subseteq S /\ Elems(b) \subseteq S /\ Elems(c) \subseteq S
      OBVIOUS
    <3> HIDE DEF S
    <3> QED BY <2>2, <3>1, SeqOfMore
  <2> HIDE DEF S
  <2>4. ab \in Seq(S)
    BY <2>3, Joined
  <2> HIDE DEF ab
  <2>5. abc \in Seq(S)
    BY <2>3, <2>4, Joined
  <2> HIDE DEF abc
  <2>6. /\ Len(abc) \in Nat /\ DOMAIN abc = 1..Len(abc) /\ abc = [i \in 1..Len(abc) |-> abc[i]]
        /\ \A i \in 1..Len(abc) : abc[i] \in S
    BY <2>5
  <2>7. abc \in Seq(Elems(abc))
    BY <2>6, MappedIsSeq
  <2>8. \A i \in DOMAIN abc : "reply" \in DOMAIN abc[i] /\ abc[i].reply = <<"none">>
    BY <2>2, <2>6
  <2> QED BY <2>1, <2>6, <2>7, <2>8 DEF IsBatches, IsReply
<1>4. ASSUME NEW section \in NdSections PROVE ndFirst[section] = <<>> /\ ndEntries[section] = <<>>
  BY DEF NdInit
<1>5. <<>> \in GoodEntries("planets", {}) /\ \A section : <<>> \in GoodEntries(section, {})
  BY EmptyIsGood
<1>6. ASSUME NEW section \in NdSections PROVE ListsFit(section)
  <2>1. DOMAIN <<>> = {}
    OBVIOUS
  <2> QED BY <1>4, <1>5, <2>1 DEF ListsFit
<1>7. DOMAIN ndFirst = NdSections /\ DOMAIN ndEntries = NdSections
  BY DEF NdInit
<1>8. \E section \in NdSections : \E round \in 1..2 : ndRepairing = <<section, round>>
  BY <1>1
<1> QED BY <1>1, <1>3, <1>6, <1>7, <1>8 DEF NdInv

LEMMA BatchesChange ==
  ASSUME NEW calls, IsBatches(calls), NEW new, DOMAIN new = DOMAIN calls,
         new = [i \in DOMAIN calls |-> new[i]],
         \A i \in DOMAIN new : "reply" \in DOMAIN new[i] /\ IsReply(new[i].reply)
  PROVE  IsBatches(new)
<1>1. Len(calls) \in Nat /\ DOMAIN calls = 1..Len(calls)
  BY DEF IsBatches
<1>2. new = [i \in 1..Len(calls) |-> new[i]]
  BY <1>1
<1>3. new \in Seq(Elems(new))
  BY <1>1, <1>2, MappedIsSeq
<1>4. Len(new) \in Nat /\ DOMAIN new = 1..Len(new)
  <2> DEFINE E == Elems(new)
  <2>1. new \in Seq(E)
    BY <1>3
  <2> HIDE DEF E
  <2> QED BY <2>1
<1> QED BY <1>3, <1>4 DEF IsBatches

(* A reply's entries. *)
LEMMA EntriesFine ==
  ASSUME NEW keys, NEW es \in Entries(keys)
  PROVE  IsReply(<<"texts", es>>)
<1>1. PICK n \in 1..NdBatch : es \in SomeEntries(keys, n)
  BY DEF Entries
<1>2. PICK ks \in [1..n -> keys], rs \in [1..n -> NdReplies] :
        es = [j \in 1..n |-> [key |-> ks[j], short |-> rs[j].short, full |-> rs[j].full]]
  BY <1>1 DEF SomeEntries
<1> DEFINE E == EntryOf(keys)
<1>3. ASSUME NEW j \in 1..n PROVE es[j] \in E
  <2>1. ks[j] \in keys /\ rs[j] \in NdReplies
    OBVIOUS
  <2>2. rs[j].short \in BOOLEAN /\ rs[j].full \in FullTexts
    BY <2>1, DescriptionsAssumption DEF FullTexts
  <2> QED BY <1>2, <2>1, <2>2 DEF EntryOf
<1>4. n \in Nat
  BY DescriptionsAssumption
<1>5. es = [j \in 1..n |-> es[j]]
  BY <1>2
<1> HIDE DEF E
<1>6. es \in Seq(E)
  BY <1>3, <1>4, <1>5
<1> QED BY <1>6 DEF IsReply, E

(* A bad text's entry has a new text; the keys stay. *)
LEMMA RepairFine ==
  ASSUME NdInv, Repair
  PROVE  NdInv'
<1>1. PICK section \in NdSections : \E round \in 1..2 : ndRepairing = <<section, round>>
  BY DEF NdInv, Repair
<1> DEFINE es == ndEntries[section]
<1>2. PICK reply \in [RepairKeys(section) -> NdReplies] :
        ndEntries' = [ndEntries EXCEPT ![section] = Repaired(es, reply)]
  <2>1. ndRepairing[1] = section
    BY <1>1
  <2> QED BY <2>1 DEF Repair
<1>3. UNCHANGED <<ndChart, ndCalls, ndFirst>> /\ ndRepairing' = NextRepair(section, ndRepairing[2])
  BY <1>1 DEF Repair
<1>4. PICK K : es \in GoodEntries(section, K)
  BY <1>1 DEF NdInv, ListsFit
<1> DEFINE E == EntryOf(K)
           new == ndEntries'[section]
<1>5. /\ es \in Seq(E) /\ OneEach(es) /\ \A i \in DOMAIN es : Kept(section, es[i])
      /\ DOMAIN es = 1..Len(es) /\ Len(es) \in Nat /\ \A i \in DOMAIN es : es[i] \in E
  <2>1. es \in Seq(E) /\ OneEach(es) /\ \A i \in DOMAIN es : Kept(section, es[i])
    BY <1>4 DEF GoodEntries
  <2> HIDE DEF E, es
  <2> QED BY <2>1
<1>6. new = [i \in DOMAIN es |->
             IF es[i].key \in DOMAIN reply
                /\ (reply[es[i].key].short \/ reply[es[i].key].full.words > 0)
             THEN [key |-> es[i].key, short |-> reply[es[i].key].short, full |-> reply[es[i].key].full]
             ELSE es[i]]
  <2>1. new = Repaired(es, reply)
    BY <1>1, <1>2 DEF NdInv
  <2> QED BY <2>1 DEF Repaired
<1>7. DOMAIN ndEntries' = NdSections /\ \A s \in NdSections : s # section => ndEntries'[s] = ndEntries[s]
  BY <1>1, <1>2 DEF NdInv
<1>8. ASSUME NEW i \in DOMAIN es
      PROVE  /\ new[i].key = es[i].key /\ new[i] \in E /\ Kept(section, new[i])
             /\ es[i].key \notin RepairKeys(section) => new[i] = es[i]
  <2>1. CASE es[i].key \in DOMAIN reply /\ (reply[es[i].key].short \/ reply[es[i].key].full.words > 0)
    <3> DEFINE r == reply[es[i].key]
    <3>1. r \in NdReplies
      BY <2>1
    <3>2. new[i] = [key |-> es[i].key, short |-> r.short, full |-> r.full]
      BY <1>6, <2>1
    <3>3. r.short \in BOOLEAN /\ r.full \in FullTexts /\ (r.short \/ r.full.words > 0)
      BY <2>1, <3>1, DescriptionsAssumption DEF FullTexts
    <3>4. es[i].key \in K
      BY <1>5 DEF EntryOf
    <3>5. Kept(section, es[i])
      BY <1>5
    <3> HIDE DEF r, es, new
    <3>6. Kept(section, new[i])
      BY <3>2, <3>3, <3>5 DEF Kept
    <3>7. new[i] \in E
      BY <3>2, <3>3, <3>4 DEF EntryOf
    <3> QED BY <2>1, <3>2, <3>6, <3>7
  <2>2. CASE ~(es[i].key \in DOMAIN reply /\ (reply[es[i].key].short \/ reply[es[i].key].full.words > 0))
    <3>1. new[i] = es[i]
      BY <1>6, <2>2
    <3> HIDE DEF es, new
    <3> QED BY <1>5, <3>1
  <2> QED BY <2>1, <2>2
<1>9. new = [i \in 1..Len(es) |-> new[i]]
  BY <1>5, <1>6
<1>10. DOMAIN new = DOMAIN es
  BY <1>6
<1> HIDE DEF es, new
<1>11. new \in Seq(E)
  <2> HIDE DEF E
  <2> QED BY <1>5, <1>8, <1>9
<1>12. OneEach(new)
  BY <1>5, <1>8, <1>10 DEF OneEach
<1>13. new \in GoodEntries(section, K)
  BY <1>8, <1>10, <1>11, <1>12 DEF GoodEntries
<1>14. \A s, L : GoodEntries(s, L)' = GoodEntries(s, L)
  BY <1>3 DEF GoodEntries, Kept
<1>15. ListsFit(section)'
  <2> DEFINE first == ndFirst[section]
  <2>1. /\ DOMAIN first = DOMAIN es
        /\ \A i \in DOMAIN first : ~NeedsRepair(first[i], section) => es[i] = first[i]
    BY <1>1 DEF NdInv, ListsFit, es
  <2>2. ASSUME NEW i \in DOMAIN first, ~NeedsRepair(first[i], section) PROVE new[i] = first[i]
    <3>1. i \in DOMAIN es /\ es[i] = first[i]
      BY <2>1, <2>2
    <3>2. es[i].key \notin RepairKeys(section)
      <4>1. ASSUME es[i].key \in RepairKeys(section) PROVE FALSE
        <5>1. PICK x \in Range(es) : NeedsRepair(x, section) /\ x.key = es[i].key
          BY <4>1 DEF RepairKeys, es
        <5>2. PICK j \in DOMAIN es : x = es[j]
          BY DEF Range
        <5>3. j = i
          BY <1>5, <3>1, <5>1, <5>2 DEF OneEach
        <5> QED BY <2>2, <3>1, <5>1, <5>2, <5>3
      <4> QED BY <4>1
    <3> QED BY <1>8, <3>1, <3>2
  <2>3. first = ndFirst'[section] /\ new = ndEntries'[section]
    BY <1>3 DEF new
  <2> HIDE DEF first
  <2>4. ndEntries'[section] \in GoodEntries(section, K)'
    BY <1>13, <1>14, <2>3
  <2>5. DOMAIN ndFirst'[section] = DOMAIN ndEntries'[section]
    BY <1>10, <2>1, <2>3
  <2>6. \A i \in DOMAIN ndFirst'[section] :
          ~NeedsRepair(ndFirst'[section][i], section) => ndEntries'[section][i] = ndFirst'[section][i]
    BY <2>2, <2>3
  <2> QED BY <2>4, <2>5, <2>6 DEF ListsFit
<1>16. ASSUME NEW s \in NdSections PROVE ListsFit(s)'
  <2>1. CASE s = section
    BY <1>15, <2>1
  <2>2. CASE s # section
    <3>1. ListsFit(s) /\ ndEntries'[s] = ndEntries[s] /\ ndFirst'[s] = ndFirst[s]
      BY <1>3, <1>7, <2>2 DEF NdInv
    <3>2. \A L : GoodEntries(s, L)' = GoodEntries(s, L)
      BY <1>14
    <3> QED BY <3>1, <3>2 DEF ListsFit
  <2> QED BY <2>1, <2>2
<1>17. ndRepairing' = <<>> \/ \E s \in NdSections : \E round \in 1..2 : ndRepairing' = <<s, round>>
  <2>1. /\ "houses" \in NdSections /\ "aspects" \in NdSections
        /\ section \in {"planets", "houses", "aspects"}
    BY <1>1 DEF NdSections
  <2>2. \/ ndRepairing' = <<>> \/ ndRepairing' = <<section, 2>>
        \/ ndRepairing' = <<"houses", 1>> \/ ndRepairing' = <<"aspects", 1>>
    BY <1>3, <2>1 DEF NextRepair
  <2>3. 1 \in 1..2 /\ 2 \in 1..2
    OBVIOUS
  <2> QED BY <1>1, <2>1, <2>2, <2>3
<1>18. ndChart' \in NdCharts /\ IsBatches(ndCalls') /\ DOMAIN ndFirst' = NdSections
  BY <1>3 DEF NdInv
<1> QED BY <1>7, <1>16, <1>17, <1>18 DEF NdInv

LEMMA NdInvNext == NdInv /\ [NdNext]_ndVars => NdInv'
<1> SUFFICES ASSUME NdInv, [NdNext]_ndVars PROVE NdInv'
  OBVIOUS
<1>1. ASSUME UNCHANGED <<ndChart, ndFirst, ndEntries, ndRepairing>>, IsBatches(ndCalls') PROVE NdInv'
  <2>1. \A s, L : GoodEntries(s, L)' = GoodEntries(s, L)
    BY <1>1 DEF GoodEntries, Kept
  <2>2. ASSUME NEW s \in NdSections PROVE ListsFit(s)'
    <3>1. ListsFit(s)
      BY DEF NdInv
    <3>2. ndEntries'[s] = ndEntries[s] /\ ndFirst'[s] = ndFirst[s]
      BY <1>1
    <3>3. \A L : GoodEntries(s, L)' = GoodEntries(s, L)
      BY <2>1
    <3> QED BY <3>1, <3>2, <3>3 DEF ListsFit
  <2> QED BY <1>1, <2>2 DEF NdInv
<1>2. IsBatches(ndCalls)
  BY DEF NdInv
<1>3. ASSUME NEW i \in DOMAIN ndCalls, RateLimited(i) PROVE NdInv'
  <2>1. /\ DOMAIN ndCalls' = DOMAIN ndCalls /\ ndCalls' = [j \in DOMAIN ndCalls |-> ndCalls'[j]]
        /\ \A j \in DOMAIN ndCalls : ndCalls'[j] = ndCalls[j]
             \/ ndCalls'[j] = [ndCalls[j] EXCEPT !.tries = ndCalls[j].tries + 1]
    BY <1>3 DEF RateLimited
  <2>2. \A j \in DOMAIN ndCalls' : "reply" \in DOMAIN ndCalls'[j] /\ IsReply(ndCalls'[j].reply)
    BY <1>2, <2>1 DEF IsBatches
  <2>3. IsBatches(ndCalls')
    BY <1>2, <2>1, <2>2, BatchesChange
  <2> QED BY <1>1, <1>3, <2>3 DEF RateLimited
<1>4. ASSUME NEW i \in DOMAIN ndCalls, NEW reply, IsReply(reply),
             ndCalls' = [ndCalls EXCEPT ![i].reply = reply]
      PROVE  IsBatches(ndCalls')
  <2>1. /\ DOMAIN ndCalls' = DOMAIN ndCalls /\ ndCalls' = [j \in DOMAIN ndCalls |-> ndCalls'[j]]
        /\ \A j \in DOMAIN ndCalls : ndCalls'[j] = ndCalls[j]
             \/ ndCalls'[j] = [ndCalls[j] EXCEPT !.reply = reply]
    BY <1>4
  <2>2. \A j \in DOMAIN ndCalls' : "reply" \in DOMAIN ndCalls'[j] /\ IsReply(ndCalls'[j].reply)
    BY <1>2, <1>4, <2>1 DEF IsBatches
  <2> QED BY <1>2, <2>1, <2>2, BatchesChange
<1>5. ASSUME NEW i \in DOMAIN ndCalls, CallFailed(i) PROVE NdInv'
  <2>1. IsReply(<<"texts", <<>>>>)
    <3> DEFINE E == EntryOf({})
    <3>1. <<>> \in Seq(E)
      OBVIOUS
    <3> HIDE DEF E
    <3> QED BY <3>1 DEF IsReply, E
  <2>2. IsBatches(ndCalls')
    BY <1>4, <1>5, <2>1 DEF CallFailed
  <2> QED BY <1>1, <1>5, <2>2 DEF CallFailed
<1>6. ASSUME NEW i \in DOMAIN ndCalls, Replied(i) PROVE NdInv'
  <2>1. PICK es \in Entries(Range(ndCalls[i].keys) \cup ndChart.stray) :
          ndCalls' = [ndCalls EXCEPT ![i].reply = <<"texts", es>>]
    BY <1>6 DEF Replied
  <2>2. IsReply(<<"texts", es>>)
    BY EntriesFine
  <2>3. IsBatches(ndCalls')
    BY <1>4, <2>1, <2>2
  <2> QED BY <1>1, <1>6, <2>3 DEF Replied
<1>7. ASSUME Gather PROVE NdInv'
  <2>1. /\ \A i \in DOMAIN ndCalls : ~Waiting(i)
        /\ ndFirst' = [s \in NdSections |-> Collected(s)] /\ ndEntries' = ndFirst' /\ ndCalls' = <<>>
        /\ UNCHANGED <<ndChart, ndRepairing>>
    BY <1>7 DEF Gather
  <2>2. \A s, L : GoodEntries(s, L)' = GoodEntries(s, L)
    BY <2>1 DEF GoodEntries, Kept
  <2>3. ASSUME NEW s \in NdSections PROVE ListsFit(s)'
    <3>1. PICK K : Collected(s) \in GoodEntries(s, K)
      BY <1>2, <2>1, CollectedFine
    <3>2. ndFirst'[s] = Collected(s) /\ ndEntries'[s] = Collected(s)
      BY <2>1
    <3>3. ndEntries'[s] \in GoodEntries(s, K)'
      BY <2>2, <3>1, <3>2
    <3> QED BY <3>2, <3>3 DEF ListsFit
  <2>4. IsBatches(ndCalls')
    <3>1. DOMAIN <<>> = {} /\ Len(<<>>) = 0 /\ \A S : <<>> \in Seq(S)
      OBVIOUS
    <3>2. 1..0 = {}
      OBVIOUS
    <3> QED BY <2>1, <3>1, <3>2 DEF IsBatches
  <2>5. DOMAIN ndFirst' = NdSections /\ DOMAIN ndEntries' = NdSections
    BY <2>1
  <2> QED BY <2>1, <2>3, <2>4, <2>5 DEF NdInv
<1>8. CASE UNCHANGED ndVars
  BY <1>1, <1>2, <1>8 DEF ndVars
<1> QED BY <1>3, <1>5, <1>6, <1>7, <1>8, RepairFine DEF NdNext

-----------------------------------------------------------------------------
(* What the report shows of the aspects: an entry after the other is marked with
   the texts before it in hand. *)

OutOf(K) == [key : K, full : FullTexts \cup {PlainText(k) : k \in K}, hide : BOOLEAN]
MarkedUpto(out, es, i) ==
  /\ \E K : out \in Seq(OutOf(K))
  /\ Len(out) = i
  /\ \A j \in 1..i : \E seen : /\ out[j] = Marked(es[j], seen)
                              /\ Range(seen) = {out[k].full.says : k \in 1..(j - 1)}

Plain(e) == Unfit(e) /\ e.full.words = 0 /\ e.key \in NdImportant

LEMMA MarkedFacts ==
  ASSUME NEW K, NEW e \in EntryOf(K), NEW seen
  PROVE  LET m == Marked(e, seen)
         IN /\ m \in OutOf(K) /\ m.key = e.key
            /\ m.full = IF Plain(e) THEN PlainText(e.key) ELSE e.full
            /\ ~m.hide => m.full.words > 0 /\ FitOrPlain(m, e) /\ m.full.says \notin Range(seen)
            /\ m.hide => (Unfit(e) /\ ~Plain(e)) \/ (m.full.words > 0 /\ m.full.says \in Range(seen))
<1> DEFINE full == IF Plain(e) THEN PlainText(e.key) ELSE e.full
           hide == (Unfit(e) /\ ~Plain(e)) \/ (full.words > 0 /\ full.says \in Range(seen))
           m == Marked(e, seen)
<1>1. PICK hidden \in BOOLEAN : hidden = hide
  OBVIOUS
<1>2. m = [key |-> e.key, full |-> full, hide |-> hidden]
  <2>1. m = [key |-> e.key, full |-> full, hide |-> hide]
    BY DEF Marked, Plain
  <2> HIDE DEF full, hide, m
  <2> QED BY <1>1, <2>1
<1>3. e.key \in K /\ e.full \in FullTexts /\ e.full.words \in Nat
  BY DescriptionsAssumption DEF EntryOf, FullTexts
<1>4. full \in FullTexts \cup {PlainText(k) : k \in K}
  BY <1>3
<1>5. ASSUME ~hide
      PROVE  /\ full.words > 0 /\ full.says \notin Range(seen)
             /\ \/ Issues(full, "aspects") \cap HideCodes = {}
                \/ /\ e.key \in NdImportant /\ e.full.words = 0
                   /\ full = PlainText(e.key) /\ Issues(full, "aspects") = {"TOO_SHORT_THIN"}
  <2>1. CASE Plain(e)
    <3>1. /\ full = [says |-> <<"plain", e.key>>, words |-> NdPlainWords(e.key), faults |-> {}]
          /\ full = PlainText(e.key) /\ e.key \in NdImportant /\ e.full.words = 0
      BY <2>1 DEF PlainText, Plain
    <3>2. full.words \in 99..109 /\ full.faults = {}
      BY <3>1, DescriptionsAssumption
    <3> HIDE DEF full
    <3>3. ThinFloor("aspects") = 112
      BY DEF ThinFloor
    <3>4. Issues(full, "aspects") = {"TOO_SHORT_THIN"}
      BY <3>2, <3>3 DEF Issues
    <3>5. full.words > 0
      BY <3>2
    <3> QED BY <1>5, <3>1, <3>4, <3>5
  <2>2. CASE ~Plain(e)
    <3>1. full = e.full
      BY <2>2
    <3>2. ~Unfit(e)
      BY <1>5, <2>2
    <3>3. Issues(full, "aspects") \cap HideCodes = {}
      BY <3>1, <3>2 DEF Unfit
    <3>4. full.words # 0
      BY <3>3 DEF Issues, HideCodes, Fatal
    <3>5. full.words > 0
      BY <1>3, <3>1, <3>4
    <3> QED BY <1>5, <3>3, <3>5
  <2> QED BY <2>1, <2>2
<1> HIDE DEF full
<1>6. ASSUME ~m.hide PROVE m.full.words > 0 /\ FitOrPlain(m, e) /\ m.full.says \notin Range(seen)
  <2>1. ~hide /\ m.full = full
    <3> HIDE DEF hide, m
    <3>1. m.hide = hidden
      BY <1>2
    <3> QED BY <1>2, <1>6, <1>1, <3>1
  <2> HIDE DEF m
  <2> QED BY <1>5, <2>1 DEF Unfit, FitOrPlain
<1>7. ASSUME m.hide PROVE (Unfit(e) /\ ~Plain(e)) \/ (m.full.words > 0 /\ m.full.says \in Range(seen))
  <2>1. hide /\ m.full = full
    <3> HIDE DEF hide, m
    <3>1. m.hide = hidden
      BY <1>2
    <3> QED BY <1>2, <1>7, <1>1, <3>1
  <2> HIDE DEF m
  <2> QED BY <2>1
<1>8. m \in OutOf(K)
  <2> HIDE DEF hide, m
  <2> QED BY <1>2, <1>3, <1>4 DEF OutOf
<1>9. m.key = e.key /\ m.full = full
  <2> HIDE DEF hide, m
  <2> QED BY <1>2
<1> QED BY <1>6, <1>7, <1>8, <1>9 DEF full

LEMMA MarkedStep ==
  ASSUME NEW K, NEW es \in Seq(EntryOf(K)), NEW i \in 1..Len(es),
         NEW out \in Seq(OutOf(K)), MarkedUpto(out, es, i - 1)
  PROVE  LET new == Append(out, Marked(es[i], Says(out)))
         IN new \in Seq(OutOf(K)) /\ MarkedUpto(new, es, i)
<1> DEFINE O == OutOf(K)
           m == Marked(es[i], Says(out))
           new == Append(out, m)
<1>1. es[i] \in EntryOf(K) /\ i \in Nat /\ i - 1 \in Nat /\ i = i - 1 + 1
  OBVIOUS
<1>2. m \in O
  BY <1>1, MarkedFacts
<1>3. out \in Seq(O) /\ Len(out) = i - 1
  BY DEF MarkedUpto
<1>4. Range(Says(out)) = {out[k].full.says : k \in 1..(i - 1)}
  <2>1. DOMAIN out = 1..(i - 1)
    <3> HIDE DEF O
    <3> QED BY <1>3
  <2> QED BY <2>1 DEF Says, Range
<1> HIDE DEF O, m
<1>5. /\ new \in Seq(O) /\ Len(new) = i
      /\ \A k \in 1..(i - 1) : new[k] = out[k]
      /\ new[i] = m
  BY <1>1, <1>2, <1>3
<1> HIDE DEF new
<1>6. ASSUME NEW j \in 1..i
      PROVE  \E seen : new[j] = Marked(es[j], seen) /\ Range(seen) = {new[k].full.says : k \in 1..(j - 1)}
  <2>1. j \in Nat
    OBVIOUS
  <2>2. {new[k].full.says : k \in 1..(j - 1)} = {out[k].full.says : k \in 1..(j - 1)}
    <3>1. \A k \in 1..(j - 1) : k \in 1..(i - 1)
      BY <1>1
    <3> QED BY <1>5, <3>1
  <2>3. CASE j = i
    <3>1. new[j] = Marked(es[j], Says(out))
      BY <1>5, <2>3 DEF m
    <3> QED BY <1>4, <2>2, <2>3, <3>1
  <2>4. CASE j # i
    <3>1. j \in 1..(i - 1)
      BY <1>1, <2>4
    <3>2. PICK seen : out[j] = Marked(es[j], seen) /\ Range(seen) = {out[k].full.says : k \in 1..(j - 1)}
      BY <3>1 DEF MarkedUpto
    <3>3. new[j] = out[j]
      BY <1>5, <3>1
    <3> QED BY <2>2, <3>2, <3>3
  <2> QED BY <2>3, <2>4
<1>7. MarkedUpto(new, es, i)
  BY <1>5, <1>6 DEF MarkedUpto, O
<1> QED BY <1>5, <1>7 DEF O, m, new

LEMMA AllAreMarked ==
  ASSUME NEW K, NEW es \in Seq(EntryOf(K))
  PROVE  MarkedUpto(MarkedAll(es), es, Len(es))
<1> DEFINE n == Len(es)
           S == Seq(OutOf(K))
           Step(x, i) == Append(x, Marked(es[i], Says(x)))
           step == [x \in S \X (1..n) |-> Step(x[1], x[2])]
           Folds(h) == h = [i \in 0..n |->
                              IF i = 0 THEN <<>> ELSE Append(h[i - 1], Marked(es[i], Says(h[i - 1])))]
           f == CHOOSE h : Folds(h)
<1>1. n \in Nat /\ \A i \in 1..n : es[i] \in EntryOf(K)
  OBVIOUS
<1>2. ASSUME NEW x \in S, NEW i \in 1..n PROVE Step(x, i) \in S
  <2> DEFINE O == OutOf(K)
             m == Marked(es[i], Says(x))
  <2>1. x \in Seq(O)
    OBVIOUS
  <2>2. m \in O
    BY <1>1, MarkedFacts
  <2> HIDE DEF O, m
  <2>3. Append(x, m) \in Seq(O)
    BY <2>1, <2>2
  <2> QED BY <2>3 DEF O, m
<1>3. <<>> \in S
  <2> DEFINE O == OutOf(K)
  <2> HIDE DEF O
  <2>1. <<>> \in Seq(O)
    OBVIOUS
  <2> QED BY <2>1 DEF O
<1>4. MarkedUpto(<<>>, es, 0)
  <2>1. Len(<<>>) = 0 /\ 1..0 = {}
    OBVIOUS
  <2> QED BY <1>3, <2>1 DEF MarkedUpto
<1>5. ASSUME NEW x \in S, NEW i \in 1..n, MarkedUpto(x, es, i - 1) PROVE MarkedUpto(Step(x, i), es, i)
  BY <1>5, MarkedStep
<1> HIDE DEF S, n
<1>6. step \in [S \X (1..n) -> S]
  <2> HIDE DEF Step
  <2> QED BY <1>2
<1>7. PICK g : IsFold(g, step, n, S, <<>>)
  <2> HIDE DEF step
  <2>1. IsStep(step, n, S)
    BY <1>6 DEF IsStep
  <2> QED BY <1>1, <1>3, <2>1, FoldExists
<1>8. ASSUME NEW i \in 1..n PROVE g[i] = Step(g[i - 1], i)
  <2>1. i - 1 \in 0..n /\ g[i - 1] \in S
    BY <1>1, <1>7 DEF IsFold
  <2> HIDE DEF Step
  <2> QED BY <1>7, <2>1 DEF IsFold
<1>9. Folds(g)
  <2>1. \A i \in 0..n : i = 0 \/ i \in 1..n
    BY <1>1
  <2>2. g = [i \in 0..n |-> g[i]]
    BY <1>7 DEF IsFold
  <2>3. \A i \in 0..n : g[i] = IF i = 0 THEN <<>> ELSE Append(g[i - 1], Marked(es[i], Says(g[i - 1])))
    BY <1>7, <1>8, <2>1 DEF IsFold
  <2> QED BY <2>2, <2>3, Zenon
<1>10. Folds(f)
  <2> HIDE DEF Folds
  <2> QED BY <1>9
<1>11. MarkedAll(es) = f[n]
  BY DEF MarkedAll, n
<1> HIDE DEF f
<1>12. f[0] = <<>>
  BY <1>1, <1>10
<1>13. ASSUME NEW i \in 1..n PROVE f[i] = Step(f[i - 1], i)
  <2>1. i \in 0..n /\ i # 0
    BY <1>1
  <2> QED BY <1>10, <2>1
<1> DEFINE T == {i \in 0..n : f[i] \in S /\ MarkedUpto(f[i], es, i)}
<1> HIDE DEF Step
<1>14. n \in T
  <2>1. 0 \in T
    BY <1>1, <1>3, <1>4, <1>12
  <2>2. \A i \in 1..n : i - 1 \in T => i \in T
    BY <1>1, <1>2, <1>5, <1>13
  <2> HIDE DEF T
  <2>3. \A i \in 0..n : i \in T
    BY <1>1, <2>1, <2>2, StepByStep
  <2> QED BY <1>1, <2>3
<1> QED BY <1>11, <1>14 DEF n

LEMMA MarkedSound ==
  ASSUME NEW K, NEW es \in GoodEntries("aspects", K), NEW out, MarkedUpto(out, es, Len(es))
  PROVE  LET shown == {i \in DOMAIN out : ~out[i].hide}
         IN /\ \A i \in shown :
                 out[i].key \in Range(ndChart.aspects) /\ out[i].full.words > 0 /\ FitOrPlain(out[i], es[i])
            /\ \A i, j \in shown : out[i].full.says = out[j].full.says => i = j
            /\ \A i \in (DOMAIN out) \ shown :
                 out[i].key \in NdImportant =>
                   \/ es[i].full.words > 0 /\ Unfit(es[i])
                   \/ \E j \in shown : out[j].full.says = out[i].full.says
<1> DEFINE shown == {i \in DOMAIN out : ~out[i].hide}
           n == Len(es)
<1>1. /\ es \in Seq(EntryOf(K)) /\ n \in Nat /\ DOMAIN es = 1..n /\ \A i \in 1..n : es[i] \in EntryOf(K)
      /\ OneEach(es) /\ \A i \in 1..n : Kept("aspects", es[i])
  <2> DEFINE E == EntryOf(K)
  <2>1. es \in Seq(E) /\ OneEach(es) /\ \A i \in DOMAIN es : Kept("aspects", es[i])
    BY DEF GoodEntries
  <2> HIDE DEF E
  <2>2. n \in Nat /\ DOMAIN es = 1..n /\ \A i \in 1..n : es[i] \in E
    BY <2>1
  <2> QED BY <2>1, <2>2 DEF E
<1>2. DOMAIN out = 1..n
  <2>1. PICK L : out \in Seq(OutOf(L)) /\ Len(out) = n
    BY DEF MarkedUpto
  <2> DEFINE O == OutOf(L)
  <2>2. out \in Seq(O)
    BY <2>1
  <2> HIDE DEF O, n
  <2> QED BY <2>1, <2>2
<1>3. ASSUME NEW i \in 1..n
      PROVE  /\ out[i].key = es[i].key
             /\ out[i].full = IF Plain(es[i]) THEN PlainText(es[i].key) ELSE es[i].full
             /\ ~out[i].hide => /\ out[i].full.words > 0 /\ FitOrPlain(out[i], es[i])
                                /\ \A j \in 1..(i - 1) : out[j].full.says # out[i].full.says
             /\ out[i].hide =>
                  \/ Unfit(es[i]) /\ ~Plain(es[i])
                  \/ out[i].full.words > 0 /\ \E j \in 1..(i - 1) : out[j].full.says = out[i].full.says
  <2>1. PICK seen : out[i] = Marked(es[i], seen) /\ Range(seen) = {out[k].full.says : k \in 1..(i - 1)}
    BY DEF MarkedUpto
  <2>2. es[i] \in EntryOf(K)
    BY <1>1
  <2> DEFINE m == Marked(es[i], seen)
  <2>3. /\ m.key = es[i].key
        /\ m.full = IF Plain(es[i]) THEN PlainText(es[i].key) ELSE es[i].full
        /\ ~m.hide => m.full.words > 0 /\ FitOrPlain(m, es[i]) /\ m.full.says \notin Range(seen)
        /\ m.hide => (Unfit(es[i]) /\ ~Plain(es[i])) \/ (m.full.words > 0 /\ m.full.says \in Range(seen))
    BY <2>2, MarkedFacts
  <2>4. out[i] = m
    BY <2>1
  <2> HIDE DEF m
  <2> QED BY <2>1, <2>3, <2>4
<1>4. ASSUME NEW i \in shown
      PROVE  out[i].key \in Range(ndChart.aspects) /\ out[i].full.words > 0 /\ FitOrPlain(out[i], es[i])
  <2>1. i \in 1..n /\ ~out[i].hide
    BY <1>2
  <2>2. es[i].key \in Range(ndChart.aspects)
    BY <1>1, <2>1 DEF Kept
  <2> QED BY <1>3, <2>1, <2>2
<1>5. ASSUME NEW i \in shown, NEW j \in shown, out[i].full.says = out[j].full.says PROVE i = j
  <2>1. i \in 1..n /\ j \in 1..n /\ ~out[i].hide /\ ~out[j].hide
    BY <1>2
  <2>2. ASSUME i < j PROVE FALSE
    <3>1. i \in 1..(j - 1)
      BY <2>1, <2>2
    <3> QED BY <1>3, <1>5, <2>1, <3>1
  <2>3. ASSUME j < i PROVE FALSE
    <3>1. j \in 1..(i - 1)
      BY <2>1, <2>3
    <3> QED BY <1>3, <1>5, <2>1, <3>1
  <2> QED BY <2>1, <2>2, <2>3
<1>6. ASSUME NEW i \in (DOMAIN out) \ shown, out[i].key \in NdImportant
      PROVE  \/ es[i].full.words > 0 /\ Unfit(es[i])
             \/ \E j \in shown : out[j].full.says = out[i].full.says
  <2>1. i \in 1..n /\ out[i].hide
    BY <1>2
  <2>2. es[i].full \in FullTexts /\ es[i].full.words \in Nat
    BY <1>1, <2>1, DescriptionsAssumption DEF EntryOf, FullTexts
  <2>3. CASE Unfit(es[i]) /\ ~Plain(es[i])
    <3>1. es[i].full.words # 0
      BY <1>3, <1>6, <2>1, <2>3 DEF Plain
    <3> QED BY <2>2, <2>3, <3>1
  <2>4. CASE out[i].full.words > 0 /\ \E j \in 1..(i - 1) : out[j].full.says = out[i].full.says
    <3> DEFINE T == {k \in 1..n : out[k].full.says = out[i].full.says}
    <3>1. T # {} /\ T \subseteq Nat
      BY <2>1
    <3>2. PICK j \in T : \A k \in T : j <= k
      BY <3>1, LeastNatural
    <3>3. j \in 1..n /\ out[j].full.says = out[i].full.says
      OBVIOUS
    <3>4. ASSUME NEW k \in 1..(j - 1), out[k].full.says = out[j].full.says PROVE FALSE
      <4>1. k \in 1..n /\ ~(j <= k)
        BY <1>1, <3>3
      <4>2. k \in T
        BY <3>3, <3>4, <4>1
      <4> QED BY <3>2, <4>1, <4>2
    <3>5. CASE ~out[j].hide
      BY <1>2, <3>3, <3>5
    <3>6. CASE out[j].hide
      <4>1. Unfit(es[j]) /\ ~Plain(es[j]) /\ out[j].full = es[j].full
        BY <1>3, <3>3, <3>4, <3>6
      <4>2. es[j].full \in FullTexts
        BY <1>1, <3>3 DEF EntryOf
      <4>3. es[j].full.says[1] # "plain"
        BY <4>2, DescriptionsAssumption DEF FullTexts
      <4>4. ~Plain(es[i])
        <5>1. ASSUME Plain(es[i]) PROVE FALSE
          <6>1. out[i].full = PlainText(es[i].key)
            BY <1>3, <2>1, <5>1
          <6>2. out[i].full.says[1] = "plain"
            BY <6>1 DEF PlainText
          <6> QED BY <3>3, <4>1, <4>3, <6>2
        <5> QED BY <5>1
      <4>5. out[i].full = es[i].full
        BY <1>3, <2>1, <4>4
      <4>6. es[i].full = es[j].full
        BY <2>2, <3>3, <4>1, <4>2, <4>5, DescriptionsAssumption DEF FullTexts
      <4>7. Unfit(es[i])
        BY <4>1, <4>6 DEF Unfit
      <4> QED BY <2>4, <4>5, <4>7
    <3> QED BY <3>5, <3>6
  <2> QED BY <1>3, <2>1, <2>3, <2>4
<1> QED BY <1>4, <1>5, <1>6

LEMMA NdInvSound == NdInv => DescriptionsSound
<1> SUFFICES ASSUME NdInv PROVE DescriptionsSound
  OBVIOUS
<1>1. ASSUME NEW s \in NdSections, NEW e \in Range(ndFirst[s]), ~NeedsRepair(e, s)
      PROVE  e \in Range(ndEntries[s])
  <2>1. PICK i \in DOMAIN ndFirst[s] : e = ndFirst[s][i]
    BY DEF Range
  <2>2. i \in DOMAIN ndEntries[s] /\ ndEntries[s][i] = e
    BY <1>1, <2>1 DEF NdInv, ListsFit
  <2> QED BY <2>2 DEF Range
<1> DEFINE es == ndEntries["aspects"]
           out == AspectsOut
           shown == {i \in DOMAIN out : ~out[i].hide}
<1>2. PICK K : es \in GoodEntries("aspects", K)
  BY DEF NdInv, ListsFit, NdSections
<1>3. MarkedUpto(out, es, Len(es))
  <2>1. es \in Seq(EntryOf(K))
    BY <1>2 DEF GoodEntries
  <2>2. MarkedUpto(MarkedAll(es), es, Len(es))
    <3> HIDE DEF es
    <3> QED BY <2>1, AllAreMarked
  <2> QED BY <2>2 DEF AspectsOut
<1>4. /\ \A i \in shown :
           out[i].key \in Range(ndChart.aspects) /\ out[i].full.words > 0 /\ FitOrPlain(out[i], es[i])
      /\ \A i, j \in shown : out[i].full.says = out[j].full.says => i = j
      /\ \A i \in (DOMAIN out) \ shown :
           out[i].key \in NdImportant =>
             \/ es[i].full.words > 0 /\ Unfit(es[i])
             \/ \E j \in shown : out[j].full.says = out[i].full.says
  <2> HIDE DEF es, out
  <2> QED BY <1>2, <1>3, MarkedSound
<1> QED BY <1>1, <1>4 DEF DescriptionsSound

(* Whatever the batches bring, and whatever becomes of the repairs. *)
THEOREM DescriptionsAreSound == NdSpec => []DescriptionsSound
<1> QED BY NdInvInit, NdInvNext, NdInvSound, PTL DEF NdSpec

(* What a chart's report and the descriptions of its facts say. *)
THEOREM TextsSoundHolds == NrSpec /\ NdSpec => []TextsAreSound
<1>1. ReportIsSound /\ DescriptionsSound => TextsAreSound
  BY DEF TextsAreSound
<1> QED BY <1>1, ReportIsSoundHolds, DescriptionsAreSound, PTL
=============================================================================
