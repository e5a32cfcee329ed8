------------------------------ MODULE SkyEvents ------------------------------
(* What is read off the sky: the aspects of a birth chart and of two charts
   (services/astro/natal.py, synastry.py), those of a day and the walk over the
   days of a week or a month (transits.py), and the weights of the elements
   (dominants.py). The ephemeris is a constant, at the noons the walk samples and
   at the hours a day's page may be drawn at; angles are in thousandths of a degree. *)
EXTENDS Integers, Sequences, SequencesExt, FiniteSetsExt, FiniteSets

CONSTANTS
  SkBirths,    \* birth charts: planet -> degree, and the ascendant where it is known
  SkTracks,    \* noons: sequences of planet -> degree
  SkTops,      \* how many events a period shows: 0 is all
  SkHours(_, _), \* of a track and a day: the skies its page may be drawn at
  SkPlace(_)   \* where an event stands among those found, as the ephemeris lists them

Degree == 1000
Circle == 360 * Degree
Order == <<"sun", "moon", "mercury", "venus", "mars", "jupiter", "saturn", "uranus", "neptune", "pluto">>
Planetary == {Order[i] : i \in 1..10}
Degrees == 0..Circle - 1
ASSUME SkyAssumption ==
  /\ \A b \in SkBirths : "sun" \in DOMAIN b /\ b \in [DOMAIN b -> Degrees]
                          /\ DOMAIN b \subseteq Planetary \cup {"ascendant"}
  /\ \A track \in SkTracks :
       /\ Len(track) \in Nat \ {0} /\ DOMAIN track[1] \subseteq Planetary
       /\ \A d \in 1..Len(track) :
            track[d] \in [DOMAIN track[1] -> Degrees] /\ SkHours(track, d) \subseteq [DOMAIN track[1] -> Degrees]
  /\ SkTops \subseteq Nat

VARIABLES
  skBirth, skTrack, skTop,
  skDay,       \* the days walked so far
  skPeaks,     \* <<transiting, natal, aspect>> -> [day, orb]
  skIngresses, \* the changes of sign, [day, planet, from, to]
  skPrev       \* planet -> its last sign
skVars == <<skBirth, skTrack, skTop, skDay, skPeaks, skIngresses, skPrev>>

-----------------------------------------------------------------------------
Distance_NoWrap(left, right) == LET d == left - right IN IF d < 0 THEN -d ELSE d
Distance(left, right) ==
  LET d == IF left < right THEN right - left ELSE left - right
  IN IF d % Circle < Circle - (d % Circle) THEN d % Circle ELSE Circle - (d % Circle)
Sign(degree) == degree \div (30 * Degree)
Hundredths(x) == ((x + 5) \div 10) * 10

Majors == <<"conjunction", "sextile", "square", "trine", "opposition">>
Exact == [conjunction |-> 0, sextile |-> 60 * Degree, square |-> 90 * Degree, trine |-> 120 * Degree,
          opposition |-> 180 * Degree]
OrbOf(left, right, aspect) ==
  LET gap == Distance(left, right) - Exact[aspect] IN IF gap < 0 THEN -gap ELSE gap

(* The planets of a chart: the ascendant makes no aspects. *)
PlanetsOf(chart) == (DOMAIN chart) \ {"ascendant"}

(* The first of the five that is within the limit: 8 degrees with sun or moon,
   else 6. *)
OrbLimit(left, right) == IF {left, right} \cap {"sun", "moon"} # {} THEN 8 * Degree ELSE 6 * Degree
Fits(planets, p, q) == {k \in DOMAIN Majors : OrbOf(planets[p], planets[q], Majors[k]) <= OrbLimit(p, q)}
AspectsOf(planets) ==
  LET Of(p, q) ==
        LET first == Majors[Min(Fits(planets, p, q))]
        IN [p1 |-> p, p2 |-> q, aspect |-> first, orb |-> Hundredths(OrbOf(planets[p], planets[q], first))]
      pairs == {x \in (1..10) \X (1..10) :
                  /\ x[1] < x[2] /\ {Order[x[1]], Order[x[2]]} \subseteq DOMAIN planets
                  /\ Fits(planets, Order[x[1]], Order[x[2]]) # {}}
  IN {Of(Order[x[1]], Order[x[2]]) : x \in pairs}

(* Aspects between two charts. *)
PairAspectsOf(a, b) ==
  {t \in PlanetsOf(a) \X PlanetsOf(b) \X ToSet(Majors) :
     OrbOf(a[t[1]], b[t[2]], t[3]) <= OrbLimit(t[1], t[2])}

-----------------------------------------------------------------------------
(* A day, and the walk over the days *)

DayOrb  == [conjunction |-> 3000, opposition |-> 3000, square |-> 2500, trine |-> 2500, sextile |-> 2000]
ScanOrb == [conjunction |-> 2000, opposition |-> 2000, square |-> 1800, trine |-> 1800, sextile |-> 1500]
PeakOrb == 1500
PlanetWeight == [sun |-> 10, moon |-> 9, mercury |-> 6, venus |-> 7, mars |-> 8, jupiter |-> 5,
                 saturn |-> 7, uranus |-> 3, neptune |-> 2, pluto |-> 2]
AspectWeight == [conjunction |-> 10, opposition |-> 8, square |-> 7, trine |-> 6, sextile |-> 4]
Weight(t) == PlanetWeight[t[1]] + PlanetWeight[t[2]] + AspectWeight[t[3]]

SkyOrb(day, t) == OrbOf(skTrack[day][t[1]], skBirth[t[2]], t[3])
Triples == (DOMAIN skTrack[1]) \X PlanetsOf(skBirth) \X ToSet(Majors)
Within(day, orbs) == {t \in Triples : SkyOrb(day, t) <= orbs[t[3]]}

(* calculate_transits, at midnight or at once: the ten heaviest of that hour, the
   closest first among equals. *)
HourOrb(sky, t) == OrbOf(sky[t[1]], skBirth[t[2]], t[3])
FoundAt(sky) == {t \in Triples : HourOrb(sky, t) <= DayOrb[t[3]]}
DayShown(sky) ==
  LET found == FoundAt(sky)
      Ahead(t) == {u \in found : \/ Weight(u) > Weight(t)
                                 \/ Weight(u) = Weight(t) /\ Hundredths(HourOrb(sky, u)) < Hundredths(HourOrb(sky, t))}
  IN {t \in found : Cardinality(Ahead(t)) < 10}

SkInit ==
  /\ skBirth \in SkBirths /\ skTrack \in SkTracks /\ skTop \in SkTops
  /\ skDay = 0 /\ skPeaks = [t \in {} |-> 0] /\ skIngresses = {} /\ skPrev = [p \in {} |-> 0]

(* One day of calculate_period_events: a triple's peak moves to this day if it
   is closer than the peak as it was rounded; a planet whose sign is not that of
   the day before has changed it, the moon (include_moon_ingresses) left out. *)
Moved_Latest(day) == Within(day, ScanOrb)
Moved(day) ==
  {t \in Within(day, ScanOrb) : t \in DOMAIN skPeaks => skPeaks[t].orb > SkyOrb(day, t)}
Changed(day) ==
  {[day |-> day, planet |-> p, from |-> skPrev[p], to |-> Sign(skTrack[day][p])] :
     p \in {q \in DOMAIN skTrack[day] : /\ q # "moon"
                                       /\ q \in DOMAIN skPrev /\ skPrev[q] # Sign(skTrack[day][q])}}
WalkDay ==
  /\ skDay < Len(skTrack) /\ skDay' = skDay + 1
  /\ skPeaks' = [t \in DOMAIN skPeaks \cup Moved(skDay') |->
                   IF t \in Moved(skDay') THEN [day |-> skDay', orb |-> Hundredths(SkyOrb(skDay', t))] ELSE skPeaks[t]]
  /\ skIngresses' = skIngresses \cup Changed(skDay')
  /\ skPrev' = [p \in DOMAIN skTrack[skDay'] |-> Sign(skTrack[skDay'][p])]
  /\ UNCHANGED <<skBirth, skTrack, skTop>>

SkNext == WalkDay
SkSpec == SkInit /\ [][SkNext]_skVars

(* The events of the period: close peaks and changes of sign; the heaviest if only
   some are wanted, of equals those that were found first. *)
PeriodEvents ==
  {[kind |-> "aspect", day |-> skPeaks[t].day, what |-> t, weight |-> Weight(t)] :
     t \in {u \in DOMAIN skPeaks : skPeaks[u].orb <= PeakOrb}}
  \cup {[kind |-> "ingress", day |-> e.day, what |-> <<e.planet, e.from, e.to>>, weight |-> PlanetWeight[e.planet]] :
          e \in skIngresses}
Precedes(e, f) == e.weight > f.weight \/ (e.weight = f.weight /\ SkPlace(e) < SkPlace(f))
Timeline ==
  {e \in PeriodEvents :
     skTop = 0 \/ Cardinality({f \in PeriodEvents : Precedes(f, e)}) < skTop}

-----------------------------------------------------------------------------
(* compute_dominants: weights in halves; without a birth time there is no
   ascendant. The first element that lacks weight is shown as deficient. *)
Elements == <<"fire", "earth", "air", "water">>
ElementOf(sign) == Elements[(sign % 4) + 1]
Weighed == <<"ascendant", "sun", "moon", "mercury", "venus", "mars", "jupiter", "saturn", "uranus", "neptune", "pluto">>
Halves  == <<8, 6, 6, 4, 4, 4, 3, 3, 2, 2, 2>>
Adds(points, e, n) ==
  IF Weighed[n] \in DOMAIN points /\ ElementOf(Sign(points[Weighed[n]])) = e THEN Halves[n] ELSE 0
ElementWeight(points, e) ==
  LET upTo[n \in 0..11] == IF n = 0 THEN 0 ELSE upTo[n - 1] + Adds(points, e, n) IN upTo[11]
DominantElement(points) ==
  Elements[Min({i \in 1..4 : \A j \in 1..4 : ElementWeight(points, Elements[j]) <= ElementWeight(points, Elements[i])})]
TotalWeight(points) ==
  ElementWeight(points, "fire") + ElementWeight(points, "earth")
    + ElementWeight(points, "air") + ElementWeight(points, "water")
Deficient(points) ==
  {e \in ToSet(Elements) : ElementWeight(points, e) = 0 \/ ElementWeight(points, e) * 10 < TotalWeight(points)}

-----------------------------------------------------------------------------
(* Two longitudes make an aspect wherever the zodiac begins. *)
Meets(x, y, a, limit) ==
  \E turn \in {-Circle, 0, Circle} : \E side \in {-1, 1} :
    LET gap == x - y + turn - side * Exact[a] IN -limit <= gap /\ gap <= limit
Announced(t) == {e \in Timeline : e.kind = "aspect" /\ e.what = t}
SignChanges ==
  {y \in (2..Len(skTrack)) \X (DOMAIN skTrack[1]) :
     /\ Sign(skTrack[y[1]][y[2]]) # Sign(skTrack[y[1] - 1][y[2]])
     /\ y[2] # "moon"}

(* The aspects of a chart are those that two longitudes make, one at most for two
   planets, and two charts have the same whichever is first. *)
ChartAgrees ==
  LET natal == AspectsOf(skBirth)
  IN /\ \A p, q \in PlanetsOf(skBirth) : \A a \in ToSet(Majors) :
          p # q => (Meets(skBirth[p], skBirth[q], a, OrbLimit(p, q))
                    <=> \E x \in natal : {x.p1, x.p2} = {p, q} /\ x.aspect = a)
     /\ \A x, y \in natal : {x.p1, x.p2} = {y.p1, y.p2} => x = y
     /\ \A t \in PairAspectsOf(skBirth, skBirth) : <<t[2], t[1], t[3]>> \in PairAspectsOf(skBirth, skBirth)
     /\ DominantElement(skBirth) \notin Deficient(skBirth)

Steady == 500   \* half a degree from noon to the page's hour, in thousandths
(* At the end of a walk: each combination that came close has one event, on a day on
   which it is as close as on any other but for the rounding of a hundredth; every
   planet's change of sign between two of the days has one and the first day none;
   what a shorter list leaves out is not heavier than what it keeps; and an aspect
   announced for a day stands on that day's page, at whatever hour the page is drawn,
   if its planet is by then within half a degree of its noon, unless ten others weigh
   as much.  (The moon, and mercury from midnight, go further: theirs may be missing.) *)
WalkAgrees ==
  skDay = Len(skTrack) =>
    LET days == 1..Len(skTrack)
    IN /\ skTop = 0 => \A t \in Triples :
            IF \A d \in days : SkyOrb(d, t) > PeakOrb + 4 THEN Announced(t) = {}
            ELSE (\E d \in days : SkyOrb(d, t) <= PeakOrb) =>
                   \E e \in Announced(t) :
                     Announced(t) = {e} /\ \A d \in days : SkyOrb(e.day, t) <= SkyOrb(d, t) + 5
       /\ skTop = 0 => {<<e.day, e.what>> : e \in {x \in Timeline : x.kind = "ingress"}}
            = {<<y[1], <<y[2], Sign(skTrack[y[1] - 1][y[2]]), Sign(skTrack[y[1]][y[2]])>>>> : y \in SignChanges}
       /\ \A e \in PeriodEvents \ Timeline : \A kept \in Timeline : e.weight <= kept.weight
       /\ \A e \in {x \in Timeline : x.kind = "aspect"} : \A sky \in SkHours(skTrack, e.day) :
            Distance(sky[e.what[1]], skTrack[e.day][e.what[1]]) <= Steady =>
              \/ e.what \in DayShown(sky)
              \/ Cardinality({t \in FoundAt(sky) : Weight(t) >= e.weight}) > 10

SkyAgrees == ChartAgrees /\ WalkAgrees
=============================================================================
