-------------------------------- MODULE Arcana --------------------------------
(***************************************************************************)
(* The numbers of the Destiny Matrix (services/destiny_matrix): every      *)
(* number is an arcana, a sum folded back into 1..22 by adding digits.     *)
(* A birth date is [d, m, y].  A payload is the JSON dict that             *)
(* calculator.to_dict makes and a reading stores.                          *)
(***************************************************************************)
EXTENDS Integers, Sequences, SequencesExt

CONSTANTS
  BirthDates,   \* the dates that are looked at
  SomeDays      \* days on which a year's energy is asked for

ASSUME ArcanaAssumption ==
  \A date \in BirthDates \cup SomeDays : date \in [d : 1..31, m : 1..12, y : Nat \ {0}]

VARIABLES birth, matrix

arcanaVars == <<birth, matrix>>

Cards == 1..22

DigitSum[n \in Nat] == IF n < 10 THEN n ELSE (n % 10) + DigitSum[n \div 10]

Reduce[n \in Nat] == IF n <= 22 THEN n ELSE Reduce[DigitSum[n]]
Reduce1[n \in Nat] == IF n <= 9 THEN n ELSE Reduce1[DigitSum[n]]

(* The three points of the ray from a corner to the centre. *)
Ray(corner, c) ==
  LET mid == Reduce[corner + c]
  IN <<Reduce[corner + mid], mid, Reduce[mid + c]>>

HalfDiag_Swapped(corner, c) == <<Reduce[corner + c], Reduce[c + Reduce[corner + c]]>>
HalfDiag(corner, c) == <<Reduce[corner + c], Reduce[corner + Reduce[corner + c]]>>

ComfortPair(b, c) == <<Reduce[Reduce[2 * b + c] + c], Reduce[2 * b + c]>>

(* The chakras of a line from its top t through the centre to its bottom b. *)
Chakras(t, c, b) ==
  [sahasrara |-> t, adjna |-> Reduce[t + Reduce[t + c]], vishuddha |-> Reduce[t + c],
   anahata |-> Reduce[Reduce[t + c] + c], manipura |-> c,
   svadhisthana |-> Reduce[c + b], muladhara |-> b]

HealthMap(sky, earth) ==
  LET keys == [k \in DOMAIN sky |-> Reduce[sky[k] + earth[k]]]
      Total(f) == Reduce[FoldFunction(+, 0, f)]
  IN [rows |-> keys,
      system |-> [energy |-> Total(sky), physics |-> Total(earth), key |-> Total(keys)]]

(* calculator.calculate: the corners and the centres. *)
Points(date) ==
  LET D == Reduce[date.d]
      M == Reduce[date.m]
      Y == Reduce[DigitSum[date.y]]
      B == Reduce[D + M + Y]
      C == Reduce[D + M + Y + B]
      tl == Reduce[D + M]
      tr == Reduce[M + Y]
      br == Reduce[Y + B]
      bl == Reduce[B + D]
      lineage == Reduce[tl + tr + br + bl]
  IN [day |-> D, month |-> M, year |-> Y, bottom |-> B, center |-> C,
      tl |-> tl, tr |-> tr, br |-> br, bl |-> bl,
      lineage |-> lineage, holistic |-> Reduce[C + lineage]]

(* Its lines and four purposes. *)
Lines(p) ==
  LET sky == Reduce[p.month + p.bottom]
      earth == Reduce[p.day + p.year]
      father == Reduce[p.tl + p.br]
      mother == Reduce[p.tr + p.bl]
      lp == Reduce[sky + earth]
      sp == Reduce[father + mother]
      dp == Reduce[lp + sp]
  IN [sky |-> sky, earth |-> earth, father |-> father, mother |-> mother,
      personal |-> lp, social |-> sp, spiritual |-> dp, planetary |-> Reduce[sp + dp]]

(* Its crossing of the love and money rays, and the semantic points. *)
Specials(p) ==
  LET c == p.center
      love == Reduce[p.bottom + c]
      money == Reduce[p.year + c]
      cross == Reduce[love + money]
  IN [talent |-> Reduce[p.month + c], character |-> Reduce[p.day + c],
      money |-> money, love |-> love, cross |-> cross,
      comfort |-> ComfortPair(p.bottom, c),
      love_diag_1 |-> Reduce[cross + love], money_diag_1 |-> Reduce[cross + money]]

Channels(p) ==
  LET s == Specials(p)
  IN [karmic_tail |-> Ray(p.bottom, p.center), talents |-> Ray(p.month, p.center),
      relationships |-> <<s.love, Reduce[s.love + s.cross], s.cross>>,
      finance |-> <<s.money, Reduce[s.money + s.cross], s.cross>>,
      material_karma |-> Ray(p.year, p.center), parental |-> Ray(p.day, p.center),
      father_talents |-> Ray(p.tl, p.center), father_karma |-> Ray(p.br, p.center),
      mother_talents |-> Ray(p.tr, p.center), mother_karma |-> Ray(p.bl, p.center)]

(* calculator.to_dict. *)
Payload(date) ==
  LET p == Points(date)
      s == Specials(p)
      sky == Chakras(p.month, p.center, p.bottom)
      earth == Chakras(p.day, p.center, p.year)
  IN [personality |-> p, lines |-> Lines(p), channels |-> Channels(p), specials |-> s,
      karmic_program |-> <<s.love, Ray(p.bottom, p.center)[1], p.bottom>>,
      money_diagonal |-> <<s.money_diag_1, s.cross, s.money>>,
      family |-> [male_upper |-> HalfDiag(p.tl, p.center),
                  male_lower |-> HalfDiag(p.br, p.center),
                  female_upper |-> HalfDiag(p.tr, p.center),
                  female_lower |-> HalfDiag(p.bl, p.center)],
      chakras |-> [sky |-> sky, earth |-> earth], health |-> HealthMap(sky, earth),
      entries |-> [money |-> earth.svadhisthana, partner |-> sky.svadhisthana]]

(* Castes by number, and the share of each in a date. *)
Varna(n) == CASE n \in {1, 9} -> "Kshatriya" [] n \in {3, 6} -> "Brahman"
              [] n \in {2, 5} -> "Vaishya"   [] n \in {4, 7, 8} -> "Shudra"

VarnaShares(date) ==
  LET d == Reduce1[date.d]
      m == Reduce1[date.m]
      y == Reduce1[DigitSum[date.y]]
      of == <<Varna(d), Varna(m), Varna(y), Varna(Reduce1[d + m + y])>>
      Share(i, v) == IF of[i] = v THEN <<40, 10, 10, 40>>[i] ELSE 0
  IN [v \in {of[i] : i \in 1..4} |-> Share(1, v) + Share(2, v) + Share(3, v) + Share(4, v)]

-----------------------------------------------------------------------------
(* extended.py *)

(* The eight purposes as <<left, right, total>>, from a payload. *)
PurposesV3(P) ==
  LET p == P.personality
      Sum(a, b) == <<a, b, Reduce[a + b]>>
      p1 == Sum(p.month, p.bottom)
      p2 == Sum(p.day, p.year)
      p3 == Sum(p1[3], p2[3])
      p4 == Sum(p.tl, p.br)
      p5 == Sum(p.tr, p.bl)
      p6 == Sum(p4[3], p5[3])
      p7 == Sum(p3[3], p6[3])
  IN <<p1, p2, p3, p4, p5, p6, p7, Sum(p6[3], p7[3])>>

KarmicKey(P) == <<P.specials.love, P.channels.karmic_tail[1], P.personality.bottom>>

(* The arcana of the year that began on the last birthday, and of the next. *)
HadBirthday(born, on) ==
  on.m > born.m \/ (on.m = born.m /\ on.d >= born.d)
YearEnergy(born, on) ==
  LET year == IF HadBirthday(born, on) THEN on.y ELSE on.y - 1
      Of(y) == Reduce[Reduce[born.d] + Reduce[born.m] + Reduce[DigitSum[y]]]
  IN [current |-> Of(year), upcoming |-> Of(year + 1)]

(* destiny_matrix._is_stale_positions on a payload that has every block: the
   talents channel of the old format began with the month. *)
LooksOld(P) == P.channels.talents[1] = P.personality.month

-----------------------------------------------------------------------------
(* The numbers the sections of a report cite (the prompts of
   v3_interpreter.py): each is looked up in the table of arcana. *)

CitesVisitka(P) == LET p == P.personality IN <<p.month, p.day, p.year, p.bottom, p.center>>
CitesDrk(P) ==
  LET p == P.personality IN <<p.tl, p.tr, p.br, p.bl, P.lines.father, P.lines.mother>>
CitesKarmicTail(P) ==
  LET k == P.karmic_program IN <<k[3], k[2], k[1]>>
CitesRelationships(P) == <<P.specials.love, P.personality.month, P.personality.day>>
CitesMoney(P) == P.channels.finance \o <<P.specials.money, P.entries.money>>
CitesHarmonization(P) == <<P.lines.sky, P.lines.earth, P.personality.center>>
CitesTalents(P) == P.channels.talents \o <<P.personality.month>>
CitesAnahata(P) ==
  <<P.chakras.sky.anahata, P.chakras.earth.anahata, P.personality.center>>
CitesPurpose(P, i) == PurposesV3(P)[i]
CitesPowerCode(P) ==
  LET p == P.personality IN <<p.center, p.lineage, p.holistic>>
CitesPurposes(P) == [i \in 1..4 |-> PurposesV3(P)[<<3, 6, 7, 8>>[i]][3]]
CitesHealth(P) ==
  LET up == <<"muladhara", "svadhisthana", "manipura", "anahata", "vishuddha", "adjna", "sahasrara">>
  IN [i \in 1..14 |-> IF i <= 7 THEN P.chakras.sky[up[i]] ELSE P.chakras.earth[up[i - 7]]]
CitesYear(date, on) == LET e == YearEnergy(date, on) IN <<e.current, e.upcoming>>

-----------------------------------------------------------------------------

ArcanaInit == birth \in BirthDates /\ matrix = <<>>

(* calculate_matrix, once per reading. *)
CalculateMatrix ==
  /\ matrix = <<>>
  /\ matrix' = Payload(birth)
  /\ UNCHANGED birth

ArcanaNext == CalculateMatrix
ArcanaSpec == ArcanaInit /\ [][ArcanaNext]_arcanaVars

ShareOf(date, v) == LET s == VarnaShares(date) IN IF v \in DOMAIN s THEN s[v] ELSE 0

(* Every number a section looks up is one of the 22 cards; what is computed
   twice agrees: the purposes of the long report with the stored lines, the
   half diagonals with the rays ("these values coincide with
   channels[ancestral_*][0] and [1]"), the karmic key with the stored program,
   the entries with the named points; the castes share out the whole; and the
   year that is coming up before a birthday is the current one from it on. *)
ArcanaAgree ==
  matrix # <<>> =>
    LET P == matrix
        L == P.lines
        cited == <<CitesVisitka(P), CitesDrk(P), CitesKarmicTail(P), CitesRelationships(P),
                   CitesMoney(P), CitesHarmonization(P), CitesTalents(P), CitesAnahata(P),
                   CitesPurposes(P), CitesPowerCode(P), CitesHealth(P)>>
                 \o [i \in 1..8 |-> CitesPurpose(P, i)]
    IN /\ \A i \in DOMAIN cited : Range(cited[i]) \subseteq Cards
       /\ [i \in 1..8 |-> PurposesV3(P)[i][3]] =
            <<L.sky, L.earth, L.personal, L.father, L.mother, L.social, L.spiritual, L.planetary>>
       /\ \A f \in {<<P.family.male_upper, P.channels.father_talents>>,
                     <<P.family.male_lower, P.channels.father_karma>>,
                     <<P.family.female_upper, P.channels.mother_talents>>,
                     <<P.family.female_lower, P.channels.mother_karma>>} :
            f[1] = <<f[2][2], f[2][1]>>
       /\ KarmicKey(P) = P.karmic_program
       /\ P.entries = [money |-> P.specials.money, partner |-> P.specials.love]
       /\ ShareOf(birth, "Kshatriya") + ShareOf(birth, "Brahman") + ShareOf(birth, "Vaishya")
            + ShareOf(birth, "Shudra") = 100
       /\ \A on \in SomeDays :
            /\ Range(CitesYear(birth, on)) \subseteq Cards
            /\ ~HadBirthday(birth, on) =>
                 YearEnergy(birth, on).upcoming = YearEnergy(birth, [birth EXCEPT !.y = on.y]).current

(* "Detect old-format readings that need recompute": numbers that have just
   been computed are not taken for old ones (else every request computes them
   again and drops the text). *)
FreshIsNotOld == matrix # <<>> => ~LooksOld(matrix)
=============================================================================
