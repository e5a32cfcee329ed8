---------------------------- MODULE Pages_proofs ----------------------------
(***************************************************************************)
(* Proofs about the pages of the paid reports: whatever the texts and      *)
(* their lengths, a printed report is complete.                            *)
(***************************************************************************)
EXTENDS MCReports, Texts_proofs

-----------------------------------------------------------------------------
(* The reports of the matrix (MatrixPages).  Numbers run on from the front pages
   over the sections, the appendix and the note, however many sheets a page takes,
   and every text page is the first of one of the sections that were added. *)

MpSheet(K) == [shows : K, part : {"text", "practice", "more", "over"}, number : Nat, counter : Nat \X Nat]
Added == {mpReport.sections[s].key : s \in 1..mpAdded}

(* The pages of s are numbered from the one after n to m. *)
Runs(s, n, m) ==
  /\ \A i \in 1..Len(s) : s[i].number = (IF i = 1 THEN n ELSE s[i - 1].number)
                                        + (IF s[i].part = "over" THEN 0 ELSE 1)
  /\ m = IF Len(s) = 0 THEN n ELSE s[Len(s)].number

MpInv ==
  /\ mpReport \in MpReports /\ mpAdded \in 0..Len(mpReport.sections)
  /\ mpBody \in Seq(MpSheet(Keys(mpReport))) /\ mpNext \in Nat /\ Runs(mpBody, 3, mpNext - 1)
  /\ DOMAIN mpFirst = Added
  /\ \A key \in Added : \E i \in DOMAIN mpBody :
       mpFirst[key] = mpBody[i].number /\ mpBody[i].shows = key /\ mpBody[i].part = "text"
  /\ \A i \in DOMAIN mpBody : mpBody[i].part = "text" =>
       /\ mpBody[i].shows \in Added
       /\ \A j \in DOMAIN mpBody : mpBody[j].part = "text" /\ mpBody[j].shows = mpBody[i].shows => j = i
  /\ mpReport.long => \A i \in DOMAIN mpBody : mpBody[i].part = "text" =>
       \E s \in 1..mpAdded : mpBody[i].shows = mpReport.sections[s].key /\ mpBody[i].counter = CountOf(mpReport, s)

LEMMA ReportFacts ==
  ASSUME NEW r \in MpReports
  PROVE  /\ r.long \in BOOLEAN /\ r.canon \in Nat \ {0} /\ Len(r.sections) \in Nat /\ DOMAIN r.sections = 1..Len(r.sections)
         /\ \A i \in 1..Len(r.sections) : r.sections[i].key \in Keys(r) /\ r.sections[i].key[1] = "section"
         /\ \A i, j \in 1..Len(r.sections) : r.sections[i].key = r.sections[j].key => i = j
         /\ \A key \in Keys(r) : key[1] = "section" /\ \E i \in 1..Len(r.sections) : key = r.sections[i].key
<1>3. MaxSheets \in Nat /\ r.canon \in 1..MaxSheets
  BY ReportsAssumption
<1>4. r.canon \in Nat \ {0}
  BY <1>3
<1>1. /\ r.long \in BOOLEAN
      /\ r.sections \in Seq({r.sections[i] : i \in DOMAIN r.sections})
      /\ \A i, j \in DOMAIN r.sections : r.sections[i].key = r.sections[j].key => i = j
      /\ \A i \in DOMAIN r.sections : r.sections[i].key[1] = "section"
  BY ReportsAssumption
<1>2. Len(r.sections) \in Nat /\ DOMAIN r.sections = 1..Len(r.sections)
  BY <1>1
<1> QED BY <1>1, <1>2, <1>4 DEF Keys

(* A section is numbered within its group, after those of the group before it. *)
LEMMA CountOfFacts ==
  ASSUME NEW r \in MpReports, NEW s \in 1..Len(r.sections)
  PROVE  /\ CountOf(r, s) \in Nat \X Nat /\ CountOf(r, s)[1] \in 1..CountOf(r, s)[2]
         /\ \A t \in 1..s - 1 : r.sections[t].group = r.sections[s].group
              => CountOf(r, t)[1] # CountOf(r, s)[1]
<1> DEFINE size == Len(r.sections)
           Peers(t, n) == {j \in 1..n : r.sections[j].group = r.sections[t].group}
<1>1. size \in Nat
  BY ReportFacts
<1>2. \A t : CountOf(r, t) = <<Cardinality(Peers(t, t)), Cardinality(Peers(t, size))>>
  BY DEF CountOf
<1> HIDE DEF size
<1>3. ASSUME NEW t, NEW n \in Nat PROVE IsFiniteSet(Peers(t, n)) /\ Cardinality(Peers(t, n)) \in Nat
  <2>1. IsFiniteSet(1..n) /\ Peers(t, n) \subseteq 1..n
    BY FS_Interval
  <2> HIDE DEF Peers
  <2> QED BY <2>1, FS_Subset, FS_CardinalityType
<1>4. /\ Peers(s, s) \subseteq Peers(s, size) /\ s \in Peers(s, s) /\ s \in Nat
      /\ s \in 1..size
  BY <1>1 DEF size
<1>5. Cardinality(Peers(s, s)) <= Cardinality(Peers(s, size))
  <2> HIDE DEF Peers
  <2> QED BY <1>1, <1>3, <1>4, FS_Subset
<1>6. Cardinality(Peers(s, s)) # 0
  <2> HIDE DEF Peers
  <2> QED BY <1>3, <1>4, FS_EmptySet
<1>7. ASSUME NEW t \in 1..s - 1, r.sections[t].group = r.sections[s].group
      PROVE  Cardinality(Peers(t, t)) # Cardinality(Peers(s, s))
  <2>1. /\ Peers(t, t) \subseteq Peers(s, s) /\ s \notin Peers(t, t)
        /\ t \in Nat
    BY <1>4, <1>7
  <2> HIDE DEF Peers
  <2> QED BY <1>3, <1>4, <2>1, FS_Subset
<1>8. ASSUME NEW t \in 1..s - 1, r.sections[t].group = r.sections[s].group
      PROVE  CountOf(r, t)[1] # CountOf(r, s)[1]
  <2> HIDE DEF Peers
  <2> QED BY <1>2, <1>7, <1>8
<1>9. CountOf(r, s) \in Nat \X Nat /\ CountOf(r, s)[1] \in 1..CountOf(r, s)[2]
  <2>1. Cardinality(Peers(s, s)) \in Nat /\ Cardinality(Peers(s, size)) \in Nat
    BY <1>1, <1>3, <1>4
  <2> HIDE DEF Peers
  <2> QED BY <1>2, <1>5, <1>6, <2>1
<1> QED BY <1>8, <1>9

(* Numbers that run on over one sequence and then over another. *)
LEMMA RunsOn ==
  ASSUME NEW S, NEW a \in Seq(S), NEW b \in Seq(S), NEW n, NEW m, NEW k, Runs(a, n, m), Runs(b, m, k)
  PROVE  Runs(a \o b, n, k)
<1> DEFINE A == Len(a)
           B == Len(b)
           s == a \o b
<1>1. /\ A \in Nat /\ B \in Nat /\ Len(s) = A + B
      /\ \A i \in 1..A : s[i] = a[i]
      /\ \A i \in 1..B : s[A + i] = b[i]
  BY Joined
<1>2. /\ \A i \in 1..A : a[i].number = (IF i = 1 THEN n ELSE a[i - 1].number) + (IF a[i].part = "over" THEN 0 ELSE 1)
      /\ m = IF A = 0 THEN n ELSE a[A].number
      /\ \A i \in 1..B : b[i].number = (IF i = 1 THEN m ELSE b[i - 1].number) + (IF b[i].part = "over" THEN 0 ELSE 1)
      /\ k = IF B = 0 THEN m ELSE b[B].number
  BY DEF Runs
<1> HIDE DEF A, B, s
<1>3. ASSUME NEW i \in 1..A
      PROVE  s[i].number = (IF i = 1 THEN n ELSE s[i - 1].number) + (IF s[i].part = "over" THEN 0 ELSE 1)
  <2>1. i = 1 \/ i - 1 \in 1..A
    BY <1>1
  <2>2. s[i] = a[i] /\ (i # 1 => s[i - 1] = a[i - 1])
    BY <1>1, <2>1
  <2> QED BY <1>2, <2>2
<1>4. ASSUME NEW j \in 1..B
      PROVE  s[A + j].number = (IF A + j = 1 THEN n ELSE s[(A + j) - 1].number) + (IF s[A + j].part = "over" THEN 0 ELSE 1)
  <2>1. s[A + j] = b[j]
    BY <1>1
  <2>2. CASE j = 1
    <3>1. m = IF A + j = 1 THEN n ELSE s[(A + j) - 1].number
      <4>1. CASE A = 0
        BY <1>2, <2>2, <4>1
      <4>2. CASE A # 0
        <5>1. A \in 1..A /\ A + j # 1 /\ (A + j) - 1 = A
          BY <1>1, <2>2, <4>2
        <5> QED BY <1>1, <1>2, <5>1
      <4> QED BY <4>1, <4>2
    <3> QED BY <1>2, <2>1, <2>2, <3>1
  <2>3. CASE j # 1
    <3>1. j - 1 \in 1..B /\ (A + j) - 1 = A + (j - 1) /\ A + j # 1
      BY <1>1, <2>3
    <3>2. s[(A + j) - 1] = b[j - 1]
      BY <1>1, <3>1
    <3> QED BY <1>2, <2>1, <2>3, <3>1, <3>2
  <2> QED BY <2>2, <2>3
<1>5. \A i \in 1..(A + B) : i \in 1..A \/ \E j \in 1..B : i = A + j
  <2>1. ASSUME NEW i \in 1..(A + B) PROVE i \in 1..A \/ \E j \in 1..B : i = A + j
    <3>1. i \in 1..A \/ (i - A \in 1..B /\ i = A + (i - A))
      BY <1>1
    <3> QED BY <3>1
  <2> QED BY <2>1
<1>6. k = IF A + B = 0 THEN n ELSE s[A + B].number
  <2>1. CASE B = 0
    <3>1. A + B = A /\ (A # 0 => A \in 1..A)
      BY <1>1, <2>1
    <3> QED BY <1>1, <1>2, <2>1, <3>1
  <2>2. CASE B # 0
    <3>1. B \in 1..B /\ A + B # 0
      BY <1>1, <2>2
    <3> QED BY <1>1, <1>2, <2>2, <3>1
  <2> QED BY <2>1, <2>2
<1>7. \A i \in 1..(A + B) : s[i].number = (IF i = 1 THEN n ELSE s[i - 1].number) + (IF s[i].part = "over" THEN 0 ELSE 1)
  BY <1>3, <1>4, <1>5
<1> QED BY <1>1, <1>6, <1>7 DEF Runs, s

(* As long as no page takes two sheets, the number is the sheet's. *)
LEMMA WholeRuns ==
  ASSUME NEW s, NEW N \in Nat, NEW m, Len(s) = N, Runs(s, 0, m),
         NEW i \in 1..N, \A j \in 1..i : s[j].part # "over"
  PROVE  s[i].number = i
<1> DEFINE T == {n \in 1..i : s[n].number # n}
<1>1. T # {} => FALSE
  <2> SUFFICES ASSUME T # {} PROVE FALSE
    OBVIOUS
  <2>1. T \subseteq Nat
    OBVIOUS
  <2>2. PICK n \in T : \A y \in T : n <= y
    <3> HIDE DEF T
    <3> QED BY <2>1, LeastNatural
  <2>3. n \in 1..i /\ s[n].number # n /\ n \in 1..N /\ n \in Nat
    OBVIOUS
  <2>4. n = 1 \/ (n - 1 \in 1..i /\ ~(n <= n - 1))
    BY <2>3
  <2>5. n # 1 => s[n - 1].number = n - 1
    BY <2>2, <2>4
  <2>6. s[n].number = (IF n = 1 THEN 0 ELSE s[n - 1].number) + 1
    BY <2>3 DEF Runs
  <2> QED BY <2>3, <2>5, <2>6
<1> QED BY <1>1

LEMMA SingleIsSeq ==
  ASSUME NEW S
  PROVE  <<>> \in Seq(S) /\ \A x \in S : <<x>> \in Seq(S)
OBVIOUS

(* A page on its sheets. *)
LEMMA SheetsFine ==
  ASSUME NEW K, NEW page \in MpSheet(K), page.part # "over", NEW n \in Nat \ {0}
  PROVE  /\ Sheets(page, n) \in Seq(MpSheet(K)) /\ Len(Sheets(page, n)) = n
         /\ Sheets(page, n)[1] = page
         /\ \A i \in 1..n : /\ Sheets(page, n)[i].shows = page.shows /\ Sheets(page, n)[i].number = page.number
                            /\ i # 1 => Sheets(page, n)[i].part = "over"
         /\ Runs(Sheets(page, n), page.number - 1, page.number)
<1> DEFINE over == [page EXCEPT !.part = "over"]
           s == Sheets(page, n)
<1>1. /\ over \in MpSheet(K) /\ over.shows = page.shows /\ over.number = page.number /\ over.part = "over"
      /\ page.number \in Nat
  BY DEF MpSheet
<1>2. s = [i \in 1..n |-> IF i = 1 THEN page ELSE over]
  BY DEF Sheets
<1> HIDE DEF over, s
<1>3. s \in Seq(MpSheet(K)) /\ Len(s) = n /\ s[1] = page /\ \A i \in 1..n : i # 1 => s[i] = over
  BY <1>1, <1>2
<1>4. \A i \in 1..n : /\ s[i].shows = page.shows /\ s[i].number = page.number
                      /\ i # 1 => s[i].part = "over"
  BY <1>1, <1>3
<1>5. \A i \in 1..n : s[i].number = (IF i = 1 THEN page.number - 1 ELSE s[i - 1].number)
                                    + (IF s[i].part = "over" THEN 0 ELSE 1)
  <2>1. ASSUME NEW i \in 1..n, i # 1 PROVE s[i - 1].number = page.number
    <3>1. i - 1 \in 1..n
      BY <2>1
    <3> QED BY <1>4, <3>1
  <2> QED BY <1>1, <1>3, <1>4, <2>1
<1>6. page.number = IF n = 0 THEN page.number - 1 ELSE s[n].number
  BY <1>4
<1>7. Runs(s, page.number - 1, page.number)
  BY <1>3, <1>5, <1>6 DEF Runs
<1> QED BY <1>3, <1>4, <1>7 DEF s

LEMMA MpInvInit == MpInit => MpInv
<1> SUFFICES ASSUME MpInit PROVE MpInv
  OBVIOUS
<1>1. Len(mpReport.sections) \in Nat
  BY ReportFacts DEF MpInit
<1>2. Added = {}
  BY DEF MpInit, Added
<1>3. Runs(<<>>, 3, 3)
  BY DEF Runs
<1> QED BY <1>1, <1>2, <1>3 DEF MpInit, MpInv

(* What one section adds: its text page, and perhaps its practice. *)
IsBuilt(built, key, n, m) ==
  /\ built \in Seq(MpSheet(Keys(mpReport))) /\ Len(built) # 0
  /\ Runs(built, n - 1, m - 1)
  /\ built[1].shows = key /\ built[1].part = "text" /\ built[1].number = n
  /\ \A i \in 1..Len(built) : i # 1 => built[i].part # "text"

LEMMA BuiltFine ==
  ASSUME MpInv, mpAdded < Len(mpReport.sections), NEW key, key = mpReport.sections[mpAdded + 1].key,
         NEW sheets \in 1..MaxSheets, NEW more \in 1..MaxSheets
  PROVE  /\ mpReport.long => IsBuilt(SectionPage(mpAdded + 1, mpNext, sheets), key, mpNext, mpNext + Produced(key))
         /\ ~mpReport.long => IsBuilt(NarrativePages(key, mpNext, sheets, more), key, mpNext, mpNext + Produced(key))
<1> DEFINE n == mpNext
           S == MpSheet(Keys(mpReport))
           eyebrow == Page(key, "text", n, CountOf(mpReport, mpAdded + 1))
           text == Page(key, "text", n, <<0, 0>>)
           practice == Page(key, "practice", n + 1, <<0, 0>>)
<1>1. /\ n \in Nat /\ mpAdded + 1 \in 1..Len(mpReport.sections) /\ key \in Keys(mpReport)
      /\ sheets \in Nat \ {0} /\ more \in Nat \ {0}
  BY ReportFacts, ReportsAssumption DEF MpInv
<1>2. CountOf(mpReport, mpAdded + 1) \in Nat \X Nat
  BY <1>1, CountOfFacts DEF MpInv
<1>3. /\ eyebrow \in S /\ eyebrow.part = "text" /\ eyebrow.number = n /\ eyebrow.shows = key
      /\ text \in S /\ text.part = "text" /\ text.number = n /\ text.shows = key
      /\ practice \in S /\ practice.part = "practice" /\ practice.number = n + 1
  BY <1>1, <1>2 DEF Page, MpSheet
<1>4. SectionPage(mpAdded + 1, mpNext, sheets) = Sheets(eyebrow, sheets)
  BY DEF SectionPage
<1>5. NarrativePages(key, mpNext, sheets, more) =
        Sheets(text, sheets) \o (IF Produced(key) = 2 THEN Sheets(practice, more) ELSE <<>>)
  BY DEF NarrativePages
<1> HIDE DEF eyebrow, text, practice, S
<1>6. ASSUME NEW page \in S, page.part = "text", page.number = n, page.shows = key
      PROVE  IsBuilt(Sheets(page, sheets), key, n, n + 1)
  <2>1. /\ Sheets(page, sheets) \in Seq(S) /\ Len(Sheets(page, sheets)) = sheets /\ Sheets(page, sheets)[1] = page
        /\ \A i \in 1..sheets : i # 1 => Sheets(page, sheets)[i].part = "over"
        /\ Runs(Sheets(page, sheets), page.number - 1, page.number)
    <3>1. page \in MpSheet(Keys(mpReport)) /\ page.part # "over"
      BY <1>6 DEF S
    <3> HIDE DEF n
    <3>2. sheets \in Nat \ {0}
      BY <1>1
    <3> QED BY <3>1, <3>2, SheetsFine, Zenon DEF S
  <2>2. (n + 1) - 1 = n
    BY <1>1
  <2> QED BY <1>1, <1>6, <2>1, <2>2 DEF IsBuilt, S
<1>7. ASSUME mpReport.long
      PROVE  IsBuilt(SectionPage(mpAdded + 1, mpNext, sheets), key, n, n + Produced(key))
  BY <1>3, <1>4, <1>6, <1>7 DEF Produced
<1>8. ASSUME ~mpReport.long
      PROVE  IsBuilt(NarrativePages(key, mpNext, sheets, more), key, n, n + Produced(key))
  <2>1. CASE Produced(key) # 2
    <3>1. Produced(key) = 1 /\ IsBuilt(Sheets(text, sheets), key, n, n + 1)
      BY <1>3, <1>6, <2>1 DEF Produced
    <3>2. Sheets(text, sheets) \o <<>> = Sheets(text, sheets)
      BY <3>1 DEF IsBuilt
    <3> QED BY <1>5, <2>1, <3>1, <3>2
  <2>2. CASE Produced(key) = 2
    <3> DEFINE a == Sheets(text, sheets)
               b == Sheets(practice, more)
    <3>1. IsBuilt(a, key, n, n + 1)
      BY <1>3, <1>6
    <3>2. /\ b \in Seq(S) /\ Len(b) = more /\ b[1] = practice
          /\ \A i \in 1..more : i # 1 => b[i].part = "over"
          /\ Runs(b, (n + 1) - 1, n + 1)
      <4>1. practice \in MpSheet(Keys(mpReport)) /\ practice.part # "over"
        BY <1>3 DEF S
      <4>2. /\ b \in Seq(S) /\ Len(b) = more /\ b[1] = practice
            /\ \A i \in 1..more : i # 1 => b[i].part = "over"
            /\ Runs(b, practice.number - 1, practice.number)
        BY <1>1, <4>1, SheetsFine DEF S
      <4> QED BY <1>3, <4>2
    <3> HIDE DEF a, b
    <3>3. /\ a \in Seq(S) /\ Len(a) \in Nat \ {0} /\ Runs(a, n - 1, (n + 1) - 1) /\ (n + 2) - 1 = n + 1
      BY <1>1, <3>1 DEF IsBuilt, S
    <3>4. Runs(a \o b, n - 1, (n + 2) - 1)
      <4>1. Runs(a \o b, n - 1, n + 1)
        BY <3>2, <3>3, RunsOn, Zenon
      <4> QED BY <3>3, <4>1
    <3>5. /\ a \o b \in Seq(S) /\ Len(a \o b) = Len(a) + Len(b)
          /\ \A i \in 1..Len(a) : (a \o b)[i] = a[i]
          /\ \A i \in 1..Len(b) : (a \o b)[Len(a) + i] = b[i]
      <4>1. a \in Seq(S) /\ b \in Seq(S)
        BY <3>2, <3>3
      <4> QED BY <4>1, Joined
    <3>9. Len(b) = more /\ Len(b) \in Nat
      BY <1>1, <3>2
    <3>6. (a \o b)[1] = a[1] /\ Len(a \o b) # 0
      BY <3>3, <3>5, <3>9
    <3>7. ASSUME NEW i \in 1..Len(a \o b), i # 1 PROVE (a \o b)[i].part # "text"
      <4>1. i \in 1..Len(a) \/ (i - Len(a) \in 1..Len(b) /\ i = Len(a) + (i - Len(a)))
        BY <3>3, <3>5, <3>7, <3>9
      <4>2. CASE i \in 1..Len(a)
        BY <3>1, <3>5, <3>7, <4>2 DEF IsBuilt
      <4>3. CASE i - Len(a) \in 1..Len(b) /\ i = Len(a) + (i - Len(a))
        <5>1. (a \o b)[i] = b[i - Len(a)]
          BY <3>5, <4>3
        <5>2. \A j \in 1..Len(b) : b[j].part # "text"
          BY <1>3, <3>2, <3>9
        <5> QED BY <4>3, <5>1, <5>2
      <4> QED BY <4>1, <4>2, <4>3
    <3>8. IsBuilt(a \o b, key, n, n + 2)
      BY <3>1, <3>4, <3>5, <3>6, <3>7 DEF IsBuilt, S
    <3> QED BY <1>5, <2>2, <3>8 DEF a, b
  <2> QED BY <2>1, <2>2
<1> QED BY <1>7, <1>8

LEMMA MpInvNext == MpInv /\ [MpNext]_mpVars => MpInv'
<1> SUFFICES ASSUME MpInv, [MpNext]_mpVars PROVE MpInv'
  OBVIOUS
<1>1. CASE UNCHANGED mpVars
  BY <1>1 DEF mpVars, MpInv, Added
<1>2. CASE AddSection
  <2> DEFINE key == mpReport.sections[mpAdded + 1].key
             B == Len(mpBody)
             N == mpNext + Produced(key)
  <2>1. PICK sheets \in 1..MaxSheets, more \in 1..MaxSheets :
          mpBody' = mpBody \o (IF mpReport.long THEN SectionPage(mpAdded + 1, mpNext, sheets)
                               ELSE NarrativePages(key, mpNext, sheets, more))
    BY <1>2 DEF AddSection
  <2> DEFINE built == IF mpReport.long THEN SectionPage(mpAdded + 1, mpNext, sheets)
                      ELSE NarrativePages(key, mpNext, sheets, more)
  <2>2. /\ mpAdded < Len(mpReport.sections) /\ mpBody' = mpBody \o built
        /\ mpFirst' = [k \in DOMAIN mpFirst \cup {key} |-> IF k = key THEN mpNext ELSE mpFirst[k]]
        /\ mpNext' = N /\ mpAdded' = mpAdded + 1 /\ mpReport' = mpReport
    BY <1>2, <2>1 DEF AddSection
  <2>3. IsBuilt(built, key, mpNext, N)
    <3> HIDE DEF key
    <3> QED BY <2>2, BuiltFine DEF key
  <2>4. mpReport.long => built[1].counter = CountOf(mpReport, mpAdded + 1)
    <3>1. 1 \in 1..sheets
      BY ReportsAssumption
    <3> QED BY <3>1 DEF SectionPage, Sheets, Page
  <2>5. /\ Len(mpReport.sections) \in Nat /\ mpAdded \in Nat
        /\ \A i, j \in 1..Len(mpReport.sections) :
             mpReport.sections[i].key = mpReport.sections[j].key => i = j
        /\ mpAdded + 1 \in 1..Len(mpReport.sections)
    BY <2>2, ReportFacts DEF MpInv
  <2>6. key \notin Added /\ Added' = Added \cup {key}
    <3>1. 1..(mpAdded + 1) = (1..mpAdded) \cup {mpAdded + 1} /\ mpAdded + 1 \notin 1..mpAdded
      BY <2>5
    <3> QED BY <2>2, <2>5, <3>1 DEF Added, MpInv
  <2>7. N \in Nat
    BY DEF MpInv, Produced
  <2> HIDE DEF key, built, N
  <2>8. mpBody \in Seq(MpSheet(Keys(mpReport))) /\ built \in Seq(MpSheet(Keys(mpReport)))
    BY <2>3 DEF MpInv, IsBuilt
  <2>9. /\ mpBody' \in Seq(MpSheet(Keys(mpReport)))
        /\ B \in Nat /\ Len(built) \in Nat \ {0}
        /\ DOMAIN mpBody = 1..B /\ DOMAIN mpBody' = 1..(B + Len(built))
        /\ \A i \in 1..B : mpBody'[i] = mpBody[i]
        /\ \A i \in 1..Len(built) : mpBody'[B + i] = built[i]
    BY <2>2, <2>3, <2>8, Joined DEF IsBuilt
  <2>10. Runs(mpBody', 3, N - 1)
    BY <2>2, <2>3, <2>8, RunsOn, Zenon DEF MpInv, IsBuilt
  <2> HIDE DEF B
  <2>11. \A i \in DOMAIN mpBody' : i \in 1..B \/ \E j \in 1..Len(built) : i = B + j
    <3>1. ASSUME NEW i \in 1..(B + Len(built)) PROVE i \in 1..B \/ \E j \in 1..Len(built) : i = B + j
      <4>1. i \in 1..B \/ (i - B \in 1..Len(built) /\ i = B + (i - B))
        BY <2>9
      <4> QED BY <4>1
    <3> QED BY <2>9, <3>1
  <2>12. /\ B + 1 \in DOMAIN mpBody' /\ B + 1 \notin 1..B
         /\ mpBody'[B + 1].shows = key /\ mpBody'[B + 1].part = "text" /\ mpBody'[B + 1].number = mpNext
         /\ mpBody'[B + 1] = built[1]
    <3>1. 1 \in 1..Len(built) /\ B + 1 \in 1..(B + Len(built)) /\ B + 1 \notin 1..B
      BY <2>9
    <3> QED BY <2>3, <2>9, <3>1 DEF IsBuilt
  <2>13. \A i \in DOMAIN mpBody' : mpBody'[i].part = "text" => i \in 1..B \/ i = B + 1
    <3>1. ASSUME NEW j \in 1..Len(built), mpBody'[B + j].part = "text" PROVE B + j = B + 1
      <4>1. j = 1
        BY <2>3, <2>9, <3>1 DEF IsBuilt
      <4> QED BY <4>1
    <3> QED BY <2>11, <3>1
  <2>14. /\ DOMAIN mpFirst' = Added' /\ mpFirst'[key] = mpNext
         /\ \A k \in Added : mpFirst'[k] = mpFirst[k]
    BY <2>2, <2>6 DEF MpInv
  <2>15. ASSUME NEW k \in Added'
         PROVE  \E i \in DOMAIN mpBody' :
                  mpFirst'[k] = mpBody'[i].number /\ mpBody'[i].shows = k /\ mpBody'[i].part = "text"
    <3>1. CASE k = key
      BY <2>12, <2>14, <3>1
    <3>2. CASE k \in Added
      <4>1. PICK i \in DOMAIN mpBody : mpFirst[k] = mpBody[i].number /\ mpBody[i].shows = k /\ mpBody[i].part = "text"
        BY <3>2 DEF MpInv
      <4>2. i \in 1..B /\ i \in DOMAIN mpBody'
        BY <2>9
      <4> QED BY <2>9, <2>14, <3>2, <4>1, <4>2
    <3> QED BY <2>6, <3>1, <3>2
  <2>16. ASSUME NEW i \in DOMAIN mpBody', mpBody'[i].part = "text"
         PROVE  /\ mpBody'[i].shows \in Added'
                /\ \A j \in DOMAIN mpBody' : mpBody'[j].part = "text" /\ mpBody'[j].shows = mpBody'[i].shows => j = i
    <3>1. \A j \in 1..B : mpBody'[j].part = "text" => mpBody'[j].shows \in Added
      BY <2>9 DEF MpInv
    <3>2. CASE i \in 1..B
      <4>1. mpBody'[i].shows \in Added
        BY <2>16, <3>1, <3>2
      <4>2. \A j \in DOMAIN mpBody' : mpBody'[j].part = "text" /\ mpBody'[j].shows = mpBody'[i].shows => j = i
        <5>1. ASSUME NEW j \in 1..B, mpBody'[j].part = "text", mpBody'[j].shows = mpBody'[i].shows PROVE j = i
          <6>1. /\ mpBody[i].part = "text" /\ mpBody[j].part = "text" /\ mpBody[j].shows = mpBody[i].shows
                /\ i \in DOMAIN mpBody /\ j \in DOMAIN mpBody
            BY <2>9, <2>16, <3>2, <5>1
          <6> QED BY <6>1 DEF MpInv
        <5>2. mpBody'[B + 1].shows # mpBody'[i].shows
          BY <2>6, <2>12, <4>1
        <5> QED BY <2>13, <5>1, <5>2
      <4> QED BY <2>6, <4>1, <4>2
    <3>3. CASE i = B + 1
      <4>1. \A j \in 1..B : mpBody'[j].part = "text" => mpBody'[j].shows # mpBody'[i].shows
        BY <2>6, <2>12, <3>1, <3>3
      <4> QED BY <2>6, <2>12, <2>13, <3>3, <4>1
    <3> QED BY <2>13, <2>16, <3>2, <3>3
  <2>17. ASSUME mpReport.long, NEW i \in DOMAIN mpBody', mpBody'[i].part = "text"
         PROVE  \E s \in 1..mpAdded + 1 :
                  mpBody'[i].shows = mpReport.sections[s].key /\ mpBody'[i].counter = CountOf(mpReport, s)
    <3>1. CASE i \in 1..B
      <4>1. PICK s \in 1..mpAdded : mpBody[i].shows = mpReport.sections[s].key /\ mpBody[i].counter = CountOf(mpReport, s)
        BY <2>9, <2>17, <3>1 DEF MpInv
      <4>2. s \in 1..mpAdded + 1
        BY <2>5
      <4> QED BY <2>9, <3>1, <4>1, <4>2
    <3>2. CASE i = B + 1
      <4>1. mpAdded + 1 \in 1..mpAdded + 1
        BY <2>5
      <4> QED BY <2>4, <2>12, <2>17, <3>2, <4>1 DEF key
    <3> QED BY <2>13, <2>17, <3>1, <3>2
  <2>18. mpReport' \in MpReports /\ mpAdded' \in 0..Len(mpReport'.sections)
         /\ mpBody' \in Seq(MpSheet(Keys(mpReport'))) /\ mpNext' \in Nat /\ Runs(mpBody', 3, mpNext' - 1)
    <3>1. mpAdded + 1 \in 0..Len(mpReport.sections)
      BY <2>5
    <3> QED BY <2>2, <2>7, <2>9, <2>10, <3>1 DEF MpInv
  <2>19. (\A k \in Added : \E i \in DOMAIN mpBody :
            mpFirst[k] = mpBody[i].number /\ mpBody[i].shows = k /\ mpBody[i].part = "text")'
    BY <2>15
  <2>20. (mpReport.long => \A i \in DOMAIN mpBody : mpBody[i].part = "text" =>
            \E s \in 1..mpAdded : mpBody[i].shows = mpReport.sections[s].key
                                  /\ mpBody[i].counter = CountOf(mpReport, s))'
    BY <2>2, <2>17
  <2>21. (\A i \in DOMAIN mpBody : mpBody[i].part = "text" =>
            /\ mpBody[i].shows \in Added
            /\ \A j \in DOMAIN mpBody : mpBody[j].part = "text" /\ mpBody[j].shows = mpBody[i].shows => j = i)'
    BY <2>16
  <2> QED BY <2>14, <2>18, <2>19, <2>20, <2>21 DEF MpInv
<1> QED BY <1>1, <1>2 DEF MpNext

(* Where the pages are: the front, the body, the appendix and the note. *)
LEMMA TablesDiffer == \A i, j \in 1..3 : Tables[i] = Tables[j] => i = j
<1>1. Tables[1] = "karmic program" /\ Tables[2] = "purposes" /\ Tables[3] = "chakras"
  BY DEF Tables
<1>2. \A i \in 1..3 : i = 1 \/ i = 2 \/ i = 3
  OBVIOUS
<1> QED BY <1>1, <1>2
(* The appendix: its pages run on, and the tables begin at three places of it. *)
TablesBegun(app, pos, n) ==
  /\ pos \in [1..3 -> 1..Len(app)]
  /\ \A t \in 1..3 : /\ app[pos[t]].shows = <<"table", Tables[t]>> /\ app[pos[t]].part = "text"
                     /\ app[pos[t]].number = n + t - 1
  /\ \A i \in 1..Len(app) : app[i].part = "text" => \E t \in 1..3 : i = pos[t]

Tabled == {<<"table", Tables[t]>> : t \in 1..3} \cup {<<"table", w>> : w \in {"glossary", "summary"}}

LEMMA AppendixFacts ==
  ASSUME NEW n \in Nat, mpReport \in MpReports
  PROVE  /\ Appendix(n) \in Seq(MpSheet(Tabled)) /\ Runs(Appendix(n), n - 1, n + 2)
         /\ mpReport.long => \E pos : TablesBegun(Appendix(n), pos, n)
<1> DEFINE P(t) == TablePage(t, n + t - 1)
           g1 == Page(<<"table", "glossary">>, "text", n, <<1, 2>>)
           g2 == Page(<<"table", "glossary">>, "more", n + 1, <<2, 2>>)
           g3 == Page(<<"table", "summary">>, "text", n + 2, <<0, 0>>)
           S == MpSheet(Tabled)
<1>1. ASSUME mpReport.long
      PROVE  /\ Appendix(n) \in Seq(S) /\ Runs(Appendix(n), n - 1, n + 2)
             /\ \E pos : TablesBegun(Appendix(n), pos, n)
  <2> DEFINE a == Sheets(P(1), mpReport.canon)
             b == <<P(2), P(3)>>
             c == mpReport.canon
             pos == [t \in 1..3 |-> IF t = 1 THEN 1 ELSE c + t - 1]
  <2>1. Appendix(n) = a \o b
    <3>1. n + 1 - 1 = n /\ n + 2 - 1 = n + 1 /\ n + 3 - 1 = n + 2
      OBVIOUS
    <3>2. Appendix(n) = Sheets(TablePage(1, n), mpReport.canon) \o <<TablePage(2, n + 1), TablePage(3, n + 2)>>
      BY <1>1 DEF Appendix, TablePages
    <3> QED BY <3>1, <3>2
  <2>2. \A t \in 1..3 : /\ P(t) \in S /\ P(t).number = n + t - 1 /\ P(t).part = "text"
                        /\ P(t).shows = <<"table", Tables[t]>>
    BY DEF TablePage, Page, MpSheet, Tabled
  <2>3. c \in Nat \ {0}
    BY ReportFacts
  <2> HIDE DEF P, S, c
  <2>4. /\ a \in Seq(S) /\ Len(a) = c /\ a[1] = P(1)
        /\ \A i \in 1..c : i # 1 => a[i].part = "over"
        /\ Runs(a, n - 1, n)
    <3>1. P(1) \in MpSheet(Tabled) /\ P(1).part # "over" /\ P(1).number = n
      BY <2>2 DEF S
    <3>2. /\ Sheets(P(1), c) \in Seq(S) /\ Len(Sheets(P(1), c)) = c /\ Sheets(P(1), c)[1] = P(1)
          /\ \A i \in 1..c : i # 1 => Sheets(P(1), c)[i].part = "over"
          /\ Runs(Sheets(P(1), c), P(1).number - 1, P(1).number)
      BY <2>3, <3>1, SheetsFine, Zenon DEF S
    <3> QED BY <3>1, <3>2 DEF c
  <2>5. b \in Seq(S) /\ Len(b) = 2 /\ b[1] = P(2) /\ b[2] = P(3)
    BY <2>2
  <2> HIDE DEF a, b
  <2>6. Runs(b, n, n + 2)
    <3>1. \A i \in 1..2 : b[i].number = (IF i = 1 THEN n ELSE b[i - 1].number) + (IF b[i].part = "over" THEN 0 ELSE 1)
      <4>1. b[1].number = n + 1 /\ b[1].part = "text" /\ b[2].number = n + 2 /\ b[2].part = "text"
        BY <2>2, <2>5
      <4>2. \A i \in 1..2 : i = 1 \/ (i = 2 /\ i - 1 = 1)
        OBVIOUS
      <4> QED BY <4>1, <4>2
    <3>2. n + 2 = b[2].number
      BY <2>2, <2>5
    <3> QED BY <2>5, <3>1, <3>2 DEF Runs
  <2>7. Runs(a \o b, n - 1, n + 2)
    BY <2>4, <2>5, <2>6, RunsOn, Zenon
  <2>8. /\ a \o b \in Seq(S) /\ Len(a \o b) = c + 2
        /\ \A i \in 1..c : (a \o b)[i] = a[i]
        /\ \A i \in 1..2 : (a \o b)[c + i] = b[i]
    <3>1. a \in Seq(S) /\ b \in Seq(S)
      BY <2>4, <2>5
    <3>2. /\ a \o b \in Seq(S) /\ Len(a \o b) = Len(a) + Len(b)
          /\ \A i \in 1..Len(a) : (a \o b)[i] = a[i]
          /\ \A i \in 1..Len(b) : (a \o b)[Len(a) + i] = b[i]
      BY <3>1, Joined
    <3>3. Len(a) = c /\ Len(b) = 2
      BY <2>4, <2>5
    <3> HIDE DEF c
    <3> QED BY <3>2, <3>3
  <2>9. TablesBegun(a \o b, pos, n)
    <3> DEFINE s == a \o b
    <3>1. /\ pos[1] = 1 /\ pos[2] = c + 1 /\ pos[3] = c + 2
          /\ pos \in [1..3 -> 1..(c + 2)]
      BY <2>3
    <3>2. s[1] = P(1) /\ s[c + 1] = P(2) /\ s[c + 2] = P(3)
      BY <2>3, <2>4, <2>5, <2>8
    <3>3. ASSUME NEW i \in 1..(c + 2), s[i].part = "text" PROVE \E t \in 1..3 : i = pos[t]
      <4>1. i \in 1..c \/ i = c + 1 \/ i = c + 2
        BY <2>3
      <4>2. i \in 1..c => i = 1
        BY <2>4, <2>8, <3>3
      <4> QED BY <3>1, <4>1, <4>2
    <3> HIDE DEF pos, s
    <3>4. ASSUME NEW t \in 1..3 PROVE s[pos[t]] = P(t)
      <4>1. t = 1 \/ t = 2 \/ t = 3
        OBVIOUS
      <4> QED BY <3>1, <3>2, <4>1
    <3>5. Len(s) = c + 2
      BY <2>8 DEF s
    <3> QED BY <2>2, <3>1, <3>3, <3>4, <3>5 DEF TablesBegun, s
  <2> QED BY <2>1, <2>7, <2>8, <2>9 DEF S
<1>2. ASSUME ~mpReport.long
      PROVE  Appendix(n) \in Seq(S) /\ Runs(Appendix(n), n - 1, n + 2)
  <2>1. Appendix(n) = <<g1, g2>> \o <<g3>>
    BY <1>2 DEF Appendix, GlossaryPages, SummaryPage
  <2>2. /\ g1 \in S /\ g1.number = n /\ g1.part = "text"
        /\ g2 \in S /\ g2.number = n + 1 /\ g2.part = "more"
        /\ g3 \in S /\ g3.number = n + 2 /\ g3.part = "text"
    <3>1. <<"table", "glossary">> \in Tabled /\ <<"table", "summary">> \in Tabled
      BY DEF Tabled
    <3> QED BY <3>1 DEF Page, MpSheet
  <2> HIDE DEF g1, g2, g3, S
  <2> DEFINE s == <<g1, g2>> \o <<g3>>
  <2>3. Appendix(n) = s
    BY <2>1
  <2>4. s \in Seq(S) /\ Len(s) = 3 /\ s[1] = g1 /\ s[2] = g2 /\ s[3] = g3
    <3>1. <<g1, g2>> \in Seq(S) /\ <<g3>> \in Seq(S) /\ Len(<<g1, g2>>) = 2 /\ Len(<<g3>>) = 1
      BY <2>2
    <3>2. /\ s \in Seq(S) /\ Len(s) = 2 + 1
          /\ \A i \in 1..2 : s[i] = <<g1, g2>>[i]
          /\ \A i \in 1..1 : s[2 + i] = <<g3>>[i]
      BY <3>1, Joined
    <3> HIDE DEF s
    <3> QED BY <3>2
  <2> HIDE DEF s
  <2>5. \A i \in 1..3 : i = 1 \/ (i = 2 /\ i - 1 = 1) \/ (i = 3 /\ i - 1 = 2)
    OBVIOUS
  <2>6. \A i \in 1..3 : s[i].number = (IF i = 1 THEN n - 1 ELSE s[i - 1].number) + (IF s[i].part = "over" THEN 0 ELSE 1)
    BY <2>2, <2>4, <2>5
  <2>7. Runs(s, n - 1, n + 2)
    BY <2>2, <2>4, <2>6 DEF Runs
  <2> QED BY <2>3, <2>4, <2>7
<1> QED BY <1>1, <1>2

(* Where the pages are: the front, the body, the appendix and the note. *)
Fronts == {<<"front", w>> : w \in {"cover", "contents", "octagram"}} \cup {<<"end", "note">>}

LEMMA PrintedFacts ==
  ASSUME MpInv
  PROVE  LET B == Len(mpBody)
             app == Appendix(mpNext)
             A == Len(app) IN
         /\ B \in Nat /\ A \in Nat /\ DOMAIN Printed = 1..(3 + B + A + 1) /\ Len(Printed) = 3 + B + A + 1
         /\ Runs(Printed, 0, mpNext + 3)
         /\ \A i \in 1..3 : Printed[i].shows[1] = "front"
         /\ \A i \in 1..B : Printed[3 + i] = mpBody[i]
         /\ \A i \in 1..A : Printed[3 + B + i] = app[i]
         /\ Printed[3 + B + A + 1].shows[1] = "end"
<1> DEFINE B == Len(mpBody)
           app == Appendix(mpNext)
           A == Len(app)
           front == Opening \o mpBody
           body == front \o app
           K == Keys(mpReport) \cup Tabled \cup Fronts
           S == MpSheet(K)
           P(i) == Page(<<"front", <<"cover", "contents", "octagram">>[i]>>, "text", i, <<0, 0>>)
<1>1. mpBody \in Seq(MpSheet(Keys(mpReport))) /\ mpNext \in Nat /\ mpReport \in MpReports
      /\ Runs(mpBody, 3, mpNext - 1)
  BY DEF MpInv
<1>2. app \in Seq(MpSheet(Tabled)) /\ Runs(app, mpNext - 1, mpNext + 2)
  BY <1>1, AppendixFacts
<1>3. \A i \in 1..3 : P(i) \in S /\ P(i).number = i /\ P(i).part = "text" /\ P(i).shows[1] = "front"
  <2>1. \A i \in 1..3 : <<"front", <<"cover", "contents", "octagram">>[i]>> \in K
    <3>1. \A i \in 1..3 : <<"cover", "contents", "octagram">>[i] \in {"cover", "contents", "octagram"}
      OBVIOUS
    <3> QED BY <3>1 DEF Fronts
  <2> HIDE DEF K
  <2> QED BY <2>1 DEF Page, MpSheet
<1>4. Opening = [i \in 1..3 |-> P(i)]
  BY DEF Opening
<1>5. /\ Note \in S /\ Note.part = "text" /\ Note.number = mpNext + 3 /\ Note.shows[1] = "end"
  <2>1. <<"end", "note">> \in K
    BY DEF Fronts
  <2> HIDE DEF K
  <2> QED BY <1>1, <2>1 DEF Note, Page, MpSheet
<1>6. Printed = Append(body, Note)
  BY DEF Printed
<1>7. MpSheet(Keys(mpReport)) \subseteq S /\ MpSheet(Tabled) \subseteq S
  BY DEF MpSheet
<1> HIDE DEF P, S, app
<1>8. /\ Opening \in Seq(S) /\ Len(Opening) = 3 /\ \A i \in 1..3 : Opening[i] = P(i)
  BY <1>3, <1>4
<1>9. Runs(Opening, 0, 3)
  <2>1. \A i \in 1..3 : i = 1 \/ (i = 2 /\ i - 1 = 1) \/ (i = 3 /\ i - 1 = 2)
    OBVIOUS
  <2>2. \A i \in 1..3 : Opening[i].number = i /\ Opening[i].part = "text"
    BY <1>3, <1>8
  <2>3. \A i \in 1..3 : Opening[i].number = (IF i = 1 THEN 0 ELSE Opening[i - 1].number) + (IF Opening[i].part = "over" THEN 0 ELSE 1)
    BY <2>1, <2>2
  <2> QED BY <1>8, <2>2, <2>3 DEF Runs
<1>10. mpBody \in Seq(S) /\ app \in Seq(S)
  <2>1. Seq(MpSheet(Keys(mpReport))) \subseteq Seq(S) /\ Seq(MpSheet(Tabled)) \subseteq Seq(S)
    BY <1>7, SeqOfMore
  <2> QED BY <1>1, <1>2, <2>1
<1>11. /\ front \in Seq(S) /\ Len(front) = 3 + B /\ B \in Nat
       /\ \A i \in 1..3 : front[i] = Opening[i]
       /\ \A i \in 1..B : front[3 + i] = mpBody[i]
  <2>0. Opening \in Seq(S) /\ mpBody \in Seq(S)
    BY <1>8, <1>10
  <2>1. /\ front \in Seq(S) /\ Len(front) = Len(Opening) + Len(mpBody) /\ Len(mpBody) \in Nat
        /\ \A i \in 1..Len(Opening) : front[i] = Opening[i]
        /\ \A i \in 1..Len(mpBody) : front[Len(Opening) + i] = mpBody[i]
    <3> HIDE DEF K, body, A, B
    <3> QED BY <2>0, Joined
  <2> HIDE DEF front
  <2> QED BY <1>8, <2>1
<1>12. Runs(front, 0, mpNext - 1)
  <2>1. Opening \in Seq(S) /\ mpBody \in Seq(S)
    BY <1>8, <1>10
  <2> QED BY <1>1, <1>9, <2>1, RunsOn, Zenon
<1> HIDE DEF front
<1>13. /\ body \in Seq(S) /\ Len(body) = 3 + B + A /\ A \in Nat
       /\ \A i \in 1..(3 + B) : body[i] = front[i]
       /\ \A i \in 1..A : body[3 + B + i] = app[i]
  <2>0. front \in Seq(S) /\ app \in Seq(S)
    BY <1>10, <1>11
  <2>1. /\ body \in Seq(S) /\ Len(body) = Len(front) + Len(app) /\ Len(app) \in Nat
        /\ \A i \in 1..Len(front) : body[i] = front[i]
        /\ \A i \in 1..Len(app) : body[Len(front) + i] = app[i]
    <3> HIDE DEF K, A, B
    <3> QED BY <2>0, Joined
  <2> HIDE DEF body
  <2> QED BY <1>11, <2>1
<1>14. Runs(body, 0, mpNext + 2)
  <2>1. front \in Seq(S) /\ app \in Seq(S)
    BY <1>10, <1>11
  <2> QED BY <1>2, <1>12, <2>1, RunsOn, Zenon
<1> HIDE DEF body, A, B
<1> DEFINE N == 3 + B + A
<1>15. /\ Printed \in Seq(S) /\ Len(Printed) = N + 1 /\ DOMAIN Printed = 1..(N + 1)
       /\ \A i \in 1..N : Printed[i] = body[i]
       /\ Printed[N + 1] = Note /\ N \in Nat
  <2>1. N \in Nat /\ Len(body) = N /\ body \in Seq(S) /\ Note \in S
    BY <1>5, <1>11, <1>13
  <2> HIDE DEF N
  <2> QED BY <1>6, <2>1
<1>16. \A i \in 1..3 : Printed[i] = P(i)
  <2>1. \A i \in 1..3 : i \in 1..N /\ i \in 1..(3 + B)
    BY <1>11, <1>13
  <2> QED BY <1>8, <1>11, <1>13, <1>15, <2>1
<1>17. \A i \in 1..B : Printed[3 + i] = mpBody[i]
  <2>1. \A i \in 1..B : 3 + i \in 1..N /\ 3 + i \in 1..(3 + B)
    BY <1>11, <1>13
  <2> QED BY <1>11, <1>13, <1>15, <2>1
<1>18. \A i \in 1..A : Printed[3 + B + i] = app[i]
  <2>1. \A i \in 1..A : 3 + B + i \in 1..N
    BY <1>11, <1>13
  <2> QED BY <1>13, <1>15, <2>1
<1>19. Runs(Printed, 0, mpNext + 3)
  <2>1. \A i \in 1..N : body[i].number = (IF i = 1 THEN 0 ELSE body[i - 1].number) + (IF body[i].part = "over" THEN 0 ELSE 1)
    BY <1>13, <1>14 DEF Runs
  <2>2. mpNext + 2 = body[N].number /\ N # 0 /\ N \in 1..N
    BY <1>11, <1>13, <1>14 DEF Runs
  <2>3. ASSUME NEW i \in 1..N + 1
        PROVE  Printed[i].number = (IF i = 1 THEN 0 ELSE Printed[i - 1].number) + (IF Printed[i].part = "over" THEN 0 ELSE 1)
    <3>1. CASE i = N + 1
      <4>1. i # 1 /\ i - 1 = N
        BY <1>15, <2>2, <3>1
      <4>2. Printed[i - 1].number = mpNext + 2 /\ Printed[i].part = "text" /\ Printed[i].number = mpNext + 3
        BY <1>5, <1>15, <2>2, <3>1, <4>1
      <4> QED BY <1>1, <4>1, <4>2
    <3>2. CASE i # N + 1
      <4>1. i \in 1..N /\ (i = 1 \/ i - 1 \in 1..N)
        BY <1>15, <3>2
      <4>2. Printed[i] = body[i] /\ (i # 1 => Printed[i - 1] = body[i - 1])
        BY <1>15, <4>1
      <4> QED BY <2>1, <4>1, <4>2
    <3> QED BY <3>1, <3>2
  <2>4. N + 1 # 0 /\ Printed[N + 1].number = mpNext + 3
    BY <1>5, <1>15
  <2> HIDE DEF N
  <2> QED BY <1>15, <2>3, <2>4 DEF Runs
<1> QED BY <1>3, <1>5, <1>11, <1>13, <1>15, <1>16, <1>17, <1>18, <1>19 DEF A, B, app

(* Where the rows of the contents point to. *)
LEMMA ContentsFacts ==
  ASSUME MpInv
  PROVE  /\ \A key \in Added : key \in DOMAIN Contents /\ Contents[key] = mpFirst[key]
         /\ \A pos : mpReport.long /\ TablesBegun(Appendix(mpNext), pos, mpNext) => \A t \in 1..3 :
              <<"table", Tables[t]>> \in DOMAIN Contents /\ Contents[<<"table", Tables[t]>>] = mpNext + t - 1
<1> DEFINE app == Appendix(mpNext)
           Rows == {p \in {app[i] : i \in DOMAIN app} : p.part = "text"}
           Named(key) == {p \in Rows : RowKey(p.shows) = key}
           names == DOMAIN mpFirst \cup {RowKey(p.shows) : p \in Rows}
           where(key) == IF Named(key) # {} THEN (CHOOSE p \in Named(key) : TRUE).number ELSE mpFirst[key]
<1>1. Contents = [key \in names |-> where(key)]
  BY DEF Contents
<1>2. mpReport \in MpReports /\ mpNext \in Nat /\ DOMAIN mpFirst = Added
  BY DEF MpInv
<1>3. app \in Seq(MpSheet(Tabled)) /\ DOMAIN app = 1..Len(app) /\ Len(app) \in Nat
  <2>1. app \in Seq(MpSheet(Tabled))
    BY <1>2, AppendixFacts
  <2> HIDE DEF app
  <2> QED BY <2>1
<1>4. \A i \in 1..Len(app) : app[i].shows[1] = "table"
  <2>1. \A x \in MpSheet(Tabled) : x.shows[1] = "table"
    <3>1. \A k \in Tabled : k[1] = "table"
      BY DEF Tabled
    <3> QED BY <3>1 DEF MpSheet
  <2>2. \A i \in 1..Len(app) : app[i] \in MpSheet(Tabled)
    BY <1>3
  <2> QED BY <2>1, <2>2
<1> HIDE DEF app
<1>5. \A p \in Rows : /\ RowKey(p.shows) = p.shows /\ p.shows[1] = "table" /\ p.part = "text"
                     /\ \E i \in 1..Len(app) : p = app[i]
  BY <1>3, <1>4 DEF RowKey
<1>6. ASSUME NEW key \in Added PROVE key \in DOMAIN Contents /\ Contents[key] = mpFirst[key]
  <2>1. PICK s \in 1..mpAdded : key = mpReport.sections[s].key
    BY DEF Added
  <2>2. s \in 1..Len(mpReport.sections)
    BY <1>2, ReportFacts DEF MpInv
  <2>3. key[1] = "section"
    BY <1>2, <2>1, <2>2, ReportFacts
  <2>4. Named(key) = {}
    BY <1>5, <2>3
  <2>5. key \in names /\ where(key) = mpFirst[key]
    BY <1>2, <2>4
  <2> HIDE DEF names, where
  <2> QED BY <1>1, <2>5
<1>7. ASSUME NEW pos, mpReport.long, TablesBegun(app, pos, mpNext), NEW t \in 1..3
      PROVE  /\ <<"table", Tables[t]>> \in DOMAIN Contents
             /\ Contents[<<"table", Tables[t]>>] = mpNext + t - 1
  <2> DEFINE key == <<"table", Tables[t]>>
  <2>1. \A u \in 1..3 : /\ pos[u] \in 1..Len(app) /\ app[pos[u]].part = "text"
                        /\ app[pos[u]].shows = <<"table", Tables[u]>> /\ app[pos[u]].number = mpNext + u - 1
    BY <1>7 DEF TablesBegun
  <2>2. \A u \in 1..3 : <<"table", Tables[u]>> = key => u = t
    <3>1. ASSUME NEW u \in 1..3, <<"table", Tables[u]>> = key PROVE u = t
      <4>1. <<"table", Tables[u]>>[2] = <<"table", Tables[t]>>[2]
        BY <3>1, Zenon
      <4>2. Tables[u] = Tables[t]
        BY <4>1
      <4> QED BY <4>2, TablesDiffer
    <3> QED BY <3>1
  <2>3. app[pos[t]] \in Rows /\ app[pos[t]].shows = key
    BY <1>3, <2>1
  <2> HIDE DEF key
  <2>4. \A p \in Named(key) : p = app[pos[t]]
    <3>1. ASSUME NEW p \in Named(key) PROVE p = app[pos[t]]
      <4>1. p \in Rows /\ p.shows = key /\ p.part = "text"
        BY <1>5
      <4>2. PICK i \in 1..Len(app) : p = app[i]
        BY <1>5
      <4>3. PICK u \in 1..3 : i = pos[u]
        BY <1>7, <4>1, <4>2 DEF TablesBegun
      <4> QED BY <2>1, <2>2, <4>1, <4>2, <4>3
    <3> QED BY <3>1
  <2>5. RowKey(app[pos[t]].shows) = key
    BY <1>5, <2>3
  <2>6. Named(key) = {app[pos[t]]}
    BY <2>3, <2>4, <2>5
  <2>7. (CHOOSE p \in Named(key) : TRUE) = app[pos[t]]
    BY <2>6
  <2>8. key \in names
    BY <2>3, <2>5
  <2>9. where(key) = mpNext + t - 1
    BY <2>1, <2>6, <2>7
  <2> HIDE DEF names, where
  <2> QED BY <1>1, <2>8, <2>9 DEF key
<1> HIDE DEF Named, names, where
<1> QED BY <1>6, <1>7 DEF app

LEMMA MpInvComplete == MpInv => MatrixPagesComplete
<1> SUFFICES ASSUME MpInv, mpAdded = Len(mpReport.sections)
             PROVE  MatrixPagesComplete
  BY DEF MatrixPagesComplete
<1> DEFINE B == Len(mpBody)
           app == Appendix(mpNext)
           A == Len(app)
           N == 3 + B + A + 1
           Sends(key) == \E i \in DOMAIN Printed :
                           /\ {j \in DOMAIN Printed : Begins(j, key)} = {i}
                           /\ Contents[key] = Printed[i].number /\ (Unbroken(i) => Contents[key] = i)
<1>1. /\ mpBody \in Seq(MpSheet(Keys(mpReport))) /\ DOMAIN mpBody = 1..B
      /\ mpNext \in Nat /\ mpReport \in MpReports
  BY DEF MpInv
<1>2. Added = Keys(mpReport)
  BY <1>1, ReportFacts DEF Added, Keys
<1>3. /\ B \in Nat /\ A \in Nat /\ DOMAIN Printed = 1..N /\ Len(Printed) = N
      /\ Runs(Printed, 0, mpNext + 3)
      /\ \A i \in 1..3 : Printed[i].shows[1] = "front"
      /\ \A i \in 1..B : Printed[3 + i] = mpBody[i]
      /\ \A i \in 1..A : Printed[3 + B + i] = app[i]
      /\ Printed[N].shows[1] = "end"
  BY PrintedFacts
<1>4. \A i \in 1..A : app[i].shows[1] = "table"
  <2>1. app \in Seq(MpSheet(Tabled))
    BY <1>1, AppendixFacts
  <2>2. \A x \in MpSheet(Tabled) : x.shows[1] = "table"
    <3>1. \A k \in Tabled : k[1] = "table"
      BY DEF Tabled
    <3> QED BY <3>1 DEF MpSheet
  <2> HIDE DEF app
  <2>3. \A i \in 1..A : app[i] \in MpSheet(Tabled)
    BY <2>1
  <2> QED BY <2>2, <2>3
<1>5. \A j \in 1..B : mpBody[j].shows[1] = "section"
  <2>1. \A j \in 1..B : mpBody[j] \in MpSheet(Keys(mpReport))
    BY <1>1
  <2>2. \A j \in 1..B : mpBody[j].shows \in Keys(mpReport)
    BY <2>1 DEF MpSheet
  <2> QED BY <1>1, <2>2, ReportFacts
<1> HIDE DEF B, A, app
<1>6. \A i \in 1..N : \/ i \in 1..3 \/ \E j \in 1..B : i = 3 + j
                      \/ (\E j \in 1..A : i = 3 + B + j) \/ i = N
  <2>1. ASSUME NEW i \in 1..N PROVE \/ i \in 1..3 \/ \E j \in 1..B : i = 3 + j
                                    \/ (\E j \in 1..A : i = 3 + B + j) \/ i = N
    <3>1. i \in 1..3 \/ i - 3 \in 1..B \/ i - (3 + B) \in 1..A \/ i = N
      BY <1>3
    <3>2. i = 3 + (i - 3) /\ i = 3 + B + (i - (3 + B))
      BY <1>3
    <3>3. CASE i - 3 \in 1..B
      BY <3>2, <3>3
    <3>4. CASE i - (3 + B) \in 1..A
      BY <3>2, <3>4
    <3> HIDE DEF N
    <3> QED BY <3>1, <3>3, <3>4
  <2> QED BY <2>1
<1>7. \A j \in 1..B : 3 + j \in 1..N
  BY <1>3
<1>8. \A j \in 1..A : 3 + B + j \in 1..N
  BY <1>3
<1>9. N \in Nat
  BY <1>3
<1> HIDE DEF N
<1>10. ASSUME NEW i \in 1..N, Unbroken(i) PROVE Printed[i].number = i
  BY <1>3, <1>9, <1>10, WholeRuns DEF Unbroken
(* One page begins what goes by the key, and its number is in the contents. *)
<1>11. ASSUME NEW key, NEW i \in 1..N, Begins(i, key), \A j \in 1..N : Begins(j, key) => j = i,
              Contents[key] = Printed[i].number
       PROVE  Sends(key)
  BY <1>3, <1>10, <1>11
<1>12. ASSUME NEW key \in Keys(mpReport) PROVE key \in DOMAIN Contents /\ Sends(key)
  <2>1. key \in DOMAIN Contents /\ Contents[key] = mpFirst[key]
    BY <1>2, <1>12, ContentsFacts
  <2>2. PICK k \in 1..B : mpFirst[key] = mpBody[k].number /\ mpBody[k].shows = key /\ mpBody[k].part = "text"
    BY <1>1, <1>2, <1>12 DEF MpInv
  <2>3. 3 + k \in 1..N /\ Begins(3 + k, key) /\ Contents[key] = Printed[3 + k].number
    BY <1>3, <1>7, <2>1, <2>2 DEF Begins
  <2>4. key[1] = "section"
    BY <1>1, ReportFacts
  <2>5. ASSUME NEW j \in 1..N, Begins(j, key) PROVE j = 3 + k
    <3>1. Printed[j].shows[1] = "section" /\ Printed[j].part = "text" /\ Printed[j].shows = key
      BY <2>4, <2>5 DEF Begins
    <3>2. PICK m \in 1..B : j = 3 + m
      BY <1>3, <1>4, <1>6, <3>1
    <3>3. mpBody[m].part = "text" /\ mpBody[m].shows = key
      BY <1>3, <3>1, <3>2
    <3>4. m = k
      BY <1>1, <2>2, <3>3 DEF MpInv
    <3> QED BY <3>2, <3>4
  <2> HIDE DEF Sends
  <2> QED BY <1>11, <2>1, <2>3, <2>5
<1>13. ASSUME mpReport.long, NEW t \in 1..3
       PROVE  <<"table", Tables[t]>> \in DOMAIN Contents /\ Sends(<<"table", Tables[t]>>)
  <2> DEFINE key == <<"table", Tables[t]>>
  <2>1. PICK pos : TablesBegun(app, pos, mpNext)
    BY <1>1, <1>13, AppendixFacts DEF app
  <2>2. \A u \in 1..3 : /\ pos[u] \in 1..A /\ app[pos[u]].part = "text"
                        /\ app[pos[u]].shows = <<"table", Tables[u]>> /\ app[pos[u]].number = mpNext + u - 1
    BY <2>1 DEF TablesBegun, A
  <2>3. key \in DOMAIN Contents /\ Contents[key] = mpNext + t - 1
    BY <1>13, <2>1, ContentsFacts DEF app
  <2>4. key[1] = "table" /\ \A u \in 1..3 : <<"table", Tables[u]>> = key => u = t
    <3>1. ASSUME NEW u \in 1..3, <<"table", Tables[u]>> = key PROVE u = t
      <4>1. <<"table", Tables[u]>>[2] = <<"table", Tables[t]>>[2]
        BY <3>1, Zenon
      <4>2. Tables[u] = Tables[t]
        BY <4>1
      <4> QED BY <4>2, TablesDiffer
    <3> QED BY <3>1
  <2>5. app[pos[t]].shows = key /\ app[pos[t]].number = mpNext + t - 1 /\ app[pos[t]].part = "text" /\ pos[t] \in 1..A
    BY <2>2
  <2> HIDE DEF key
  <2> DEFINE i == 3 + B + pos[t]
  <2>6. i \in 1..N /\ Printed[i] = app[pos[t]]
    BY <1>3, <1>8, <2>5
  <2> HIDE DEF i
  <2>7. Begins(i, key) /\ Contents[key] = Printed[i].number
    BY <2>3, <2>5, <2>6 DEF Begins
  <2>8. ASSUME NEW j \in 1..N, Begins(j, key) PROVE j = i
    <3>1. Printed[j].shows[1] = "table" /\ Printed[j].shows = key /\ Printed[j].part = "text"
      BY <2>4, <2>8 DEF Begins
    <3>2. PICK m \in 1..A : j = 3 + B + m
      BY <1>3, <1>5, <1>6, <3>1
    <3>3. app[m].shows = key /\ app[m].part = "text"
      BY <1>3, <3>1, <3>2
    <3>4. PICK u \in 1..3 : m = pos[u]
      BY <2>1, <3>3 DEF TablesBegun, A
    <3>5. u = t
      BY <2>2, <2>4, <3>3, <3>4
    <3> QED BY <3>2, <3>4, <3>5 DEF i
  <2> HIDE DEF Sends
  <2> QED BY <1>11, <2>3, <2>6, <2>7, <2>8 DEF key
<1>14. ASSUME mpReport.long, NEW i \in {j \in DOMAIN mpBody : mpBody[j].part = "text"}
       PROVE  /\ mpBody[i].counter[1] \in 1..mpBody[i].counter[2]
              /\ \A j \in {k \in 1..i - 1 : mpBody[k].part = "text"} : mpBody[i].counter = mpBody[j].counter
                   => GroupOf(mpBody[i].shows) # GroupOf(mpBody[j].shows)
  <2>1. /\ Len(mpReport.sections) \in Nat /\ DOMAIN mpReport.sections = 1..Len(mpReport.sections)
        /\ \A s, t \in 1..Len(mpReport.sections) :
             mpReport.sections[s].key = mpReport.sections[t].key => s = t
    BY <1>1, ReportFacts
  <2>2. \A s \in 1..Len(mpReport.sections) : GroupOf(mpReport.sections[s].key) = mpReport.sections[s].group
    BY <2>1 DEF GroupOf
  <2>3. PICK s \in 1..Len(mpReport.sections) :
          mpBody[i].shows = mpReport.sections[s].key /\ mpBody[i].counter = CountOf(mpReport, s)
    BY <1>14 DEF MpInv
  <2>4. mpBody[i].counter[1] \in 1..mpBody[i].counter[2]
    BY <1>1, <2>3, CountOfFacts
  <2>5. ASSUME NEW j \in 1..i - 1, mpBody[j].part = "text", mpBody[i].counter = mpBody[j].counter,
               GroupOf(mpBody[i].shows) = GroupOf(mpBody[j].shows)
        PROVE  FALSE
    <3>1. j \in DOMAIN mpBody /\ j # i /\ i \in Nat /\ j \in Nat
      BY <1>1, <1>3
    <3>2. PICK t \in 1..Len(mpReport.sections) :
            mpBody[j].shows = mpReport.sections[t].key /\ mpBody[j].counter = CountOf(mpReport, t)
      BY <1>14, <2>5, <3>1 DEF MpInv
    <3>3. mpBody[j].shows # mpBody[i].shows
      BY <1>14, <2>5, <3>1 DEF MpInv
    <3>4. s # t
      BY <2>3, <3>2, <3>3
    <3>5. mpReport.sections[s].group = mpReport.sections[t].group
      BY <2>2, <2>3, <2>5, <3>2
    <3>6. CASE t < s
      <4>1. t \in 1..s - 1
        BY <2>1, <3>6
      <4> QED BY <1>1, <2>3, <2>5, <3>2, <3>5, <4>1, CountOfFacts
    <3>7. CASE s < t
      <4>1. s \in 1..t - 1
        BY <2>1, <3>7
      <4> QED BY <1>1, <2>3, <2>5, <3>2, <3>5, <4>1, CountOfFacts
    <3> QED BY <2>1, <3>4, <3>6, <3>7
  <2> QED BY <2>4, <2>5
<1>0. DOMAIN Tables = 1..3
  BY DEF Tables
<1>15. ASSUME NEW key \in Keys(mpReport) \cup {<<"table", Tables[i]>> : i \in {j \in DOMAIN Tables : mpReport.long}}
       PROVE  key \in DOMAIN Contents /\ Sends(key)
  <2>1. DOMAIN Tables = 1..3
    BY <1>0
  <2>2. CASE key \in Keys(mpReport)
    BY <1>12, <2>2
  <2>3. ASSUME NEW t \in 1..3, mpReport.long, key = <<"table", Tables[t]>>
        PROVE  key \in DOMAIN Contents /\ Sends(key)
    <3> HIDE DEF Sends
    <3> QED BY <1>13, <2>3, Zenon
  <2> QED BY <2>1, <2>2, <2>3
<1>16. \A i \in DOMAIN Printed :
         Printed[i].number = (IF i = 1 THEN 0 ELSE Printed[i - 1].number) + (IF Printed[i].part = "over" THEN 0 ELSE 1)
  BY <1>3 DEF Runs
<1> QED BY <1>14, <1>15, <1>16 DEF MatrixPagesComplete

(* Page numbers without a gap, every section and table begun once on the page the
   contents name, which is the sheet of that number as long as every page before
   took one sheet, and the counters of a group all different: for any sections,
   groups and practices of the matrix reports, and whatever sheets a page takes. *)
THEOREM MatrixPagesHold == MpSpec => []MatrixPagesComplete
BY MpInvInit, MpInvNext, MpInvComplete, PTL DEF MpSpec

-----------------------------------------------------------------------------
(* Sequences strung together. *)
IsString(f, seqs, S) ==
  /\ f \in [0..Len(seqs) -> Seq(S)] /\ f[0] = <<>>
  /\ \A i \in 1..Len(seqs) : f[i] = f[i - 1] \o seqs[i]
  /\ FlattenSeq(seqs) = f[Len(seqs)]

LEMMA FlattenSteps ==
  ASSUME NEW S, NEW seqs \in Seq(Seq(S))
  PROVE  \E f : IsString(f, seqs, S)
<1> DEFINE n == Len(seqs)
           Rec(f) == f = [i \in 1..n |-> IF i = 1 THEN seqs[i] ELSE f[i - 1] \o seqs[i]]
           flat == CHOOSE f : Rec(f)
           g == [i \in 0..n |-> IF i = 0 THEN <<>> ELSE flat[i]]
<1>1. n \in Nat /\ \A i \in 1..n : seqs[i] \in Seq(S)
  OBVIOUS
<1>2. FlattenSeq(seqs) = IF n = 0 THEN seqs ELSE flat[n]
  BY Zenon DEF FlattenSeq
<1> HIDE DEF n
<1>3. \E f : Rec(f)
  <2> DEFINE step == [p \in Seq(S) \X (1..n) |-> p[1] \o seqs[p[2]]]
  <2>1. IsStep(step, n, Seq(S))
    BY <1>1 DEF IsStep
  <2>2. \A a \in Seq(S), i \in 1..n : step[<<a, i>>] = a \o seqs[i]
    OBVIOUS
  <2>3. <<>> \in Seq(S)
    OBVIOUS
  <2> HIDE DEF step
  <2>4. PICK h : IsFold(h, step, n, Seq(S), <<>>)
    BY <1>1, <2>1, <2>3, FoldExists, Zenon
  <2>5. h \in [0..n -> Seq(S)] /\ h[0] = <<>> /\ \A i \in 1..n : h[i] = step[<<h[i - 1], i>>]
    BY <2>4 DEF IsFold
  <2>6. ASSUME NEW i \in 1..n PROVE i - 1 \in 0..n /\ h[i - 1] \in Seq(S) /\ h[i] = h[i - 1] \o seqs[i]
    <3>1. i - 1 \in 0..n
      BY <1>1
    <3>2. h[i - 1] \in Seq(S)
      BY <2>5, <3>1
    <3>3. h[i] = step[<<h[i - 1], i>>]
      BY <2>5
    <3> QED BY <2>2, <3>1, <3>2, <3>3
  <2> DEFINE f == [i \in 1..n |-> h[i]]
  <2>7. ASSUME NEW i \in 1..n PROVE f[i] = IF i = 1 THEN seqs[i] ELSE f[i - 1] \o seqs[i]
    <3>1. CASE i = 1
      <4>1. h[1] = h[0] \o seqs[1] /\ seqs[1] \in Seq(S)
        <5>1. h[i] = h[i - 1] \o seqs[i]
          BY <2>6
        <5>2. i - 1 = 0
          BY <3>1
        <5> QED BY <1>1, <3>1, <5>1, <5>2
      <4>2. h[1] = seqs[1]
        BY <2>5, <4>1
      <4> QED BY <3>1, <4>2
    <3>2. CASE i # 1
      <4>1. i - 1 \in 1..n
        BY <1>1, <3>2
      <4> QED BY <2>6, <3>2, <4>1
    <3> QED BY <3>1, <3>2
  <2>8. DOMAIN f = 1..n /\ f = [i \in 1..n |-> f[i]]
    OBVIOUS
  <2> HIDE DEF f
  <2>9. Rec(f)
    BY <2>7, <2>8
  <2> QED BY <2>9
<1>4. Rec(flat)
  BY <1>3, Zenon
<1> HIDE DEF flat
<1>5. \A i \in 1..n : flat[i] = IF i = 1 THEN seqs[i] ELSE flat[i - 1] \o seqs[i]
  BY <1>4
<1>6. g[0] = <<>> /\ \A i \in 1..n : g[i] = flat[i]
  BY <1>1
<1>7. DOMAIN g = 0..n /\ g = [i \in 0..n |-> g[i]]
  OBVIOUS
<1> HIDE DEF g
<1> DEFINE T == {i \in 0..n : g[i] \in Seq(S)}
<1>8. ASSUME NEW i \in 1..n, g[i - 1] \in Seq(S) PROVE g[i] = g[i - 1] \o seqs[i] /\ g[i] \in Seq(S)
  <2>1. CASE i = 1
    <3>1. g[i] = seqs[1] /\ seqs[1] \in Seq(S) /\ g[i - 1] = <<>>
      BY <1>1, <1>5, <1>6, <2>1
    <3>2. <<>> \o seqs[1] = seqs[1]
      BY <3>1
    <3> QED BY <2>1, <3>1, <3>2
  <2>2. CASE i # 1
    <3>1. i - 1 \in 1..n
      BY <1>1, <2>2
    <3>2. g[i] = g[i - 1] \o seqs[i]
      <4>1. flat[i] = flat[i - 1] \o seqs[i]
        BY <1>5, <2>2
      <4> QED BY <1>6, <3>1, <4>1
    <3>3. seqs[i] \in Seq(S)
      BY <1>1
    <3> QED BY <1>8, <3>2, <3>3
  <2> QED BY <2>1, <2>2
<1>9. \A i \in 0..n : i \in T
  <2>1. 0 \in T
    <3>1. <<>> \in Seq(S) /\ 0 \in 0..n
      BY <1>1
    <3> QED BY <1>6, <3>1
  <2>2. ASSUME NEW i \in 1..n, i - 1 \in T PROVE i \in T
    <3>1. i \in 0..n /\ g[i - 1] \in Seq(S)
      BY <1>1, <2>2
    <3> QED BY <1>8, <3>1
  <2> HIDE DEF T
  <2> QED BY <1>1, <2>1, <2>2, StepByStep, Zenon
<1>10. \A i \in 1..n : i - 1 \in 0..n
  BY <1>1
<1>11. g \in [0..n -> Seq(S)] /\ \A i \in 1..n : g[i] = g[i - 1] \o seqs[i]
  BY <1>7, <1>8, <1>9, <1>10
<1>12. FlattenSeq(seqs) = g[n]
  <2>1. CASE n = 0
    BY <1>2, <1>6, <2>1 DEF n
  <2>2. CASE n # 0
    <3>1. n \in 1..n
      BY <1>1, <2>2
    <3> QED BY <1>2, <1>6, <2>2, <3>1
  <2> QED BY <2>1, <2>2
<1> QED BY <1>6, <1>11, <1>12 DEF IsString, n

LEMMA FlattenIsSeq ==
  ASSUME NEW S, NEW seqs \in Seq(Seq(S))
  PROVE  FlattenSeq(seqs) \in Seq(S)
<1>1. PICK f : IsString(f, seqs, S)
  BY FlattenSteps
<1>2. Len(seqs) \in 0..Len(seqs)
  OBVIOUS
<1> QED BY <1>1, <1>2 DEF IsString

LEMMA FlattenAppend ==
  ASSUME NEW S, NEW seqs \in Seq(Seq(S)), NEW p \in Seq(S)
  PROVE  FlattenSeq(Append(seqs, p)) = FlattenSeq(seqs) \o p
<1> DEFINE n == Len(seqs)
           more == Append(seqs, p)
<1>1. /\ more \in Seq(Seq(S)) /\ Len(more) = n + 1 /\ n \in Nat
      /\ \A i \in 1..n : more[i] = seqs[i]
      /\ more[n + 1] = p
  OBVIOUS
<1> HIDE DEF more
<1>2. PICK f : IsString(f, seqs, S)
  BY FlattenSteps
<1>3. PICK g : IsString(g, more, S)
  BY <1>1, FlattenSteps
<1> HIDE DEF n
<1>9. /\ f[0] = <<>> /\ g[0] = <<>> /\ f[n] = FlattenSeq(seqs) /\ g[n + 1] = FlattenSeq(more)
      /\ \A i \in 1..n : f[i] = f[i - 1] \o seqs[i]
      /\ \A i \in 1..n + 1 : g[i] = g[i - 1] \o more[i]
  BY <1>1, <1>2, <1>3, Zenon DEF IsString, n
<1>4. ASSUME NEW i \in 1..n, f[i - 1] = g[i - 1] PROVE f[i] = g[i]
  <2>1. i \in 1..n + 1
    BY <1>1
  <2>2. g[i] = g[i - 1] \o more[i] /\ more[i] = seqs[i] /\ f[i] = f[i - 1] \o seqs[i]
    BY <1>1, <1>9, <2>1
  <2> QED BY <1>4, <2>2
<1> DEFINE T == {i \in 0..n : f[i] = g[i]}
<1>5. \A i \in 0..n : i \in T
  <2>1. 0 \in T /\ \A i \in 1..n : i - 1 \in T => i \in T
    BY <1>1, <1>4, <1>9
  <2> HIDE DEF T
  <2> QED BY <1>1, <2>1, StepByStep, Zenon
<1>6. n \in 0..n /\ n + 1 \in 1..n + 1 /\ n + 1 - 1 = n
  BY <1>1
<1>7. f[n] = g[n]
  BY <1>5, <1>6
<1>8. g[n + 1] = g[n] \o p
  <2>1. ASSUME NEW m \in 1..n + 1, m = n + 1 PROVE g[m] = g[n] \o p
    <3>1. g[m] = g[m - 1] \o more[m]
      BY <1>9
    <3>2. m - 1 = n
      BY <1>1, <2>1
    <3>3. more[m] = p
      BY <1>1, <2>1
    <3> QED BY <3>1, <3>2, <3>3
  <2> QED BY <1>6, <2>1
<1> QED BY <1>7, <1>8, <1>9 DEF more

-----------------------------------------------------------------------------
(* The drawn report (PlainPages).  Between two lines the cursor stands under what
   was drawn last; of the block at work so many lines are drawn as are no longer
   to come. *)

FineBlock ==
  {b \in [kind : {"planet", "house", "aspect", "none", "title", "paragraph"}, id : Nat,
          opens : BOOLEAN, wide : BOOLEAN, lines : Seq(Nat \ {0})] :
     /\ b.kind \in {"planet", "none"} => b.opens
     /\ b.kind \in {"title", "none"} => b.lines = <<>>
     /\ b.kind = "paragraph" => b.lines # <<>>}
FineBlocks(bs) ==
  /\ bs \in Seq(FineBlock) /\ bs # <<>>
  /\ \A n \in 1..Len(bs) - 1 : bs[n + 1].kind = "paragraph" => bs[n] # bs[n + 1]
PpEntry == [block : FineBlock, line : Nat, page : Int, y : Int]

DrawnFine(drawn, bs) ==
  /\ drawn \in Seq(PpEntry)
  /\ \A i \in DOMAIN drawn : OnPaper(drawn[i])
  /\ \A i \in 2..Len(drawn) : Below(drawn[i - 1], drawn[i]) /\ ReadOn(bs, drawn[i - 1], drawn[i])
  /\ drawn # <<>> => Opens(drawn[1], bs[1])

(* All blocks before the next one are drawn. *)
DrawnUpto(drawn, bs, n) ==
  IF n = 0 THEN drawn = <<>> ELSE drawn # <<>> /\ Closes(drawn[Len(drawn)], bs[n])
(* So many of the lines of b are drawn, and these are left. *)
LinesLeft(b, m, left) ==
  \E k \in 0..Len(b.lines) :
    /\ Len(left) = Len(b.lines) - k
    /\ left = <<>> => m = LineCount(b)
    /\ left # <<>> => left[1] \in 1..b.lines[k + 1] /\ m = LinesUpto(b)[k + 1] - left[1]
    /\ \A j \in 2..Len(left) : left[j] = b.lines[k + j]
CursorUnder(drawn, page, y) ==
  drawn # <<>> => LET d == drawn[Len(drawn)] IN page = d.page /\ y + Height(d) <= d.y
(* A paragraph that opens its section has turned the page and drawn nothing. *)
CursorFresh(drawn, b, page, y) ==
  /\ drawn # <<>> => page = drawn[Len(drawn)].page + 1
  /\ y = Top - Preface(b)
(* A heading has room for the line after it. *)
RoomUnder(b, line, left, y) == line = 0 /\ left # <<>> => y >= LineHeight(b.kind) + Foot(b.kind)

Unbegun(drawn, bs, n, b, left, page, y) ==
  /\ DrawnUpto(drawn, bs, n) /\ ~HasHead(b) /\ left = b.lines
  /\ IF b.opens THEN CursorFresh(drawn, b, page, y) ELSE CursorUnder(drawn, page, y)
Begun(drawn, b, left, page, y) ==
  /\ drawn # <<>> /\ CursorUnder(drawn, page, y)
  /\ drawn[Len(drawn)].block = b
  /\ LinesLeft(b, drawn[Len(drawn)].line, left) /\ RoomUnder(b, drawn[Len(drawn)].line, left, y)

PpBs == BlocksOf(ppChart)
PpDone == Len(PpBs) - Len(ppBlocks)
PpTypes ==
  /\ ppChart \in PpCharts /\ ppBlocks \in Seq(FineBlock) /\ Len(ppBlocks) <= Len(PpBs)
  /\ \A j \in DOMAIN ppBlocks : ppBlocks[j] = PpBs[PpDone + j]
  /\ ppHeaded \in BOOLEAN /\ ppLines \in Seq(Nat \ {0}) /\ ppPage \in Int /\ ppY \in Int
PpInv ==
  /\ PpTypes /\ DrawnFine(ppDrawn, PpBs)
  /\ ~ppHeaded => DrawnUpto(ppDrawn, PpBs, PpDone) /\ CursorUnder(ppDrawn, ppPage, ppY)
  /\ ppHeaded => ppBlocks # <<>> /\
       \/ Unbegun(ppDrawn, PpBs, PpDone, ppBlocks[1], ppLines, ppPage, ppY)
       \/ Begun(ppDrawn, ppBlocks[1], ppLines, ppPage, ppY)

LEMMA LinesUptoIs ==
  ASSUME NEW b, b.lines \in Seq(Nat \ {0})
  PROVE  /\ LinesUpto(b)[0] = 0 /\ Len(b.lines) \in Nat
         /\ \A k \in 1..Len(b.lines) :
              /\ LinesUpto(b)[k - 1] \in Nat /\ b.lines[k] \in Nat \ {0}
              /\ LinesUpto(b)[k] = LinesUpto(b)[k - 1] + b.lines[k]
<1> DEFINE n == Len(b.lines)
           Rec(f) == f = [k \in 0..n |-> IF k = 0 THEN 0 ELSE f[k - 1] + b.lines[k]]
           u == CHOOSE f : Rec(f)
<1>1. n \in Nat /\ \A k \in 1..n : b.lines[k] \in Nat \ {0}
  OBVIOUS
<1>2. LinesUpto(b) = u
  BY Zenon DEF LinesUpto
<1> HIDE DEF n
<1>3. \E f : Rec(f)
  <2> DEFINE step == [p \in Nat \X (1..n) |-> p[1] + b.lines[p[2]]]
  <2>1. IsStep(step, n, Nat)
    BY <1>1 DEF IsStep
  <2>2. \A a \in Nat, i \in 1..n : step[<<a, i>>] = a + b.lines[i]
    OBVIOUS
  <2> HIDE DEF step
  <2>3. PICK f : IsFold(f, step, n, Nat, 0)
    BY <1>1, <2>1, FoldExists, Zenon
  <2>4. f \in [0..n -> Nat] /\ f[0] = 0 /\ \A i \in 1..n : f[i] = step[<<f[i - 1], i>>]
    BY <2>3 DEF IsFold
  <2>5. ASSUME NEW k \in 0..n PROVE f[k] = IF k = 0 THEN 0 ELSE f[k - 1] + b.lines[k]
    <3>1. CASE k = 0
      BY <2>4, <3>1
    <3>2. CASE k # 0
      <4>1. k \in 1..n /\ k - 1 \in 0..n
        BY <1>1, <3>2
      <4>2. f[k - 1] \in Nat
        BY <2>4, <4>1
      <4> QED BY <2>2, <2>4, <3>2, <4>1, <4>2
    <3> QED BY <3>1, <3>2
  <2>6. Rec(f)
    BY <2>4, <2>5
  <2> QED BY <2>6
<1>4. Rec(u)
  BY <1>3, Zenon
<1> HIDE DEF u
<1>5. u[0] = 0 /\ \A k \in 1..n : u[k] = u[k - 1] + b.lines[k]
  <2>1. \A k \in 0..n : u[k] = IF k = 0 THEN 0 ELSE u[k - 1] + b.lines[k]
    BY <1>4
  <2>2. 0 \in 0..n /\ \A k \in 1..n : k \in 0..n /\ k # 0
    BY <1>1
  <2> QED BY <2>1, <2>2
<1> DEFINE T == {k \in 0..n : u[k] \in Nat}
<1>6. \A k \in 0..n : k \in T
  <2>1. 0 \in T
    BY <1>1, <1>5
  <2>2. ASSUME NEW k \in 1..n, k - 1 \in T PROVE k \in T
    <3>1. u[k] = u[k - 1] + b.lines[k] /\ b.lines[k] \in Nat /\ u[k - 1] \in Nat /\ k \in 0..n
      BY <1>1, <1>5, <2>2
    <3> QED BY <3>1
  <2> HIDE DEF T
  <2> QED BY <1>1, <2>1, <2>2, StepByStep, Zenon
<1>7. \A k \in 1..n : u[k - 1] \in Nat
  <2>1. \A k \in 1..n : k - 1 \in 0..n
    BY <1>1
  <2> QED BY <1>6, <2>1
<1> QED BY <1>1, <1>2, <1>5, <1>7 DEF n

(* A block of lines has a last one. *)
LEMMA LineCountIs ==
  ASSUME NEW b, b.lines \in Seq(Nat \ {0})
  PROVE  /\ LineCount(b) \in Nat
         /\ b.lines = <<>> <=> LineCount(b) = 0
<1>1. CASE b.lines = <<>>
  <2>1. Len(b.lines) = 0
    BY <1>1
  <2> QED BY <1>1, <2>1, LinesUptoIs DEF LineCount
<1>2. CASE b.lines # <<>>
  <2>1. Len(b.lines) \in 1..Len(b.lines)
    BY <1>2
  <2>2. /\ LinesUpto(b)[Len(b.lines) - 1] \in Nat /\ b.lines[Len(b.lines)] \in Nat \ {0}
        /\ LinesUpto(b)[Len(b.lines)] = LinesUpto(b)[Len(b.lines) - 1] + b.lines[Len(b.lines)]
    BY <2>1, LinesUptoIs
  <2> QED BY <1>2, <2>2 DEF LineCount
<1> QED BY <1>1, <1>2

(* The blocks of a chart. *)
LEMMA BlocksAreFine ==
  ASSUME NEW c \in PpCharts
  PROVE  FineBlocks(BlocksOf(c))
<1> DEFINE Texts(s) == {c[s][i] : i \in DOMAIN c[s]}
           Written(t) == t.wide \in BOOLEAN /\ t.paragraphs \in Seq(Nat \ {0})
<1>1. ASSUME NEW s \in {"planets", "houses", "aspects", "reading"}
      PROVE  /\ c[s] \in Seq(Texts(s)) /\ Len(c[s]) \in Nat /\ DOMAIN c[s] = 1..Len(c[s])
             /\ \A i \in 1..Len(c[s]) : Written(c[s][i])
  <2>1. /\ c[s] \in Seq({c[s][i] : i \in DOMAIN c[s]})
        /\ \A i \in DOMAIN c[s] : c[s][i].wide \in BOOLEAN /\ c[s][i].paragraphs \in Seq(Nat \ {0})
    BY PlainAssumption
  <2> QED BY <2>1
<1>2. \A i \in 1..Len(c.reading) : c.reading[i].title <=> c.reading[i].paragraphs = <<>>
  <2>1. \A i \in DOMAIN c.reading : c.reading[i].title <=> c.reading[i].paragraphs = <<>>
    BY PlainAssumption
  <2> QED BY <1>1, <2>1
<1>4. PlanetBlocks(c) \in Seq(FineBlock) /\ \A i \in DOMAIN PlanetBlocks(c) : PlanetBlocks(c)[i].kind = "planet"
  <2>1. PlanetBlocks(c) = [i \in 1..Len(c.planets) |-> Block("planet", i, c.planets[i], TRUE)]
    BY <1>1 DEF PlanetBlocks
  <2>2. ASSUME NEW i \in 1..Len(c.planets)
        PROVE  Block("planet", i, c.planets[i], TRUE) \in FineBlock /\ Block("planet", i, c.planets[i], TRUE).kind = "planet"
    <3>1. i \in Nat /\ Written(c.planets[i])
      BY <1>1
    <3> QED BY <3>1 DEF Block, FineBlock
  <2>3. Len(c.planets) \in Nat
    BY <1>1
  <2> DEFINE B(i) == Block("planet", i, c.planets[i], TRUE)
  <2>4. PlanetBlocks(c) = [i \in 1..Len(c.planets) |-> B(i)]
    BY <2>1
  <2>5. \A i \in 1..Len(c.planets) : B(i) \in FineBlock /\ B(i).kind = "planet"
    BY <2>2
  <2> HIDE DEF B
  <2> QED BY <2>3, <2>4, <2>5
<1>5. HouseBlocks(c) \in Seq(FineBlock) /\ \A i \in DOMAIN HouseBlocks(c) : HouseBlocks(c)[i].kind = "house"
  <2>1. HouseBlocks(c) = [i \in 1..Len(c.houses) |-> Block("house", i, c.houses[i], i % 2 = 1)]
    BY <1>1 DEF HouseBlocks
  <2>2. ASSUME NEW i \in 1..Len(c.houses)
        PROVE  /\ Block("house", i, c.houses[i], i % 2 = 1) \in FineBlock
               /\ Block("house", i, c.houses[i], i % 2 = 1).kind = "house"
    <3>1. i \in Nat /\ Written(c.houses[i])
      BY <1>1
    <3> QED BY <3>1 DEF Block, FineBlock
  <2>3. Len(c.houses) \in Nat
    BY <1>1
  <2> QED BY <2>1, <2>2, <2>3
<1>6. Undoubled(c.aspects) \in Seq(Texts("aspects"))
  <2> DEFINE Doubles(i) == \E j \in 1..i - 1 : c.aspects[j].shown /\ c.aspects[j].says = c.aspects[i].says
             parts == [i \in DOMAIN c.aspects |->
                         IF c.aspects[i].shown /\ ~Doubles(i) THEN <<c.aspects[i]>> ELSE <<>>]
  <2>1. Undoubled(c.aspects) = FlattenSeq(parts)
    BY DEF Undoubled
  <2>2. DOMAIN c.aspects = 1..Len(c.aspects) /\ Len(c.aspects) \in Nat
    BY <1>1
  <2>3. \A i \in DOMAIN c.aspects : <<c.aspects[i]>> \in Seq(Texts("aspects")) /\ <<>> \in Seq(Texts("aspects"))
    OBVIOUS
  <2> HIDE DEF Doubles, Texts
  <2>4. parts \in Seq(Seq(Texts("aspects")))
    BY <2>2, <2>3
  <2> QED BY <2>1, <2>4, FlattenIsSeq, Zenon
<1>7. /\ AspectBlocks(c) \in Seq(FineBlock) /\ AspectBlocks(c) # <<>>
      /\ \A i \in DOMAIN AspectBlocks(c) : AspectBlocks(c)[i].kind \in {"aspect", "none"}
  <2> DEFINE as == Undoubled(c.aspects)
  <2>1. CASE as = <<>>
    <3>1. AspectBlocks(c) = <<Block("none", 1, NoteOnly, TRUE)>>
      BY <2>1 DEF AspectBlocks
    <3>2. Block("none", 1, NoteOnly, TRUE) \in FineBlock /\ Block("none", 1, NoteOnly, TRUE).kind = "none"
      <4>1. <<>> \in Seq(Nat \ {0})
        OBVIOUS
      <4> QED BY <4>1 DEF Block, NoteOnly, FineBlock
    <3> DEFINE b == Block("none", 1, NoteOnly, TRUE)
    <3>3. AspectBlocks(c) = <<b>> /\ b \in FineBlock /\ b.kind = "none"
      BY <3>1, <3>2, Zenon
    <3> HIDE DEF b
    <3> QED BY <3>3
  <2>2. CASE as # <<>>
    <3>1. AspectBlocks(c) = [i \in 1..Len(as) |-> Block("aspect", i, as[i], i = 1)]
      BY <1>6, <2>2 DEF AspectBlocks
    <3>2. ASSUME NEW i \in 1..Len(as)
          PROVE  /\ Block("aspect", i, as[i], i = 1) \in FineBlock
                 /\ Block("aspect", i, as[i], i = 1).kind = "aspect"
      <4>1. as[i] \in Texts("aspects")
        BY <1>6
      <4>2. \A t \in Texts("aspects") : Written(t)
        BY <1>1
      <4>3. i \in Nat /\ Written(as[i])
        BY <1>6, <4>1, <4>2
      <4> HIDE DEF as
      <4> QED BY <4>3 DEF Block, FineBlock
    <3>3. Len(as) \in Nat \ {0}
      BY <1>6, <2>2
    <3> DEFINE B(i) == Block("aspect", i, as[i], i = 1)
    <3>4. AspectBlocks(c) = [i \in 1..Len(as) |-> B(i)]
      BY <3>1
    <3>5. \A i \in 1..Len(as) : B(i) \in FineBlock /\ B(i).kind = "aspect"
      BY <3>2
    <3> DEFINE n == Len(as)
    <3> HIDE DEF as, B, n
    <3>6. n \in Nat \ {0} /\ AspectBlocks(c) = [i \in 1..n |-> B(i)]
      BY <3>3, <3>4 DEF n
    <3>7. \A i \in 1..n : B(i) \in FineBlock /\ B(i).kind = "aspect"
      BY <3>5 DEF n
    <3>8. Len(AspectBlocks(c)) = n /\ AspectBlocks(c) \in Seq(FineBlock)
      BY <3>6, <3>7
    <3> QED BY <3>6, <3>7, <3>8
  <2> QED BY <2>1, <2>2
<1>8. /\ ReadingBlocks(c) \in Seq(FineBlock)
      /\ \A i \in DOMAIN ReadingBlocks(c) : ReadingBlocks(c)[i].kind \in {"title", "paragraph"}
      /\ \A i \in DOMAIN ReadingBlocks(c) : ReadingBlocks(c)[i].id = i
  <2> DEFINE kind(i) == IF c.reading[i].title THEN "title" ELSE "paragraph"
  <2>1. ReadingBlocks(c) = [i \in 1..Len(c.reading) |-> Block(kind(i), i, c.reading[i], i = 1)]
    BY <1>1 DEF ReadingBlocks
  <2>2. ASSUME NEW i \in 1..Len(c.reading)
        PROVE  /\ Block(kind(i), i, c.reading[i], i = 1) \in FineBlock
               /\ Block(kind(i), i, c.reading[i], i = 1).kind = kind(i)
               /\ Block(kind(i), i, c.reading[i], i = 1).id = i
    <3>1. i \in Nat /\ Written(c.reading[i])
      BY <1>1
    <3>2. /\ kind(i) \in {"title", "paragraph"}
          /\ kind(i) = "title" => c.reading[i].paragraphs = <<>>
          /\ kind(i) = "paragraph" => c.reading[i].paragraphs # <<>>
      BY <1>2
    <3> HIDE DEF kind
    <3> QED BY <3>1, <3>2 DEF Block, FineBlock
  <2>3. Len(c.reading) \in Nat /\ \A i \in 1..Len(c.reading) : kind(i) \in {"title", "paragraph"}
    BY <1>1
  <2> HIDE DEF kind
  <2> QED BY <2>1, <2>2, <2>3
<1> DEFINE P == PlanetBlocks(c)
           H == HouseBlocks(c)
           A == AspectBlocks(c)
           R == ReadingBlocks(c)
           three == P \o H \o A
<1>9. three \in Seq(FineBlock) /\ three # <<>> /\ \A i \in DOMAIN three : three[i].kind \notin {"title", "paragraph"}
  <2> HIDE DEF P, H, A
  <2>1. P \o H \in Seq(FineBlock) /\ \A i \in DOMAIN (P \o H) : (P \o H)[i].kind \notin {"title", "paragraph"}
    BY <1>4, <1>5 DEF P, H
  <2> DEFINE ph == P \o H
  <2> HIDE DEF ph
  <2>2. ph \in Seq(FineBlock) /\ \A i \in DOMAIN ph : ph[i].kind \notin {"title", "paragraph"}
    BY <2>1 DEF ph
  <2>3. three = ph \o A
    BY DEF ph
  <2> HIDE DEF three
  <2>4. A \in Seq(FineBlock) /\ A # <<>> /\ \A i \in DOMAIN A : A[i].kind \in {"aspect", "none"}
    BY <1>7 DEF A
  <2> QED BY <2>2, <2>3, <2>4
<1>10. BlocksOf(c) = three \o R
  BY DEF BlocksOf
<1> HIDE DEF P, H, A, three
<1>11. /\ R \in Seq(FineBlock) /\ \A i \in DOMAIN R : R[i].kind \in {"title", "paragraph"} /\ R[i].id = i
  BY <1>8 DEF R
<1> DEFINE m == Len(three)
           bs == three \o R
<1>12. /\ bs \in Seq(FineBlock) /\ m \in Nat \ {0} /\ Len(R) \in Nat /\ Len(bs) = m + Len(R)
       /\ \A i \in 1..m : bs[i] = three[i]
       /\ \A i \in 1..Len(R) : bs[m + i] = R[i]
       /\ DOMAIN three = 1..m /\ DOMAIN R = 1..Len(R)
  <2> HIDE DEF R
  <2>1. m \in Nat \ {0}
    BY <1>9
  <2> QED BY <1>9, <1>11, <2>1, Joined
<1> HIDE DEF R, m, bs
<1>13. ASSUME NEW n \in 1..Len(bs) - 1, bs[n + 1].kind = "paragraph" PROVE bs[n] # bs[n + 1]
  <2>1. CASE n < m
    <3>1. n + 1 \in 1..m
      BY <1>12, <2>1
    <3> QED BY <1>9, <1>12, <1>13, <3>1
  <2>2. CASE n = m
    <3>1. n \in 1..m
      BY <1>12, <2>2
    <3> QED BY <1>9, <1>12, <1>13, <3>1
  <2>3. CASE n > m
    <3>1. n - m \in 1..Len(R) /\ n - m + 1 \in 1..Len(R) /\ n = m + (n - m) /\ n + 1 = m + (n - m + 1)
      BY <1>12, <2>3
    <3>2. bs[n] = R[n - m] /\ bs[n + 1] = R[n - m + 1]
      BY <1>12, <3>1
    <3>3. R[n - m].id = n - m /\ R[n - m + 1].id = n - m + 1
      BY <1>11, <1>12, <3>1
    <3> QED BY <1>12, <3>2, <3>3
  <2> QED BY <1>12, <2>1, <2>2, <2>3
<1>14. bs # <<>>
  <2>1. Len(bs) # 0
    BY <1>12
  <2> QED BY <2>1
<1> QED BY <1>10, <1>12, <1>13, <1>14 DEF FineBlocks, bs

LEMMA PpInvInit == PpInit => PpInv
<1> SUFFICES ASSUME PpInit PROVE PpInv
  OBVIOUS
<1> DEFINE bs == PpBs
<1>1. ppChart \in PpCharts /\ ppBlocks = bs /\ ~ppHeaded /\ ppHeaded = FALSE /\ ppLines = <<>> /\ ppDrawn = <<>>
  BY DEF PpInit, PpBs
<1>2. ppPage \in Int /\ ppY \in Int
  <2>1. Len(FixedPages) = 5
    BY DEF FixedPages
  <2> QED BY <2>1 DEF PpInit, Top
<1>3. bs \in Seq(FineBlock)
  BY <1>1, BlocksAreFine DEF PpBs, FineBlocks
<1> HIDE DEF bs
<1>4. PpDone = 0
  BY <1>1, <1>3 DEF PpDone, bs
<1>5. PpTypes
  <2>1. <<>> \in Seq(Nat \ {0})
    OBVIOUS
  <2>2. \A j \in DOMAIN ppBlocks : j = PpDone + j
    BY <1>1, <1>3, <1>4
  <2>3. \A j \in DOMAIN ppBlocks : ppBlocks[j] = PpBs[PpDone + j]
    BY <1>1, <2>2 DEF bs
  <2>4. Len(ppBlocks) <= Len(PpBs)
    BY <1>1, <1>3 DEF bs
  <2> QED BY <1>1, <1>2, <1>3, <2>1, <2>3, <2>4 DEF PpTypes
<1>6. DrawnFine(<<>>, bs)
  BY DEF DrawnFine
<1> QED BY <1>1, <1>4, <1>5, <1>6 DEF PpInv, DrawnUpto, CursorUnder, bs

(* What is drawn next comes after and under what was drawn last. *)
LEMMA DrawnMore ==
  ASSUME NEW bs, NEW drawn, DrawnFine(drawn, bs), NEW e \in PpEntry, OnPaper(e),
         drawn = <<>> => Opens(e, bs[1]),
         drawn # <<>> => Below(drawn[Len(drawn)], e) /\ ReadOn(bs, drawn[Len(drawn)], e)
  PROVE  /\ DrawnFine(Append(drawn, e), bs) /\ Append(drawn, e) # <<>>
         /\ Append(drawn, e)[Len(Append(drawn, e))] = e
<1> DEFINE n == Len(drawn)
           more == Append(drawn, e)
<1>1. drawn \in Seq(PpEntry) /\ n \in Nat /\ DOMAIN drawn = 1..n /\ (drawn = <<>> <=> n = 0)
  BY DEF DrawnFine
<1>2. /\ more \in Seq(PpEntry) /\ Len(more) = n + 1 /\ DOMAIN more = 1..(n + 1) /\ more # <<>>
      /\ \A i \in 1..n : more[i] = drawn[i]
      /\ more[n + 1] = e
  <2> HIDE DEF n
  <2>1. more \in Seq(PpEntry) /\ Len(more) = n + 1
    BY <1>1 DEF n
  <2>2. \A i \in 1..n : more[i] = drawn[i]
    BY <1>1 DEF n
  <2>3. more[n + 1] = e
    BY <1>1 DEF n
  <2> HIDE DEF more
  <2>4. DOMAIN more = 1..(n + 1) /\ more # <<>>
    BY <1>1, <2>1
  <2> QED BY <2>1, <2>2, <2>3, <2>4
<1> HIDE DEF more
<1>3. /\ \A i \in 1..n : OnPaper(drawn[i])
      /\ \A i \in 2..n : Below(drawn[i - 1], drawn[i]) /\ ReadOn(bs, drawn[i - 1], drawn[i])
      /\ drawn # <<>> => Opens(drawn[1], bs[1])
  BY <1>1 DEF DrawnFine
<1> HIDE DEF n
<1>4. ASSUME NEW i \in DOMAIN more PROVE OnPaper(more[i])
  <2>1. i \in 1..n \/ i = n + 1
    BY <1>1, <1>2
  <2> QED BY <1>2, <1>3, <2>1
<1>5. ASSUME NEW i \in 2..Len(more) PROVE Below(more[i - 1], more[i]) /\ ReadOn(bs, more[i - 1], more[i])
  <2>1. CASE i = n + 1
    <3>1. n \in 1..n /\ i - 1 = n /\ drawn # <<>>
      BY <1>1, <1>2, <2>1
    <3> QED BY <1>2, <2>1, <3>1 DEF n
  <2>2. CASE i # n + 1
    <3>1. i \in 2..n /\ i - 1 \in 1..n /\ i \in 1..n
      BY <1>1, <1>2, <2>2
    <3> QED BY <1>2, <1>3, <3>1
  <2> QED BY <2>1, <2>2
<1>6. Opens(more[1], bs[1])
  <2>1. CASE n = 0
    BY <1>1, <1>2, <2>1
  <2>2. CASE n # 0
    <3>1. 1 \in 1..n /\ drawn # <<>>
      BY <1>1, <2>2
    <3> QED BY <1>2, <1>3, <3>1
  <2> QED BY <2>1, <2>2
<1> QED BY <1>1, <1>2, <1>4, <1>5, <1>6 DEF DrawnFine, more

LEMMA LinesLeftAll ==
  ASSUME NEW b, b.lines \in Seq(Nat \ {0})
  PROVE  LinesLeft(b, 0, b.lines)
<1>1. /\ LinesUpto(b)[0] = 0 /\ Len(b.lines) \in Nat
      /\ \A k \in 1..Len(b.lines) :
           b.lines[k] \in Nat \ {0} /\ LinesUpto(b)[k] = LinesUpto(b)[k - 1] + b.lines[k]
  BY LinesUptoIs
<1>2. b.lines = <<>> => 0 = LineCount(b)
  BY LineCountIs
<1>3. ASSUME b.lines # <<>> PROVE b.lines[1] \in 1..b.lines[0 + 1] /\ 0 = LinesUpto(b)[0 + 1] - b.lines[1]
  <2>1. 1 \in 1..Len(b.lines)
    BY <1>3
  <2>2. b.lines[1] \in Nat \ {0} /\ LinesUpto(b)[1] = LinesUpto(b)[1 - 1] + b.lines[1]
    BY <1>1, <2>1
  <2> QED BY <1>1, <2>2
<1>4. 0 \in 0..Len(b.lines) /\ Len(b.lines) = Len(b.lines) - 0 /\ \A j \in 2..Len(b.lines) : b.lines[j] = b.lines[0 + j]
  BY <1>1
<1> QED BY <1>2, <1>3, <1>4 DEF LinesLeft

LEMMA LinesLeftNext ==
  ASSUME NEW b, b.lines \in Seq(Nat \ {0}), NEW left \in Seq(Nat \ {0}), left # <<>>,
         NEW m \in Nat, LinesLeft(b, m, left)
  PROVE  LET rest == IF Head(left) = 1 THEN Tail(left) ELSE [left EXCEPT ![1] = @ - 1]
         IN rest \in Seq(Nat \ {0}) /\ LinesLeft(b, m + 1, rest)
<1> DEFINE n == Len(b.lines)
           u == LinesUpto(b)
<1>1. PICK k \in 0..n :
        /\ Len(left) = n - k
        /\ left[1] \in 1..b.lines[k + 1] /\ m = u[k + 1] - left[1]
        /\ \A j \in 2..Len(left) : left[j] = b.lines[k + j]
  BY DEF LinesLeft
<1>2. /\ n \in Nat
      /\ \A i \in 1..n : u[i - 1] \in Nat /\ b.lines[i] \in Nat \ {0} /\ u[i] = u[i - 1] + b.lines[i]
  BY LinesUptoIs
<1>3. LineCount(b) = u[n]
  BY DEF LineCount
<1> HIDE DEF n, u
<1>4. Len(left) \in Nat \ {0} /\ DOMAIN left = 1..Len(left) /\ Head(left) = left[1]
  BY <1>1, <1>2
<1>5. k + 1 \in 1..n
  BY <1>1, <1>2, <1>4
<1>6. u[k + 1] \in Nat /\ b.lines[k + 1] \in Nat \ {0} /\ left[1] \in Nat \ {0}
  <2>1. ASSUME NEW i \in 1..n PROVE u[i] \in Nat
    <3>1. u[i - 1] \in Nat /\ b.lines[i] \in Nat
      BY <1>2
    <3>2. u[i] = u[i - 1] + b.lines[i]
      BY <1>2
    <3> QED BY <3>1, <3>2
  <2>2. b.lines[k + 1] \in Nat \ {0}
    BY <1>2, <1>5
  <2> QED BY <1>1, <1>5, <2>1, <2>2
<1>7. ASSUME Head(left) = 1 PROVE Tail(left) \in Seq(Nat \ {0}) /\ LinesLeft(b, m + 1, Tail(left))
  <2> DEFINE rest == Tail(left)
  <2>1. /\ rest \in Seq(Nat \ {0}) /\ Len(rest) = Len(left) - 1
        /\ \A j \in 1..Len(rest) : rest[j] = left[j + 1]
        /\ (rest = <<>> <=> Len(rest) = 0)
    <3>1. rest \in Seq(Nat \ {0}) /\ Len(rest) = Len(left) - 1
      BY <1>4
    <3>2. \A j \in 1..Len(left) - 1 : rest[j] = left[j + 1]
      BY <1>4
    <3> HIDE DEF rest
    <3>3. rest = <<>> <=> Len(rest) = 0
      BY <3>1, \A s \in Seq(Nat \ {0}) : s = <<>> <=> Len(s) = 0
    <3>4. \A j \in 1..Len(rest) : rest[j] = left[j + 1]
      BY <3>1, <3>2
    <3> QED BY <3>1, <3>3, <3>4
  <2> HIDE DEF rest
  <2>2. m + 1 = u[k + 1]
    BY <1>1, <1>4, <1>6, <1>7
  <2>3. Len(rest) = n - (k + 1) /\ k + 1 \in 0..n
    BY <1>1, <1>2, <1>4, <1>5, <2>1
  <2>4. rest = <<>> => m + 1 = LineCount(b)
    <3>1. rest = <<>> => k + 1 = n
      BY <1>2, <1>5, <2>1, <2>3
    <3> QED BY <1>3, <2>2, <3>1
  <2>5. ASSUME rest # <<>>
        PROVE  rest[1] \in 1..b.lines[k + 1 + 1] /\ m + 1 = u[k + 1 + 1] - rest[1]
    <3>1. k + 2 \in 1..n /\ 2 \in 2..Len(left) /\ 1 \in 1..Len(rest)
      <4>1. Len(rest) \in Nat \ {0} /\ Len(left) = Len(rest) + 1
        BY <1>4, <2>1, <2>5
      <4>2. k \in Nat
        BY <1>2
      <4> QED BY <1>1, <1>2, <4>1, <4>2
    <3>2. rest[1] = b.lines[k + 2]
      BY <1>1, <2>1, <3>1
    <3>3. u[k + 2 - 1] \in Nat /\ b.lines[k + 2] \in Nat \ {0} /\ u[k + 2] = u[k + 2 - 1] + b.lines[k + 2]
      BY <1>2, <3>1
    <3>4. k + 2 - 1 = k + 1 /\ k + 1 + 1 = k + 2
      BY <1>5
    <3>5. u[k + 2 - 1] = u[k + 1] /\ u[k + 1 + 1] = u[k + 2] /\ b.lines[k + 1 + 1] = b.lines[k + 2]
      BY <3>4
    <3>6. rest[1] \in 1..b.lines[k + 1 + 1]
      BY <3>2, <3>3, <3>5
    <3>7. u[k + 1 + 1] = u[k + 1] + rest[1]
      BY <3>2, <3>3, <3>5
    <3>8. rest[1] \in Nat
      BY <3>2, <3>3
    <3> QED BY <1>6, <2>2, <3>6, <3>7, <3>8
  <2>6. ASSUME NEW j \in 2..Len(rest) PROVE rest[j] = b.lines[k + 1 + j]
    <3>1. j \in 1..Len(rest) /\ j + 1 \in 2..Len(left) /\ k + (j + 1) = k + 1 + j
      BY <1>4, <1>5, <2>1
    <3>2. rest[j] = left[j + 1] /\ left[j + 1] = b.lines[k + (j + 1)]
      BY <1>1, <2>1, <3>1
    <3> QED BY <3>1, <3>2
  <2> QED BY <2>1, <2>3, <2>4, <2>5, <2>6 DEF LinesLeft, n, u, rest
<1>8. ASSUME Head(left) # 1
      PROVE  LET rest == [left EXCEPT ![1] = @ - 1] IN rest \in Seq(Nat \ {0}) /\ LinesLeft(b, m + 1, rest)
  <2> DEFINE rest == [left EXCEPT ![1] = @ - 1]
  <2>1. 1 \in DOMAIN left /\ left[1] - 1 \in Nat \ {0} /\ \A j \in 1..Len(left) : left[j] \in Nat \ {0}
    BY <1>4, <1>6, <1>8
  <2>2. /\ rest = [j \in 1..Len(left) |-> IF j = 1 THEN left[1] - 1 ELSE left[j]]
    BY <1>4
  <2>3. /\ rest \in Seq(Nat \ {0}) /\ Len(rest) = Len(left) /\ rest # <<>>
        /\ rest[1] = left[1] - 1 /\ \A j \in 2..Len(left) : rest[j] = left[j]
    <3> HIDE DEF rest
    <3>1. rest \in Seq(Nat \ {0}) /\ Len(rest) = Len(left)
      BY <1>4, <2>1, <2>2
    <3>2. 1 \in 1..Len(left) /\ \A j \in 2..Len(left) : j \in 1..Len(left) /\ j # 1
      BY <1>4
    <3> QED BY <1>4, <2>2, <3>1, <3>2
  <2> HIDE DEF rest
  <2>4. rest[1] \in 1..b.lines[k + 1] /\ m + 1 = u[k + 1] - rest[1]
    BY <1>1, <1>6, <2>1, <2>3
  <2>5. \A j \in 2..Len(rest) : rest[j] = b.lines[k + j]
    BY <1>1, <2>3
  <2>6. LinesLeft(b, m + 1, rest)
    BY <1>1, <2>3, <2>4, <2>5 DEF LinesLeft, n, u
  <2> QED BY <2>3, <2>6 DEF rest
<1> QED BY <1>7, <1>8

(* A heading is put where it and a line under it have room. *)
LEMMA HeadFits ==
  ASSUME NEW b \in FineBlock, NEW y0 \in Int, NEW y,
         y = (IF b.opens \/ TooLow(b, y0) THEN Top ELSE y0) - Preface(b)
  PROVE  /\ y \in Int /\ HeadHeight(b) \in Int
         /\ ~(b.opens \/ TooLow(b, y0)) => y = y0
         /\ HasHead(b) => /\ y - HeadHeight(b) >= 640
                          /\ b.lines # <<>> => y - HeadHeight(b) >= LineHeight(b.kind) + Foot(b.kind)
         /\ ~HasHead(b) => HeadHeight(b) = 0 /\ ~TooLow(b, y0) /\ (b.opens => y = Top - Preface(b))
<1>1. /\ b.kind \in {"planet", "house", "aspect", "none", "title", "paragraph"} /\ b.opens \in BOOLEAN /\ b.wide \in BOOLEAN
      /\ b.kind \in {"planet", "none"} => b.opens
      /\ b.kind \in {"title", "none"} => b.lines = <<>>
  BY DEF FineBlock
<1> USE DEF HasHead, HeadHeight, TooLow, Preface, LineHeight, Foot, Top
<1>2. CASE b.kind = "planet"
  BY <1>1, <1>2
<1>3. CASE b.kind = "house"
  BY <1>1, <1>3
<1>4. CASE b.kind = "aspect"
  BY <1>1, <1>4
<1>5. CASE b.kind = "none"
  BY <1>1, <1>5
<1>6. CASE b.kind = "title"
  BY <1>1, <1>6
<1>7. CASE b.kind = "paragraph"
  BY <1>1, <1>7
<1> QED BY <1>1, <1>2, <1>3, <1>4, <1>5, <1>6, <1>7

LEMMA BlockAtWork ==
  ASSUME PpTypes, ppBlocks # <<>>
  PROVE  /\ PpDone \in Nat /\ PpDone + 1 \in 1..Len(PpBs) /\ ppBlocks[1] = PpBs[PpDone + 1]
         /\ PpBlock = ppBlocks[1] /\ ppBlocks[1] \in FineBlock /\ FineBlocks(PpBs)
         /\ Len(PpBs) \in Nat /\ Len(ppBlocks) \in Nat \ {0}
<1>1. FineBlocks(PpBs)
  BY BlocksAreFine DEF PpTypes, PpBs
<1>2. ppBlocks \in Seq(FineBlock) /\ Len(ppBlocks) \in Nat \ {0} /\ Len(PpBs) \in Nat /\ Len(ppBlocks) <= Len(PpBs)
  BY <1>1 DEF PpTypes, FineBlocks
<1>3. 1 \in DOMAIN ppBlocks /\ ppBlocks[1] \in FineBlock /\ PpBlock = ppBlocks[1]
  BY <1>2 DEF PpBlock
<1>4. PpDone \in Nat /\ PpDone + 1 \in 1..Len(PpBs)
  BY <1>2 DEF PpDone
<1>5. ppBlocks[1] = PpBs[PpDone + 1]
  BY <1>3 DEF PpTypes
<1> QED BY <1>1, <1>2, <1>3, <1>4, <1>5

(* Of a block that none of the reading's paragraphs is, the last line drawn before
   it is the last line of the block before it. *)
LEMMA AfterTheLast ==
  ASSUME PpTypes, ppBlocks # <<>>, DrawnUpto(ppDrawn, PpBs, PpDone), DrawnFine(ppDrawn, PpBs),
         NEW e, Opens(e, PpBs[PpDone + 1])
  PROVE  /\ ppDrawn = <<>> => Opens(e, PpBs[1])
         /\ ppDrawn # <<>> =>
              /\ ReadOn(PpBs, ppDrawn[Len(ppDrawn)], e)
              /\ ppDrawn[Len(ppDrawn)].line = 0 => ppDrawn[Len(ppDrawn)].block.lines = <<>>
              /\ PpDone \in 1..Len(PpBs) - 1 /\ ppDrawn[Len(ppDrawn)].block = PpBs[PpDone]
<1> DEFINE n == PpDone
           d == ppDrawn[Len(ppDrawn)]
<1>1. n \in Nat /\ n + 1 \in 1..Len(PpBs) /\ Len(PpBs) \in Nat
  BY BlockAtWork
<1>2. FineBlocks(PpBs)
  BY BlockAtWork
<1>3. ppDrawn = <<>> => n = 0
  BY DEF DrawnUpto
<1>4. ASSUME ppDrawn # <<>> PROVE n \in 1..Len(PpBs) - 1 /\ Closes(d, PpBs[n])
  <2>1. n # 0 /\ Closes(d, PpBs[n])
    BY <1>4 DEF DrawnUpto
  <2> QED BY <1>1, <2>1
<1>5. ASSUME ppDrawn # <<>> PROVE d.block = PpBs[n] /\ (d.line = 0 => d.block.lines = <<>>)
  <2>1. d.block = PpBs[n] /\ d.line = LineCount(PpBs[n])
    BY <1>4, <1>5 DEF Closes
  <2>2. PpBs[n] \in FineBlock
    BY <1>1, <1>2, <1>4, <1>5 DEF FineBlocks
  <2>3. PpBs[n].lines \in Seq(Nat \ {0})
    BY <2>2 DEF FineBlock
  <2> QED BY <2>1, <2>3, LineCountIs
<1> HIDE DEF d
<1>6. ASSUME ppDrawn # <<>> PROVE ReadOn(PpBs, d, e)
  BY <1>4, <1>6 DEF ReadOn
<1>7. ppDrawn = <<>> => Opens(e, PpBs[1])
  BY <1>3
<1> QED BY <1>4, <1>5, <1>6, <1>7 DEF d

LEMMA BeginBlockKeeps == PpInv /\ BeginBlock => PpInv'
<1> SUFFICES ASSUME PpInv, BeginBlock PROVE PpInv'
  OBVIOUS
<1> DEFINE b == ppBlocks[1]
           n == PpDone
           bs == PpBs
           d == ppDrawn[Len(ppDrawn)]
           turn == b.opens \/ TooLow(b, ppY)
           page == IF turn THEN ppPage + 1 ELSE ppPage
           y == (IF turn THEN Top ELSE ppY) - Preface(b)
           e == [block |-> b, line |-> 0, page |-> page, y |-> y]
<1>1. PpTypes /\ DrawnFine(ppDrawn, bs) /\ ppBlocks # <<>> /\ ~ppHeaded
  BY DEF PpInv, BeginBlock
<1>2. DrawnUpto(ppDrawn, bs, n) /\ CursorUnder(ppDrawn, ppPage, ppY)
  BY <1>1 DEF PpInv
<1>3. /\ n \in Nat /\ n + 1 \in 1..Len(bs) /\ b = bs[n + 1] /\ PpBlock = b /\ b \in FineBlock
  BY <1>1, BlockAtWork
<1>4. /\ ppPage' = page /\ ppY' = y - HeadHeight(b)
      /\ ppDrawn' = IF HasHead(b) THEN Append(ppDrawn, e) ELSE ppDrawn
      /\ ppHeaded' = TRUE /\ ppLines' = b.lines
      /\ ppChart' = ppChart /\ ppBlocks' = ppBlocks
  BY <1>3 DEF BeginBlock, Drawn
<1>5. ppY \in Int /\ ppPage \in Int
  BY <1>1 DEF PpTypes
<1>6. b.lines \in Seq(Nat \ {0}) /\ b.opens \in BOOLEAN
  BY <1>3 DEF FineBlock
<1>7. /\ y \in Int /\ HeadHeight(b) \in Int
      /\ ~turn => y = ppY
      /\ HasHead(b) => /\ y - HeadHeight(b) >= 640
                       /\ b.lines # <<>> => y - HeadHeight(b) >= LineHeight(b.kind) + Foot(b.kind)
      /\ ~HasHead(b) => HeadHeight(b) = 0 /\ ~TooLow(b, ppY) /\ (b.opens => y = Top - Preface(b))
  BY <1>3, <1>5, HeadFits
<1>8. page \in Int /\ (turn => page = ppPage + 1) /\ (~turn => page = ppPage)
  BY <1>5
<1>9. /\ e.block = b /\ e.line = 0 /\ e.page = page /\ e.y = y /\ e \in PpEntry
  BY <1>3, <1>7, <1>8 DEF PpEntry
<1> HIDE DEF y, page, e, turn, d
<1>10. bs' = bs /\ n' = n /\ b' = b
  BY <1>4 DEF PpBs, PpDone
<1>11. PpTypes'
  <2>1. (ppPage \in Int)' /\ (ppY \in Int)' /\ (ppHeaded \in BOOLEAN)' /\ (ppLines \in Seq(Nat \ {0}))'
    BY <1>4, <1>6, <1>7, <1>8
  <2>2. (ppChart \in PpCharts /\ ppBlocks \in Seq(FineBlock) /\ Len(ppBlocks) <= Len(PpBs))'
    BY <1>1, <1>4, <1>10 DEF PpTypes
  <2>3. (\A j \in DOMAIN ppBlocks : ppBlocks[j] = PpBs[PpDone + j])'
    BY <1>1, <1>4, <1>10 DEF PpTypes
  <2> QED BY <2>1, <2>2, <2>3 DEF PpTypes
<1>12. CASE HasHead(b)
  <2>1. Opens(e, bs[n + 1])
    BY <1>3, <1>9, <1>12 DEF Opens, FirstLine
  <2>2. /\ ppDrawn = <<>> => Opens(e, bs[1])
        /\ ppDrawn # <<>> => ReadOn(bs, d, e) /\ (d.line = 0 => d.block.lines = <<>>)
    BY <1>1, <1>2, <2>1, AfterTheLast DEF d
  <2>3. OnPaper(e)
    BY <1>7, <1>9, <1>12 DEF OnPaper, Height
  <2>4. ASSUME ppDrawn # <<>> PROVE Below(d, e)
    <3>1. ppPage = d.page /\ ppY + Height(d) <= d.y
      BY <1>2, <2>4 DEF CursorUnder, d
    <3>2. CASE turn
      BY <1>8, <1>9, <2>2, <2>4, <3>1, <3>2 DEF Below
    <3>3. CASE ~turn
      BY <1>7, <1>8, <1>9, <3>1, <3>3 DEF Below
    <3> QED BY <3>2, <3>3
  <2>5. /\ DrawnFine(Append(ppDrawn, e), bs) /\ Append(ppDrawn, e) # <<>>
        /\ Append(ppDrawn, e)[Len(Append(ppDrawn, e))] = e
    BY <1>1, <1>9, <2>2, <2>3, <2>4, DrawnMore DEF d
  <2>6. ppDrawn' = Append(ppDrawn, e)
    BY <1>4, <1>12
  <2> DEFINE more == Append(ppDrawn, e)
  <2>7. more # <<>> /\ more[Len(more)] = e /\ ppDrawn' = more
    BY <2>5, <2>6
  <2> HIDE DEF more
  <2>8. CursorUnder(more, ppPage', ppY')
    BY <1>4, <1>7, <1>9, <2>7 DEF CursorUnder, Height
  <2>9. LinesLeft(b, 0, b.lines)
    BY <1>6, LinesLeftAll
  <2>10. RoomUnder(b, 0, b.lines, ppY')
    BY <1>4, <1>7, <1>12 DEF RoomUnder
  <2>11. Begun(more, b, b.lines, ppPage', ppY')
    BY <1>9, <2>7, <2>8, <2>9, <2>10 DEF Begun
  <2>12. Begun(ppDrawn, ppBlocks[1], ppLines, ppPage, ppY)'
    BY <1>4, <1>10, <2>7, <2>11
  <2>13. DrawnFine(ppDrawn, PpBs)'
    BY <1>10, <2>5, <2>6
  <2> QED BY <1>1, <1>4, <1>11, <2>12, <2>13 DEF PpInv
<1>13. CASE ~HasHead(b)
  <2>1. ppDrawn' = ppDrawn /\ ppY' = y
    BY <1>4, <1>7, <1>13
  <2>2. turn <=> b.opens
    BY <1>7, <1>13 DEF turn
  <2>3. CASE b.opens
    <3>1. CursorFresh(ppDrawn, b, ppPage', ppY')
      <4>1. ppDrawn # <<>> => ppPage = d.page
        BY <1>2 DEF CursorUnder, d
      <4>2. ppPage' = ppPage + 1 /\ ppY' = Top - Preface(b)
        BY <1>4, <1>7, <1>8, <1>13, <2>1, <2>2, <2>3
      <4> QED BY <4>1, <4>2 DEF CursorFresh, d
    <3>2. Unbegun(ppDrawn, bs, n, b, b.lines, ppPage', ppY')
      BY <1>2, <1>13, <2>3, <3>1 DEF Unbegun
    <3>3. Unbegun(ppDrawn, PpBs, PpDone, ppBlocks[1], ppLines, ppPage, ppY)'
      BY <1>4, <1>10, <2>1, <3>2
    <3>4. DrawnFine(ppDrawn, PpBs)'
      BY <1>1, <1>10, <2>1
    <3> QED BY <1>1, <1>4, <1>11, <3>3, <3>4 DEF PpInv
  <2>4. CASE ~b.opens
    <3>1. CursorUnder(ppDrawn, ppPage', ppY')
      BY <1>2, <1>4, <1>7, <1>8, <2>1, <2>2, <2>4
    <3>2. Unbegun(ppDrawn, bs, n, b, b.lines, ppPage', ppY')
      BY <1>2, <1>13, <2>4, <3>1 DEF Unbegun
    <3>3. Unbegun(ppDrawn, PpBs, PpDone, ppBlocks[1], ppLines, ppPage, ppY)'
      BY <1>4, <1>10, <2>1, <3>2
    <3>4. DrawnFine(ppDrawn, PpBs)'
      BY <1>1, <1>10, <2>1
    <3> QED BY <1>1, <1>4, <1>11, <3>3, <3>4 DEF PpInv
  <2> QED BY <2>3, <2>4
<1> QED BY <1>12, <1>13

(* What a line takes. *)
LEMMA LineFits ==
  ASSUME NEW b \in FineBlock, NEW y \in Int
  PROVE  /\ LineHeight(b.kind) \in Int /\ Foot(b.kind) \in Int /\ Top \in Int /\ Preface(b) \in Int
         /\ Top - LineHeight(b.kind) >= 640 /\ Top - Preface(b) >= LineHeight(b.kind) + Foot(b.kind)
         /\ y >= LineHeight(b.kind) + Foot(b.kind) => y - LineHeight(b.kind) >= 640
         /\ (LineHeight(b.kind) * 55) \div 100 \in Nat
<1>1. /\ b.kind \in {"planet", "house", "aspect", "none", "title", "paragraph"} /\ b.opens \in BOOLEAN
  BY DEF FineBlock
<1>2. /\ Foot(b.kind) \in {820, 720} /\ Top = 6668
      /\ LineHeight(b.kind) \in {143, 150, 170, 155}
      /\ Preface(b) \in {580, 290, 0}
  BY <1>1 DEF Foot, Top, LineHeight, Preface
<1>3. (143 * 55) \div 100 = 78 /\ (150 * 55) \div 100 = 82 /\ (170 * 55) \div 100 = 93 /\ (155 * 55) \div 100 = 85
  OBVIOUS
<1>4. (LineHeight(b.kind) * 55) \div 100 \in {78, 82, 93, 85}
  BY <1>2, <1>3
<1> DEFINE more == (LineHeight(b.kind) * 55) \div 100
           lh == LineHeight(b.kind)
           foot == Foot(b.kind)
           head == Preface(b)
<1>5. more \in {78, 82, 93, 85} /\ lh \in {143, 150, 170, 155} /\ foot \in {820, 720} /\ head \in {580, 290, 0}
  BY <1>2, <1>4
<1> HIDE DEF more, lh, foot, head
<1>6. /\ lh \in Int /\ foot \in Int /\ Top \in Int /\ head \in Int /\ more \in Nat
      /\ Top - lh >= 640 /\ Top - head >= lh + foot
      /\ y >= lh + foot => y - lh >= 640
  BY <1>2, <1>5
<1> QED BY <1>6 DEF more, lh, foot, head

LEMMA DrawLineKeeps == PpInv /\ DrawLine => PpInv'
<1> SUFFICES ASSUME PpInv, DrawLine PROVE PpInv'
  OBVIOUS
<1> DEFINE b == ppBlocks[1]
           n == PpDone
           bs == PpBs
           d == ppDrawn[Len(ppDrawn)]
           lh == LineHeight(b.kind)
           turn == ppY < lh + Foot(b.kind)
           page == IF turn THEN ppPage + 1 ELSE ppPage
           y == IF turn THEN Top ELSE ppY
           line == IF ppDrawn # <<>> /\ Last(ppDrawn).block = b THEN Last(ppDrawn).line + 1 ELSE 1
           e == [block |-> b, line |-> line, page |-> page, y |-> y]
           rest == IF Head(ppLines) = 1 THEN Tail(ppLines) ELSE [ppLines EXCEPT ![1] = @ - 1]
<1>1. PpTypes /\ DrawnFine(ppDrawn, bs) /\ ppBlocks # <<>> /\ ppHeaded /\ ppLines # <<>>
  BY DEF PpInv, DrawLine
<1>2. \/ Unbegun(ppDrawn, bs, n, b, ppLines, ppPage, ppY)
      \/ Begun(ppDrawn, b, ppLines, ppPage, ppY)
  BY <1>1 DEF PpInv
<1>3. /\ n \in Nat /\ n + 1 \in 1..Len(bs) /\ b = bs[n + 1] /\ PpBlock = b /\ b \in FineBlock /\ FineBlocks(bs)
  BY <1>1, BlockAtWork
<1>4. /\ ppPage' = page
      /\ ppY' = y - lh - (IF Head(ppLines) = 1 THEN (lh * 55) \div 100 ELSE 0)
      /\ ppDrawn' = Append(ppDrawn, e) /\ ppLines' = rest
      /\ ppChart' = ppChart /\ ppBlocks' = ppBlocks /\ ppHeaded' = ppHeaded
  BY <1>3 DEF DrawLine, Drawn
<1>5. ppY \in Int /\ ppPage \in Int /\ ppLines \in Seq(Nat \ {0}) /\ ppHeaded \in BOOLEAN
  BY <1>1 DEF PpTypes
<1>6. b.lines \in Seq(Nat \ {0}) /\ b.opens \in BOOLEAN
  BY <1>3 DEF FineBlock
<1>7. /\ lh \in Int /\ Foot(b.kind) \in Int /\ Top \in Int /\ Preface(b) \in Int
      /\ Top - lh >= 640 /\ Top - Preface(b) >= lh + Foot(b.kind)
      /\ ppY >= lh + Foot(b.kind) => ppY - lh >= 640
      /\ (lh * 55) \div 100 \in Nat
  BY <1>3, <1>5, LineFits
<1>8. /\ y \in Int /\ page \in Int
      /\ turn => page = ppPage + 1
      /\ ~turn => page = ppPage /\ y = ppY
      /\ y - lh >= 640
  <2> DEFINE foot == Foot(b.kind)
  <2>1. /\ lh \in Int /\ foot \in Int /\ Top \in Int /\ Top - lh >= 640
        /\ ppY >= lh + foot => ppY - lh >= 640
    BY <1>7
  <2>2. turn <=> ppY < lh + foot
    OBVIOUS
  <2> HIDE DEF lh, foot, turn
  <2>3. CASE turn
    BY <1>5, <2>1, <2>3
  <2>4. CASE ~turn
    BY <1>5, <2>1, <2>2, <2>4
  <2> QED BY <2>3, <2>4
<1>9. ppY' \in Int /\ ppY' + lh <= y
  <2> DEFINE more == (lh * 55) \div 100
  <2>1. more \in Nat /\ lh \in Int /\ y \in Int
    BY <1>7, <1>8
  <2>2. ppY' = y - lh - (IF Head(ppLines) = 1 THEN more ELSE 0)
    BY <1>4
  <2> HIDE DEF y, lh, more
  <2> QED BY <2>1, <2>2
<1>10. ppDrawn \in Seq(PpEntry) /\ (ppDrawn # <<>> => d \in PpEntry /\ Last(ppDrawn) = d)
  BY <1>1 DEF DrawnFine, Last
<1>11. ppDrawn # <<>> => d.line \in Nat /\ d.block \in FineBlock
  BY <1>10 DEF PpEntry
<1>12. bs' = bs /\ n' = n /\ b' = b
  BY <1>4 DEF PpBs, PpDone
<1> HIDE DEF d, turn, page, y
<1>13. line \in Nat \ {0} /\ line = IF ppDrawn # <<>> /\ d.block = b THEN d.line + 1 ELSE 1
  BY <1>10, <1>11
<1> HIDE DEF line
<1>14. /\ e.block = b /\ e.line = line /\ e.page = page /\ e.y = y /\ e \in PpEntry
  BY <1>3, <1>8, <1>13 DEF PpEntry
<1> HIDE DEF e, rest
<1>15. Height(e) = lh /\ OnPaper(e)
  <2>1. Height(e) = lh
    BY <1>13, <1>14 DEF Height
  <2> HIDE DEF lh
  <2> QED BY <1>8, <1>14, <2>1 DEF OnPaper
<1> HIDE DEF lh
<1>16. /\ ppDrawn = <<>> => Opens(e, bs[1])
       /\ ppDrawn # <<>> => Below(d, e) /\ ReadOn(bs, d, e)
       /\ rest \in Seq(Nat \ {0}) /\ LinesLeft(b, line, rest)
  <2>1. CASE Unbegun(ppDrawn, bs, n, b, ppLines, ppPage, ppY)
    <3>1. /\ DrawnUpto(ppDrawn, bs, n) /\ ~HasHead(b) /\ ppLines = b.lines
          /\ b.opens => CursorFresh(ppDrawn, b, ppPage, ppY)
          /\ ~b.opens => CursorUnder(ppDrawn, ppPage, ppY)
      BY <2>1 DEF Unbegun
    <3>2. line = 1
      <4>1. ASSUME ppDrawn # <<>>, d.block = b PROVE FALSE
        <5>1. n # 0 /\ d.block = bs[n]
          BY <3>1, <4>1 DEF DrawnUpto, Closes, d
        <5>2. n \in 1..Len(bs) - 1
          BY <1>3, <5>1
        <5>3. bs[n + 1].kind = "paragraph"
          BY <1>3, <3>1 DEF HasHead
        <5> QED BY <1>3, <4>1, <5>1, <5>2, <5>3 DEF FineBlocks
      <4> QED BY <1>13, <4>1
    <3>3. Opens(e, bs[n + 1])
      BY <1>3, <1>14, <3>1, <3>2 DEF Opens, FirstLine
    <3>4. /\ ppDrawn = <<>> => Opens(e, bs[1])
          /\ ppDrawn # <<>> => ReadOn(bs, d, e) /\ (d.line = 0 => d.block.lines = <<>>)
      BY <1>1, <3>1, <3>3, AfterTheLast DEF d
    <3>5. ASSUME ppDrawn # <<>> PROVE Below(d, e)
      <4>1. CASE b.opens
        <5>1. ppPage = d.page + 1 /\ ppY = Top - Preface(b)
          BY <3>1, <3>5, <4>1 DEF CursorFresh, d
        <5>2. ~turn
          BY <1>7, <3>1, <5>1 DEF turn, lh
        <5> QED BY <1>8, <1>14, <3>4, <3>5, <5>1, <5>2 DEF Below
      <4>2. CASE ~b.opens
        <5>1. ppPage = d.page /\ ppY + Height(d) <= d.y
          BY <3>1, <3>5, <4>2 DEF CursorUnder, d
        <5>2. CASE turn
          BY <1>8, <1>14, <3>4, <3>5, <5>1, <5>2 DEF Below
        <5>3. CASE ~turn
          BY <1>8, <1>14, <5>1, <5>3 DEF Below
        <5> QED BY <5>2, <5>3
      <4> QED BY <4>1, <4>2
    <3>6. LinesLeft(b, 0, ppLines)
      BY <1>6, <3>1, LinesLeftAll
    <3>7. rest \in Seq(Nat \ {0}) /\ LinesLeft(b, 0 + 1, rest)
      BY <1>1, <1>5, <1>6, <3>6, LinesLeftNext DEF rest
    <3> QED BY <3>2, <3>4, <3>5, <3>7
  <2>2. CASE Begun(ppDrawn, b, ppLines, ppPage, ppY)
    <3>1. /\ ppDrawn # <<>> /\ CursorUnder(ppDrawn, ppPage, ppY) /\ d.block = b
          /\ LinesLeft(b, d.line, ppLines) /\ RoomUnder(b, d.line, ppLines, ppY)
      BY <2>2 DEF Begun, d
    <3>2. line = d.line + 1 /\ d.line \in Nat
      BY <1>11, <1>13, <3>1
    <3>3. ReadOn(bs, d, e)
      BY <1>14, <3>1, <3>2 DEF ReadOn
    <3>4. d.line = 0 => ~turn
      <4>1. d.line = 0 => ppY >= lh + Foot(b.kind)
        BY <1>1, <3>1 DEF RoomUnder, lh
      <4> QED BY <1>5, <1>7, <4>1 DEF turn
    <3>5. ppPage = d.page /\ ppY + Height(d) <= d.y
      BY <3>1 DEF CursorUnder, d
    <3>6. Below(d, e)
      <4>1. CASE turn
        BY <1>8, <1>14, <3>4, <3>5, <4>1 DEF Below
      <4>2. CASE ~turn
        BY <1>8, <1>14, <3>5, <4>2 DEF Below
      <4> QED BY <4>1, <4>2
    <3>7. rest \in Seq(Nat \ {0}) /\ LinesLeft(b, d.line + 1, rest)
      BY <1>1, <1>5, <1>6, <3>1, <3>2, LinesLeftNext DEF rest
    <3> QED BY <3>1, <3>2, <3>3, <3>6, <3>7
  <2> QED BY <1>2, <2>1, <2>2
<1>17. /\ DrawnFine(Append(ppDrawn, e), bs) /\ Append(ppDrawn, e) # <<>>
       /\ Append(ppDrawn, e)[Len(Append(ppDrawn, e))] = e
  BY <1>1, <1>14, <1>15, <1>16, DrawnMore DEF d
<1> DEFINE more == Append(ppDrawn, e)
<1>18. more # <<>> /\ more[Len(more)] = e /\ ppDrawn' = more /\ DrawnFine(more, bs)
  BY <1>4, <1>17
<1> HIDE DEF more
<1>19. CursorUnder(more, ppPage', ppY')
  BY <1>4, <1>9, <1>14, <1>15, <1>18 DEF CursorUnder
<1>20. RoomUnder(b, line, rest, ppY')
  BY <1>13 DEF RoomUnder
<1>21. Begun(more, b, rest, ppPage', ppY')
  BY <1>14, <1>16, <1>18, <1>19, <1>20 DEF Begun
<1>22. Begun(ppDrawn, ppBlocks[1], ppLines, ppPage, ppY)'
  BY <1>4, <1>12, <1>18, <1>21
<1>23. PpTypes'
  <2>1. (ppPage \in Int)' /\ (ppY \in Int)' /\ (ppHeaded \in BOOLEAN)' /\ (ppLines \in Seq(Nat \ {0}))'
    BY <1>4, <1>5, <1>8, <1>9, <1>16
  <2>2. (ppChart \in PpCharts /\ ppBlocks \in Seq(FineBlock) /\ Len(ppBlocks) <= Len(PpBs))'
    BY <1>1, <1>4, <1>12 DEF PpTypes
  <2>3. (\A j \in DOMAIN ppBlocks : ppBlocks[j] = PpBs[PpDone + j])'
    BY <1>1, <1>4, <1>12 DEF PpTypes
  <2> QED BY <2>1, <2>2, <2>3 DEF PpTypes
<1>24. DrawnFine(ppDrawn, PpBs)'
  BY <1>12, <1>18
<1> QED BY <1>1, <1>4, <1>22, <1>23, <1>24 DEF PpInv

LEMMA EndKeeps == PpInv /\ End => PpInv'
<1> SUFFICES ASSUME PpInv, End PROVE PpInv'
  OBVIOUS
<1> DEFINE b == ppBlocks[1]
           n == PpDone
           bs == PpBs
           d == ppDrawn[Len(ppDrawn)]
<1>1. PpTypes /\ DrawnFine(ppDrawn, bs) /\ ppBlocks # <<>> /\ ppHeaded /\ ppLines = <<>>
  BY DEF PpInv, End
<1>2. \/ Unbegun(ppDrawn, bs, n, b, ppLines, ppPage, ppY)
      \/ Begun(ppDrawn, b, ppLines, ppPage, ppY)
  BY <1>1 DEF PpInv
<1>3. /\ n \in Nat /\ n + 1 \in 1..Len(bs) /\ b = bs[n + 1] /\ PpBlock = b /\ b \in FineBlock
      /\ Len(bs) \in Nat /\ Len(ppBlocks) \in Nat \ {0}
  BY <1>1, BlockAtWork
<1>4. /\ ppBlocks' = Tail(ppBlocks) /\ ppHeaded' = FALSE /\ ppY' = ppY - After(b.kind)
      /\ ppChart' = ppChart /\ ppLines' = ppLines /\ ppPage' = ppPage /\ ppDrawn' = ppDrawn
  BY <1>3 DEF End
<1>5. /\ ppY \in Int /\ ppPage \in Int /\ ppBlocks \in Seq(FineBlock) /\ Len(ppBlocks) <= Len(bs)
      /\ \A j \in DOMAIN ppBlocks : ppBlocks[j] = bs[n + j]
      /\ ppChart \in PpCharts /\ ppLines \in Seq(Nat \ {0})
  BY <1>1 DEF PpTypes
<1>6. Begun(ppDrawn, b, ppLines, ppPage, ppY)
  <2>1. b.lines = <<>> => HasHead(b)
    BY <1>3 DEF FineBlock, HasHead
  <2> QED BY <1>1, <1>2, <2>1 DEF Unbegun
<1>7. /\ ppDrawn # <<>> /\ CursorUnder(ppDrawn, ppPage, ppY) /\ d.block = b /\ d.line = LineCount(b)
  BY <1>1, <1>6 DEF Begun, LinesLeft
<1>8. bs' = bs /\ n' = n + 1
  <2>1. Len(Tail(ppBlocks)) = Len(ppBlocks) - 1
    BY <1>3, <1>5
  <2>2. bs' = bs
    BY <1>4 DEF PpBs
  <2> HIDE DEF bs
  <2>3. n' = Len(bs') - Len(ppBlocks') /\ n = Len(bs) - Len(ppBlocks)
    BY DEF PpDone, bs
  <2> HIDE DEF n
  <2> QED BY <1>3, <1>4, <2>1, <2>2, <2>3
<1>9. DrawnUpto(ppDrawn, bs, n + 1)
  BY <1>3, <1>7 DEF DrawnUpto, Closes
<1>10. After(b.kind) \in Nat
  BY <1>3 DEF After, FineBlock
<1>11. CursorUnder(ppDrawn, ppPage, ppY - After(b.kind))
  <2>1. ppPage = d.page /\ ppY + Height(d) <= d.y
    BY <1>7 DEF CursorUnder
  <2>2. d \in PpEntry
    BY <1>1, <1>7 DEF DrawnFine
  <2>3. d.y \in Int /\ Height(d) \in Int
    <3>1. d.y \in Int /\ d.block \in FineBlock
      BY <2>2 DEF PpEntry
    <3>2. HeadHeight(d.block) \in Int /\ LineHeight(d.block.kind) \in Int
      BY <3>1 DEF FineBlock, HeadHeight, LineHeight
    <3> QED BY <3>1, <3>2 DEF Height
  <2> HIDE DEF d
  <2>4. ppY - After(b.kind) + Height(d) <= d.y
    BY <1>5, <1>10, <2>1, <2>3
  <2> QED BY <2>1, <2>4 DEF CursorUnder, d
<1>12. PpTypes'
  <2> DEFINE tail == Tail(ppBlocks)
  <2>1. tail \in Seq(FineBlock) /\ Len(tail) = Len(ppBlocks) - 1
    BY <1>3, <1>5
  <2>2. \A j \in 1..Len(ppBlocks) - 1 : tail[j] = ppBlocks[j + 1]
    BY <1>3, <1>5
  <2> HIDE DEF tail, n, bs
  <2>3. ASSUME NEW j \in DOMAIN tail PROVE tail[j] = bs[n + 1 + j]
    <3>1. j \in 1..Len(ppBlocks) - 1 /\ j + 1 \in DOMAIN ppBlocks /\ n + (j + 1) = n + 1 + j
      <4>1. j \in 1..Len(ppBlocks) - 1
        BY <2>1
      <4>2. DOMAIN ppBlocks = 1..Len(ppBlocks)
        BY <1>5
      <4> QED BY <1>3, <4>1, <4>2
    <3>2. tail[j] = ppBlocks[j + 1] /\ ppBlocks[j + 1] = bs[n + (j + 1)]
      BY <1>5, <2>2, <3>1
    <3> QED BY <3>1, <3>2
  <2>4. ppBlocks' = tail
    BY <1>4 DEF tail
  <2>5. (\A j \in DOMAIN ppBlocks : ppBlocks[j] = PpBs[PpDone + j])'
    BY <1>8, <2>3, <2>4 DEF n, bs
  <2>6. (ppChart \in PpCharts /\ ppBlocks \in Seq(FineBlock) /\ ppLines \in Seq(Nat \ {0}))'
    BY <1>4, <1>5, <2>1, <2>4
  <2>7. (Len(ppBlocks) <= Len(PpBs))'
    BY <1>3, <1>5, <1>8, <2>1, <2>4 DEF bs
  <2>8. (ppHeaded \in BOOLEAN /\ ppPage \in Int /\ ppY \in Int)'
    <3>1. ppY - After(b.kind) \in Int
      BY <1>5, <1>10
    <3>2. ppHeaded' \in BOOLEAN
      BY <1>4
    <3> QED BY <1>4, <1>5, <3>1, <3>2
  <2> QED BY <2>5, <2>6, <2>7, <2>8 DEF PpTypes
<1>13. (DrawnUpto(ppDrawn, PpBs, PpDone) /\ CursorUnder(ppDrawn, ppPage, ppY))'
  BY <1>4, <1>8, <1>9, <1>11
<1>14. DrawnFine(ppDrawn, PpBs)'
  BY <1>1, <1>4, <1>8
<1> QED BY <1>4, <1>12, <1>13, <1>14 DEF PpInv

LEMMA PpInvNext == PpInv /\ [PpNext]_ppVars => PpInv'
<1> SUFFICES ASSUME PpInv, [PpNext]_ppVars PROVE PpInv'
  OBVIOUS
<1>1. CASE BeginBlock
  BY <1>1, BeginBlockKeeps
<1>2. CASE DrawLine
  BY <1>2, DrawLineKeeps
<1>3. CASE End
  BY <1>3, EndKeeps
<1>4. CASE UNCHANGED ppVars
  <2>1. /\ ppChart' = ppChart /\ ppBlocks' = ppBlocks /\ ppHeaded' = ppHeaded /\ ppLines' = ppLines
        /\ ppPage' = ppPage /\ ppY' = ppY /\ ppDrawn' = ppDrawn
    BY <1>4 DEF ppVars
  <2>2. PpBs' = PpBs /\ PpDone' = PpDone
    BY <2>1 DEF PpBs, PpDone
  <2>3. PpTypes'
    BY <2>1, <2>2 DEF PpInv, PpTypes
  <2> QED BY <2>1, <2>2, <2>3 DEF PpInv
<1> QED BY <1>1, <1>2, <1>3, <1>4 DEF PpNext

LEMMA PpInvComplete == PpInv => PlainPagesComplete
<1> SUFFICES ASSUME PpInv PROVE PlainPagesComplete
  OBVIOUS
<1>1. PpTypes /\ DrawnFine(ppDrawn, PpBs) /\ ppDrawn \in Seq(PpEntry)
  BY DEF PpInv, DrawnFine
<1>2. ASSUME NEW i \in DOMAIN ppDrawn
      PROVE  OnPaper(ppDrawn[i]) /\ (i > 1 => Below(ppDrawn[i - 1], ppDrawn[i]))
  <2>1. i > 1 => i \in 2..Len(ppDrawn)
    BY <1>1
  <2> QED BY <1>1, <2>1 DEF DrawnFine
<1>3. ASSUME ppBlocks = <<>>
      PROVE  /\ Opens(ppDrawn[1], PpBs[1]) /\ Closes(Last(ppDrawn), Last(PpBs))
             /\ \A i \in 2..Len(ppDrawn) : ReadOn(PpBs, ppDrawn[i - 1], ppDrawn[i])
  <2>1. ~ppHeaded
    BY <1>3 DEF PpInv
  <2>2. FineBlocks(PpBs)
    BY <1>1, BlocksAreFine DEF PpTypes, PpBs
  <2>3. PpDone = Len(PpBs) /\ PpDone \in Nat \ {0}
    BY <1>3, <2>2 DEF PpDone, FineBlocks
  <2>4. DrawnUpto(ppDrawn, PpBs, PpDone)
    BY <2>1 DEF PpInv
  <2>5. ppDrawn # <<>> /\ Closes(ppDrawn[Len(ppDrawn)], PpBs[Len(PpBs)])
    BY <2>3, <2>4 DEF DrawnUpto
  <2> QED BY <1>1, <2>5 DEF DrawnFine, Last
<1> QED BY <1>2, <1>3 DEF PlainPagesComplete, PpBs

(* Every line of every text once and in order, nothing over what came before or in
   the footer, every heading with its first line: for any texts and lengths. *)
THEOREM PlainPagesHold == PpSpec => []PlainPagesComplete
BY PpInvInit, PpInvNext, PpInvComplete, PTL DEF PpSpec

-----------------------------------------------------------------------------
(* The report made from HTML (NatalPages).  What a section's pages hold, what is
   on the page at work and what is left are together the section's items, in
   order; and what is counted of a page is what it will take, less its header. *)

SectionNames == {"planets", "houses", "aspects", "reading"}
NpItems(c) == UNION {Elems(SectionItems(c, s)) : s \in SectionNames}
NpOrder == SectionsOf(npChart)
NpDone == Len(NpOrder) - Len(npSections)

SectionPrinted(c, s, split) ==
  FlattenSeq(split) = SectionItems(c, s) /\ (s # "reading" => split # <<>>)
AllFit(s, split) == \A i \in DOMAIN split : PageFits(s, split[i], i = 1)
Above(s, first) == SectionHead + (IF first THEN FirstPage(s) ELSE 0)
Counted(s, split, page, used) ==
  LET first == split = <<>>
  IN /\ RenderedHeight(s, page, first) = Above(s, first) + used
     /\ Above(s, first) + used <= PageContent \/ Len(page) = 1

NpTypes ==
  /\ npChart \in NpCharts /\ npBy \in {"measuring", "heights", "words"}
  /\ npSections \in Seq(SectionNames) /\ Len(npSections) <= Len(NpOrder)
  /\ \A j \in DOMAIN npSections : npSections[j] = NpOrder[NpDone + j]
  /\ npLeft \in Seq(NpItems(npChart)) /\ npPage \in Seq(NpItems(npChart)) /\ npUsed \in Int
  /\ npSplit \in [SectionNames -> Seq(Seq(NpItems(npChart)))]
NpPrinted ==
  /\ \A i \in 1..NpDone : SectionPrinted(npChart, NpOrder[i], npSplit[NpOrder[i]])
  /\ \A s \in SectionNames :
       (\A i \in 1..Len(NpOrder) : NpOrder[i] = s => i > NpDone + 1) => npSplit[s] = <<>>
  /\ npSections = <<>> => npLeft = <<>>
  /\ npSections # <<>> =>
       FlattenSeq(npSplit[npSections[1]]) \o npPage \o npLeft = SectionItems(npChart, npSections[1])
NpMeasured ==
  /\ npBy = "measuring" => NpDone = 0 /\ npPage = <<>> /\ npUsed = 0 /\ \A s \in SectionNames : npSplit[s] = <<>>
  /\ npBy = "heights" =>
       /\ \A s \in SectionNames : AllFit(s, npSplit[s])
       /\ npSections # <<>> => Counted(npSections[1], npSplit[npSections[1]], npPage, npUsed)
NpInv == NpTypes /\ NpPrinted /\ NpMeasured

LEMMA GreatestOf ==
  ASSUME NEW n \in Nat, NEW T, T \subseteq 0..n, T # {}
  PROVE  Max(T) \in T
<1> DEFINE R == {n - x : x \in T}
<1>1. R \subseteq Nat /\ R # {}
  <2>1. \A x \in T : x \in 0..n
    OBVIOUS
  <2>2. \A x \in T : n - x \in Nat
    BY <2>1
  <2>3. PICK x \in T : TRUE
    OBVIOUS
  <2> QED BY <2>2, <2>3
<1>2. PICK y \in R : \A z \in R : y <= z
  <2> HIDE DEF R
  <2> QED BY <1>1, LeastNatural
<1>3. PICK x \in T : y = n - x
  BY <1>2
<1>4. ASSUME NEW z \in T PROVE x >= z
  <2>1. n - z \in R
    OBVIOUS
  <2>2. y <= n - z
    <3> HIDE DEF R
    <3> QED BY <1>2, <2>1
  <2>3. x \in 0..n /\ z \in 0..n
    OBVIOUS
  <2> HIDE DEF R
  <2> QED BY <1>3, <2>2, <2>3
<1> QED BY <1>4 DEF Max

LEMMA ChunkEndIs ==
  ASSUME NEW text, text.words \in Nat, text.stops \subseteq Nat, NEW limit \in Nat \ {0},
         NEW from \in 0..text.words
  PROVE  /\ ChunkEnd(text, limit, from) \in 0..text.words
         /\ from < text.words => from < ChunkEnd(text, limit, from)
         /\ from = text.words => ChunkEnd(text, limit, from) = text.words
<1> DEFINE to == IF from + limit < text.words THEN from + limit ELSE text.words
           near == {p \in text.stops : from < p /\ to < p + 40 /\ p <= to}
<1>1. to \in 0..text.words /\ (from < text.words => from < to) /\ (from = text.words => to = text.words)
  OBVIOUS
<1>2. near \subseteq 0..to /\ \A p \in near : from < p
  BY <1>1
<1>3. ChunkEnd(text, limit, from) = IF to = text.words \/ near = {} THEN to ELSE Max(near)
  BY DEF ChunkEnd
<1> HIDE DEF to, near
<1>4. near # {} => Max(near) \in near
  <2>1. to \in Nat
    BY <1>1
  <2> QED BY <1>2, <2>1, GreatestOf
<1>5. CASE to = text.words \/ near = {}
  BY <1>1, <1>3, <1>5
<1>6. CASE ~(to = text.words \/ near = {})
  <2>1. Max(near) \in 0..to /\ from < Max(near)
    BY <1>2, <1>4, <1>6
  <2>2. ChunkEnd(text, limit, from) = Max(near)
    BY <1>3, <1>6
  <2> QED BY <1>1, <1>6, <2>1, <2>2
<1> QED BY <1>5, <1>6

(* The chunks of a text follow each other to its end. *)
IsChunks(cs, words) ==
  /\ cs \in Seq(Nat \X Nat) /\ (words = 0 <=> cs = <<>>)
  /\ \A k \in DOMAIN cs :
       /\ cs[k][1] = IF k = 1 THEN 0 ELSE cs[k - 1][2]
       /\ cs[k][1] < cs[k][2] /\ cs[k][2] <= words
  /\ cs # <<>> => cs[Len(cs)][2] = words

LEMMA ChunksAre ==
  ASSUME NEW text, text.words \in Nat, text.stops \subseteq Nat, NEW limit \in Nat \ {0}
  PROVE  IsChunks(Chunks(text, limit), text.words)
<1> DEFINE words == text.words
           Rec(f) == f = [k \in 0..words |-> IF k = 0 THEN 0 ELSE ChunkEnd(text, limit, f[k - 1])]
           end == CHOOSE f : Rec(f)
           First(n) == end[n] = words /\ \A k \in 0..n - 1 : end[k] < words
           count == CHOOSE n \in 0..words : First(n)
<1>1. Chunks(text, limit) = [k \in 1..count |-> <<end[k - 1], end[k]>>]
  BY Zenon DEF Chunks
<1>2. words \in Nat /\ \A from \in 0..words :
        /\ ChunkEnd(text, limit, from) \in 0..words
        /\ from < words => from < ChunkEnd(text, limit, from)
        /\ from = words => ChunkEnd(text, limit, from) = words
  BY ChunkEndIs
<1> HIDE DEF words
<1>3. \E f : Rec(f)
  <2> DEFINE step == [p \in (0..words) \X (1..words) |-> ChunkEnd(text, limit, p[1])]
  <2>1. IsStep(step, words, 0..words)
    BY <1>2 DEF IsStep
  <2>2. \A a \in 0..words, i \in 1..words : step[<<a, i>>] = ChunkEnd(text, limit, a)
    OBVIOUS
  <2>3. 0 \in 0..words
    BY <1>2
  <2> HIDE DEF step
  <2>4. PICK f : IsFold(f, step, words, 0..words, 0)
    BY <1>2, <2>1, <2>3, FoldExists, Zenon
  <2>5. f \in [0..words -> 0..words] /\ f[0] = 0 /\ \A i \in 1..words : f[i] = step[<<f[i - 1], i>>]
    BY <2>4 DEF IsFold
  <2>6. ASSUME NEW k \in 0..words PROVE f[k] = IF k = 0 THEN 0 ELSE ChunkEnd(text, limit, f[k - 1])
    <3>1. CASE k = 0
      BY <2>5, <3>1
    <3>2. CASE k # 0
      <4>1. k \in 1..words /\ k - 1 \in 0..words
        BY <1>2, <3>2
      <4>2. f[k - 1] \in 0..words
        BY <2>5, <4>1
      <4> QED BY <2>2, <2>5, <3>2, <4>1, <4>2
    <3> QED BY <3>1, <3>2
  <2>7. Rec(f)
    BY <2>5, <2>6
  <2> QED BY <2>7
<1>4. Rec(end)
  BY <1>3, Zenon
<1> HIDE DEF end
<1>5. end[0] = 0 /\ \A k \in 1..words : end[k] = ChunkEnd(text, limit, end[k - 1])
  <2>1. \A k \in 0..words : end[k] = IF k = 0 THEN 0 ELSE ChunkEnd(text, limit, end[k - 1])
    BY <1>4
  <2>2. 0 \in 0..words /\ \A k \in 1..words : k \in 0..words /\ k # 0
    BY <1>2
  <2> QED BY <2>1, <2>2
<1> DEFINE T == {k \in 0..words : end[k] \in k..words}
<1>6. \A k \in 0..words : k \in T
  <2>1. 0 \in T
    BY <1>2, <1>5
  <2>2. ASSUME NEW k \in 1..words, k - 1 \in T PROVE k \in T
    <3>1. k \in 0..words /\ end[k - 1] \in 0..words /\ end[k - 1] >= k - 1
      BY <1>2, <2>2
    <3>2. end[k] = ChunkEnd(text, limit, end[k - 1])
      BY <1>5
    <3>3. end[k] \in 0..words /\ (end[k - 1] < words => end[k - 1] < end[k]) /\ (end[k - 1] = words => end[k] = words)
      BY <1>2, <3>1, <3>2
    <3> QED BY <1>2, <3>1, <3>3
  <2> HIDE DEF T
  <2> QED BY <1>2, <2>1, <2>2, StepByStep, Zenon
<1>7. \A k \in 0..words : end[k] \in 0..words /\ end[k] >= k
  BY <1>2, <1>6
<1>8. \E n \in 0..words : First(n)
  <2> DEFINE D == {n \in 0..words : end[n] = words}
  <2>1. D \subseteq Nat /\ words \in D
    BY <1>2, <1>7
  <2>2. PICK n \in D : \A m \in D : n <= m
    <3> HIDE DEF D
    <3> QED BY <2>1, LeastNatural
  <2>3. ASSUME NEW k \in 0..n - 1 PROVE end[k] < words
    <3>1. k \in 0..words /\ ~(n <= k)
      BY <1>2, <2>2
    <3> QED BY <1>2, <1>7, <2>2, <3>1
  <2> QED BY <2>2, <2>3
<1>9. count \in 0..words /\ First(count)
  BY <1>8
<1> HIDE DEF count
<1>10. \A k \in 1..count : /\ k \in 1..words /\ k - 1 \in 0..words /\ k \in 0..words /\ k - 1 \in 0..count - 1
  BY <1>2, <1>9
<1>11. ASSUME NEW k \in 1..count
       PROVE  end[k - 1] \in Nat /\ end[k] \in Nat /\ end[k - 1] < end[k] /\ end[k] <= words
  <2>1. end[k - 1] < words /\ end[k] = ChunkEnd(text, limit, end[k - 1])
    BY <1>5, <1>9, <1>10
  <2>2. end[k - 1] \in 0..words /\ end[k] \in 0..words
    BY <1>7, <1>10
  <2> QED BY <1>2, <2>1, <2>2
<1> DEFINE cs == [k \in 1..count |-> <<end[k - 1], end[k]>>]
<1>12. \A k \in 1..count : cs[k][1] = end[k - 1] /\ cs[k][2] = end[k] /\ cs[k] \in Nat \X Nat
  BY <1>11
<1> HIDE DEF First
<1>13. cs \in Seq(Nat \X Nat) /\ Len(cs) = count /\ DOMAIN cs = 1..count /\ count \in Nat
  BY <1>2, <1>9, <1>12
<1> HIDE DEF cs
<1>14. words = 0 <=> count = 0
  <2>1. count = 0 => words = 0
    BY <1>5, <1>9 DEF First
  <2> QED BY <1>2, <1>9, <2>1
<1>15. cs = <<>> <=> count = 0
  BY <1>13
<1>16. ASSUME NEW k \in 1..count PROVE cs[k][1] = IF k = 1 THEN 0 ELSE cs[k - 1][2]
  <2>1. CASE k = 1
    <3>1. cs[k][1] = end[0]
      BY <1>12, <2>1
    <3> QED BY <1>5, <2>1, <3>1
  <2>2. CASE k # 1
    <3>1. k - 1 \in 1..count
      BY <1>13, <2>2
    <3> QED BY <1>12, <2>2, <3>1
  <2> QED BY <2>1, <2>2
<1>17. count # 0 => cs[count][2] = words
  <2>1. count # 0 => count \in 1..count
    BY <1>13
  <2> QED BY <1>9, <1>12, <2>1 DEF First
<1>18. IsChunks(cs, words)
  BY <1>11, <1>12, <1>13, <1>14, <1>15, <1>16, <1>17 DEF IsChunks
<1> QED BY <1>1, <1>18 DEF cs, words

(* The items of the first t texts. *)
WholeUpto(items, texts, t) ==
  /\ \A k \in 1..t : texts[k].words = 0 \/ \E i \in DOMAIN items : items[i].of = k
  /\ \A i \in DOMAIN items :
       /\ items[i].of \in 1..t /\ items[i].says = texts[items[i].of].says
       /\ items[i].span[1] = IF i = 1 \/ items[i - 1].of # items[i].of THEN 0 ELSE items[i - 1].span[2]
       /\ i = Len(items) \/ items[i + 1].of # items[i].of => items[i].span[2] = texts[items[i].of].words
       /\ i > 1 => items[i - 1].of <= items[i].of
ItemOf(name, texts) ==
  {x \in [section : {name}, of : DOMAIN texts, span : Nat \X Nat, says : {texts[i].says : i \in DOMAIN texts},
          words : Nat, group : {texts[i].group : i \in DOMAIN texts}] : x.words <= texts[x.of].words}
(* All chunks of one text. *)
IsPart(p, name, texts, t) ==
  /\ p \in Seq(ItemOf(name, texts)) /\ (texts[t].words = 0 <=> p = <<>>)
  /\ \A k \in DOMAIN p :
       /\ p[k].of = t /\ p[k].says = texts[t].says
       /\ p[k].span[1] = IF k = 1 THEN 0 ELSE p[k - 1].span[2]
  /\ p # <<>> => p[Len(p)].span[2] = texts[t].words

LEMMA PartIs ==
  ASSUME NEW name, NEW texts, NEW t \in DOMAIN texts, NEW limit \in Nat \ {0},
         texts[t].words \in Nat, texts[t].stops \subseteq Nat
  PROVE  LET cs == Chunks(texts[t], limit)
         IN IsPart([k \in DOMAIN cs |-> Item(name, t, texts[t], cs[k])], name, texts, t)
<1> DEFINE cs == Chunks(texts[t], limit)
           p == [k \in DOMAIN cs |-> Item(name, t, texts[t], cs[k])]
           n == Len(cs)
           words == texts[t].words
<1>1. /\ cs \in Seq(Nat \X Nat) /\ (words = 0 <=> cs = <<>>)
      /\ \A k \in DOMAIN cs :
           /\ cs[k][1] = IF k = 1 THEN 0 ELSE cs[k - 1][2]
           /\ cs[k][1] < cs[k][2] /\ cs[k][2] <= words
      /\ cs # <<>> => cs[Len(cs)][2] = words
  BY ChunksAre DEF IsChunks
<1> HIDE DEF cs
<1>2. n \in Nat /\ DOMAIN cs = 1..n /\ (cs = <<>> <=> n = 0)
  BY <1>1
<1>3. ASSUME NEW k \in 1..n
      PROVE  LET x == Item(name, t, texts[t], cs[k])
             IN x \in ItemOf(name, texts) /\ x.of = t /\ x.says = texts[t].says /\ x.span = cs[k]
  <2>1. cs[k] \in Nat \X Nat /\ cs[k][1] \in Nat /\ cs[k][2] \in Nat
    BY <1>1, <1>2
  <2>2. cs[k][1] < cs[k][2] /\ cs[k][2] <= words
    BY <1>1, <1>2
  <2>3. cs[k][2] - cs[k][1] \in Nat /\ cs[k][2] - cs[k][1] <= words
    BY <2>1, <2>2
  <2> QED BY <2>1, <2>3 DEF Item, ItemOf
<1> DEFINE I(k) == Item(name, t, texts[t], cs[k])
<1>4. p = [k \in 1..n |-> I(k)]
  BY <1>2
<1>5. \A k \in 1..n : I(k) \in ItemOf(name, texts) /\ I(k).of = t /\ I(k).says = texts[t].says /\ I(k).span = cs[k]
  BY <1>3
<1> HIDE DEF I, p, n
<1>6. /\ p \in Seq(ItemOf(name, texts)) /\ Len(p) = n /\ DOMAIN p = 1..n /\ \A k \in 1..n : p[k] = I(k)
  BY <1>2, <1>4, <1>5
<1>7. p = <<>> <=> n = 0
  BY <1>2, <1>6
<1>8. \A k \in 1..n : p[k].of = t /\ p[k].says = texts[t].says /\ p[k].span = cs[k]
  BY <1>5, <1>6
<1>9. ASSUME NEW k \in 1..n PROVE p[k].span[1] = IF k = 1 THEN 0 ELSE p[k - 1].span[2]
  <2>1. k # 1 => k - 1 \in 1..n
    BY <1>2
  <2>2. cs[k][1] = IF k = 1 THEN 0 ELSE cs[k - 1][2]
    BY <1>1, <1>2
  <2> QED BY <1>8, <2>1, <2>2
<1>10. p # <<>> => p[Len(p)].span[2] = words
  <2>1. n # 0 => n \in 1..n
    BY <1>2
  <2> QED BY <1>1, <1>2, <1>6, <1>7, <1>8, <2>1 DEF n
<1>11. IsPart(p, name, texts, t)
  BY <1>1, <1>2, <1>6, <1>7, <1>8, <1>9, <1>10 DEF IsPart
<1> QED BY <1>11 DEF p, cs

LEMMA WholeMore ==
  ASSUME NEW name, NEW texts, NEW m \in Nat, DOMAIN texts = 1..m, NEW t \in 1..m,
         \A k \in 1..m : texts[k].words \in Nat,
         NEW g \in Seq(ItemOf(name, texts)), WholeUpto(g, texts, t - 1),
         NEW p, IsPart(p, name, texts, t)
  PROVE  g \o p \in Seq(ItemOf(name, texts)) /\ WholeUpto(g \o p, texts, t)
<1> DEFINE S == ItemOf(name, texts)
           n == Len(g)
           q == Len(p)
           j == g \o p
<1>1. p \in Seq(S) /\ (texts[t].words = 0 <=> p = <<>>)
  BY DEF IsPart
<1>2. /\ j \in Seq(S) /\ Len(j) = n + q /\ n \in Nat /\ q \in Nat
      /\ DOMAIN g = 1..n /\ DOMAIN p = 1..q /\ DOMAIN j = 1..(n + q)
      /\ \A i \in 1..n : j[i] = g[i]
      /\ \A i \in 1..q : j[n + i] = p[i]
  <2> HIDE DEF S
  <2> QED BY <1>1, Joined DEF S
<1>3. /\ \A k \in 1..t - 1 : texts[k].words = 0 \/ \E i \in 1..n : g[i].of = k
      /\ \A i \in 1..n :
           /\ g[i].of \in 1..t - 1 /\ g[i].says = texts[g[i].of].says
           /\ g[i].span[1] = IF i = 1 \/ g[i - 1].of # g[i].of THEN 0 ELSE g[i - 1].span[2]
           /\ i = n \/ g[i + 1].of # g[i].of => g[i].span[2] = texts[g[i].of].words
           /\ i > 1 => g[i - 1].of <= g[i].of
  BY <1>2 DEF WholeUpto
<1>4. /\ \A k \in 1..q : p[k].of = t /\ p[k].says = texts[t].says
      /\ \A k \in 1..q : p[k].span[1] = IF k = 1 THEN 0 ELSE p[k - 1].span[2]
      /\ p # <<>> => p[q].span[2] = texts[t].words
  BY <1>2 DEF IsPart
<1>5. p = <<>> <=> q = 0
  BY <1>1
<1> HIDE DEF j, n, q, S
<1>6. ASSUME NEW k \in 1..t PROVE texts[k].words = 0 \/ \E i \in DOMAIN j : j[i].of = k
  <2>1. CASE k = t
    <3>1. texts[t].words # 0 => 1 \in 1..q /\ n + 1 \in DOMAIN j
      BY <1>1, <1>2, <1>5
    <3>2. 1 \in 1..q => j[n + 1] = p[1] /\ p[1].of = t
      BY <1>2, <1>4
    <3> QED BY <2>1, <3>1, <3>2
  <2>2. CASE k # t
    <3>1. k \in 1..t - 1
      BY <2>2
    <3>2. texts[k].words = 0 \/ \E i \in 1..n : g[i].of = k
      BY <1>3, <3>1
    <3>3. \A i \in 1..n : i \in DOMAIN j /\ j[i] = g[i]
      BY <1>2
    <3> QED BY <3>2, <3>3
  <2> QED BY <2>1, <2>2
<1> DEFINE Fits(i) ==
             /\ j[i].of \in 1..t /\ j[i].says = texts[j[i].of].says
             /\ j[i].span[1] = IF i = 1 \/ j[i - 1].of # j[i].of THEN 0 ELSE j[i - 1].span[2]
             /\ i = Len(j) \/ j[i + 1].of # j[i].of => j[i].span[2] = texts[j[i].of].words
             /\ i > 1 => j[i - 1].of <= j[i].of
<1>7. ASSUME NEW i \in 1..n PROVE Fits(i)
  <2>1. /\ j[i] = g[i] /\ (i # 1 => j[i - 1] = g[i - 1]) /\ (i # n => j[i + 1] = g[i + 1])
    <3>1. (i # 1 => i - 1 \in 1..n) /\ (i # n => i + 1 \in 1..n)
      BY <1>2
    <3> QED BY <1>2, <3>1
  <2>2. g[i].of \in 1..t - 1 /\ g[i].of \in 1..t
    BY <1>3
  <2>3. i = Len(j) => i = n
    BY <1>2
  <2>4. /\ g[i].says = texts[g[i].of].says
        /\ g[i].span[1] = IF i = 1 \/ g[i - 1].of # g[i].of THEN 0 ELSE g[i - 1].span[2]
        /\ i = n \/ g[i + 1].of # g[i].of => g[i].span[2] = texts[g[i].of].words
        /\ i > 1 => g[i - 1].of <= g[i].of
    BY <1>3
  <2>5. i > 1 => i # 1
    OBVIOUS
  <2>6. i = Len(j) \/ j[i + 1].of # j[i].of => j[i].span[2] = texts[j[i].of].words
    <3>1. CASE i = n
      BY <2>1, <2>4, <3>1
    <3>2. CASE i # n
      BY <2>1, <2>3, <2>4, <3>2
    <3> QED BY <3>1, <3>2
  <2>7. j[i].span[1] = IF i = 1 \/ j[i - 1].of # j[i].of THEN 0 ELSE j[i - 1].span[2]
    <3>1. CASE i = 1
      BY <2>1, <2>4, <3>1
    <3>2. CASE i # 1
      BY <2>1, <2>4, <3>2
    <3> QED BY <3>1, <3>2
  <2> QED BY <2>1, <2>2, <2>4, <2>5, <2>6, <2>7
<1>8. ASSUME NEW k \in 1..q PROVE Fits(n + k)
  <2> DEFINE i == n + k
  <2>1. j[i] = p[k] /\ p[k].of = t /\ p[k].says = texts[t].says
    BY <1>2, <1>4
  <2>2. CASE k = 1
    <3>1. i - 1 = n /\ (i # 1 => n \in 1..n) /\ (i > 1 => i # 1)
      BY <1>2, <2>2
    <3>2. i # 1 => j[i - 1] = g[n] /\ g[n].of \in 1..t - 1
      BY <1>2, <1>3, <3>1
    <3>3. i # 1 => j[i - 1].of <= t /\ j[i - 1].of # t
      BY <3>2
    <3>4. p[k].span[1] = 0
      BY <1>4, <2>2
    <3>5. j[i].span[1] = IF i = 1 \/ j[i - 1].of # j[i].of THEN 0 ELSE j[i - 1].span[2]
      BY <2>1, <3>3, <3>4
    <3>6. i > 1 => j[i - 1].of <= j[i].of
      BY <2>1, <3>1, <3>3
    <3>7. i = Len(j) \/ j[i + 1].of # j[i].of => j[i].span[2] = texts[j[i].of].words
      <4>1. CASE k = q
        BY <1>2, <1>4, <1>5, <2>1, <4>1
      <4>2. CASE k # q
        <5>1. k + 1 \in 1..q /\ i + 1 = n + (k + 1) /\ i # Len(j)
          BY <1>2, <4>2
        <5>2. j[i + 1] = p[k + 1] /\ p[k + 1].of = t
          BY <1>2, <1>4, <5>1
        <5> QED BY <2>1, <5>1, <5>2
      <4> QED BY <4>1, <4>2
    <3> QED BY <2>1, <3>5, <3>6, <3>7
  <2>3. CASE k # 1
    <3>1. k - 1 \in 1..q /\ i - 1 = n + (k - 1) /\ i # 1
      BY <1>2, <2>3
    <3>2. j[i - 1] = p[k - 1] /\ p[k - 1].of = t
      BY <1>2, <1>4, <3>1
    <3>3. p[k].span[1] = p[k - 1].span[2]
      BY <1>4, <2>3
    <3>5. j[i].span[1] = IF i = 1 \/ j[i - 1].of # j[i].of THEN 0 ELSE j[i - 1].span[2]
      BY <2>1, <3>1, <3>2, <3>3
    <3>6. i > 1 => j[i - 1].of <= j[i].of
      BY <2>1, <3>2
    <3>7. i = Len(j) \/ j[i + 1].of # j[i].of => j[i].span[2] = texts[j[i].of].words
      <4>1. CASE k = q
        BY <1>2, <1>4, <1>5, <2>1, <4>1
      <4>2. CASE k # q
        <5>1. k + 1 \in 1..q /\ i + 1 = n + (k + 1) /\ i # Len(j)
          BY <1>2, <4>2
        <5>2. j[i + 1] = p[k + 1] /\ p[k + 1].of = t
          BY <1>2, <1>4, <5>1
        <5> QED BY <2>1, <5>1, <5>2
      <4> QED BY <4>1, <4>2
    <3> QED BY <2>1, <3>5, <3>6, <3>7
  <2> QED BY <2>2, <2>3
<1>9. ASSUME NEW i \in DOMAIN j PROVE Fits(i)
  <2>1. i \in 1..n \/ (i - n \in 1..q /\ i = n + (i - n))
    BY <1>2
  <2> HIDE DEF Fits
  <2> QED BY <1>7, <1>8, <2>1
<1>10. WholeUpto(j, texts, t)
  BY <1>6, <1>9 DEF WholeUpto
<1> QED BY <1>2, <1>10 DEF j, S

LEMMA ItemsAreWhole ==
  ASSUME NEW name, NEW texts, NEW m \in Nat, DOMAIN texts = 1..m, NEW limit \in Nat \ {0},
         \A k \in 1..m : texts[k].words \in Nat /\ texts[k].stops \subseteq Nat
  PROVE  /\ ItemsOf(name, texts, limit) \in Seq(ItemOf(name, texts))
         /\ Whole(ItemsOf(name, texts, limit), texts)
<1> DEFINE S == ItemOf(name, texts)
           Part(i) == [k \in DOMAIN Chunks(texts[i], limit) |-> Item(name, i, texts[i], Chunks(texts[i], limit)[k])]
           parts == [i \in 1..m |-> Part(i)]
           items == ItemsOf(name, texts, limit)
<1>1. items = FlattenSeq(parts)
  BY DEF ItemsOf
<1>2. \A i \in 1..m : IsPart(Part(i), name, texts, i)
  BY PartIs
<1>3. \A i \in 1..m : Part(i) \in Seq(S)
  BY <1>2 DEF IsPart
<1> HIDE DEF Part, S, items
<1>4. parts \in Seq(Seq(S)) /\ Len(parts) = m /\ \A i \in 1..m : parts[i] = Part(i)
  BY <1>3
<1> HIDE DEF parts
<1>5. PICK f : IsString(f, parts, S)
  BY <1>4, FlattenSteps
<1>6. /\ f \in [0..m -> Seq(S)] /\ f[0] = <<>> /\ items = f[m]
      /\ \A i \in 1..m : f[i] = f[i - 1] \o parts[i]
  BY <1>1, <1>4, <1>5 DEF IsString
<1> DEFINE T == {i \in 0..m : WholeUpto(f[i], texts, i)}
<1>7. \A i \in 0..m : i \in T
  <2>1. 0 \in T
    <3>1. WholeUpto(<<>>, texts, 0)
      BY DEF WholeUpto
    <3> QED BY <1>6, <3>1
  <2>2. ASSUME NEW i \in 1..m, i - 1 \in T PROVE i \in T
    <3>1. f[i - 1] \in Seq(S) /\ WholeUpto(f[i - 1], texts, i - 1)
      BY <1>6, <2>2
    <3>2. f[i] = f[i - 1] \o Part(i) /\ IsPart(Part(i), name, texts, i)
      BY <1>2, <1>4, <1>6
    <3>3. WholeUpto(f[i - 1] \o Part(i), texts, i)
      BY <3>1, <3>2, WholeMore DEF S
    <3>4. i \in 0..m /\ WholeUpto(f[i], texts, i)
      BY <3>2, <3>3
    <3> QED BY <3>4
  <2> HIDE DEF T
  <2> QED BY <2>1, <2>2, StepByStep, Zenon
<1>8. items \in Seq(S) /\ WholeUpto(items, texts, m)
  <2>1. m \in 0..m
    OBVIOUS
  <2> QED BY <1>6, <1>7, <2>1
<1>9. Whole(items, texts)
  BY <1>8 DEF WholeUpto, Whole
<1> QED BY <1>8, <1>9 DEF items, S

-----------------------------------------------------------------------------
(* The texts of a section. *)
TextsFine(texts) ==
  /\ Len(texts) \in Nat /\ DOMAIN texts = 1..Len(texts)
  /\ \A k \in DOMAIN texts :
       /\ texts[k].words \in Nat /\ texts[k].stops \subseteq Nat
       /\ \A n \in 0..texts[k].words : NpHeight(n) \in Nat
SaidOnce(texts) == \A i, j \in DOMAIN texts : texts[i].says = texts[j].says => i = j

LEMMA OfGroupIsSeq ==
  ASSUME NEW S, NEW aspects \in Seq(S), NEW g
  PROVE  OfGroup(aspects, g) \in Seq(S)
<1> DEFINE n == Len(aspects)
           one == [i \in 1..n |-> IF aspects[i].shown /\ aspects[i].group = g THEN <<aspects[i]>> ELSE <<>>]
<1>1. n \in Nat /\ DOMAIN aspects = 1..n /\ \A i \in 1..n : aspects[i] \in S
  OBVIOUS
<1>2. OfGroup(aspects, g) = FlattenSeq(one)
  BY <1>1 DEF OfGroup
<1> HIDE DEF n
<1>3. \A i \in 1..n : <<aspects[i]>> \in Seq(S) /\ <<>> \in Seq(S)
  BY <1>1
<1>4. \A i \in 1..n : one[i] \in Seq(S)
  BY <1>3
<1>5. one = [i \in 1..n |-> one[i]]
  OBVIOUS
<1> HIDE DEF one
<1>6. one \in Seq(Seq(S))
  BY <1>1, <1>4, <1>5
<1> QED BY <1>2, <1>6, FlattenIsSeq

LEMMA GroupedIsSeq ==
  ASSUME NEW S, NEW aspects \in Seq(S)
  PROVE  Grouped(aspects) \in Seq(S)
<1> DEFINE G(g) == OfGroup(aspects, AspectOrder[g])
           groups == [g \in 1..6 |-> G(g)]
<1>1. DOMAIN AspectOrder = 1..6
  BY DEF AspectOrder
<1>2. Grouped(aspects) = FlattenSeq(groups)
  BY <1>1 DEF Grouped
<1>3. \A g \in 1..6 : G(g) \in Seq(S)
  BY OfGroupIsSeq
<1> HIDE DEF G
<1>4. groups \in Seq(Seq(S))
  BY <1>3
<1> QED BY <1>2, <1>4, FlattenIsSeq

LEMMA DedupedFine ==
  ASSUME NEW ts, NEW aspects \in Seq(TextsIn(ts)),
         \A i \in DOMAIN aspects : aspects[i].says[1] # "plain",
         \A i \in DOMAIN aspects : \A n \in 0..aspects[i].words : NpHeight(n) \in Nat
  PROVE  TextsFine(Deduped(aspects)) /\ SaidOnce(Deduped(aspects))
<1> DEFINE m == Len(aspects)
           Before(i) == \E j \in 1..i - 1 : aspects[j].says = aspects[i].says
           plain(i) == [aspects[i] EXCEPT !.says = <<"plain", i>>, !.words = 30, !.stops = {}]
           texts == Deduped(aspects)
<1>1. m \in Nat /\ DOMAIN aspects = 1..m /\ \A i \in 1..m : aspects[i] \in TextsIn(ts)
  OBVIOUS
<1>2. texts = [i \in 1..m |-> IF Before(i) THEN plain(i) ELSE aspects[i]]
  BY <1>1 DEF Deduped
<1>3. ASSUME NEW i \in 1..m
      PROVE  plain(i).says = <<"plain", i>> /\ plain(i).words = 30 /\ plain(i).stops = {}
  BY <1>1 DEF TextsIn
<1>4. ASSUME NEW i \in 1..m
      PROVE  aspects[i].words \in Nat /\ aspects[i].stops \subseteq Nat
  BY <1>1 DEF TextsIn
<1> HIDE DEF plain, m, Before
<1>5. /\ DOMAIN texts = 1..m
      /\ \A i \in 1..m : texts[i] = IF Before(i) THEN plain(i) ELSE aspects[i]
  BY <1>2
<1>6. Len(texts) = m
  BY <1>1, <1>2
<1> HIDE DEF texts
<1>7. ASSUME NEW k \in 1..m
      PROVE  /\ texts[k].words \in Nat /\ texts[k].stops \subseteq Nat
             /\ \A n \in 0..texts[k].words : NpHeight(n) \in Nat
  <2>1. CASE Before(k)
    <3>1. texts[k].words = 30 /\ texts[k].stops = {}
      BY <1>3, <1>5, <2>1
    <3> QED BY <3>1, NatalPagesAssumption
  <2>2. CASE ~Before(k)
    <3>1. texts[k] = aspects[k]
      BY <1>5, <2>2
    <3> QED BY <1>1, <1>4, <3>1
  <2> QED BY <2>1, <2>2
<1>8. TextsFine(texts)
  BY <1>1, <1>5, <1>6, <1>7 DEF TextsFine
<1>9. ASSUME NEW i \in 1..m, NEW j \in 1..m, i < j PROVE texts[i].says # texts[j].says
  <2>1. CASE Before(j)
    <3>1. texts[j].says = <<"plain", j>>
      BY <1>3, <1>5, <2>1
    <3>2. CASE Before(i)
      <4>1. texts[i].says = <<"plain", i>>
        BY <1>3, <1>5, <3>2
      <4>2. <<"plain", i>>[2] = i /\ <<"plain", j>>[2] = j /\ i # j
        BY <1>1, <1>9
      <4> QED BY <3>1, <4>1, <4>2
    <3>3. CASE ~Before(i)
      <4>1. texts[i].says = aspects[i].says /\ aspects[i].says[1] # "plain"
        BY <1>1, <1>5, <3>3
      <4>2. <<"plain", j>>[1] = "plain"
        OBVIOUS
      <4> QED BY <3>1, <4>1, <4>2
    <3> QED BY <3>2, <3>3
  <2>2. CASE ~Before(j)
    <3>1. texts[j].says = aspects[j].says /\ aspects[j].says[1] # "plain"
      BY <1>1, <1>5, <2>2
    <3>2. CASE Before(i)
      <4>1. texts[i].says = <<"plain", i>>
        BY <1>3, <1>5, <3>2
      <4>2. <<"plain", i>>[1] = "plain"
        OBVIOUS
      <4> QED BY <3>1, <4>1, <4>2
    <3>3. CASE ~Before(i)
      <4>1. i \in 1..j - 1
        BY <1>1, <1>9
      <4>2. texts[i].says = aspects[i].says
        BY <1>5, <3>3
      <4> QED BY <2>2, <3>1, <4>1, <4>2 DEF Before
    <3> QED BY <3>2, <3>3
  <2> QED BY <2>1, <2>2
<1>10. SaidOnce(texts)
  <2>1. \A i, j \in 1..m : i = j \/ i < j \/ j < i
    BY <1>1
  <2> QED BY <1>5, <1>9, <2>1 DEF SaidOnce
<1> QED BY <1>8, <1>10 DEF texts

LEMMA TextsAreFine ==
  ASSUME NEW c \in NpCharts, NEW s \in SectionNames
  PROVE  TextsFine(TextsOf(c, s)) /\ (s = "aspects" => SaidOnce(TextsOf(c, s)))
<1>1. /\ c[s] \in Seq(TextsIn(c[s]))
      /\ \A i \in DOMAIN c[s] : \A n \in 0..c[s][i].words : NpHeight(n) \in Nat
  BY NatalPagesAssumption DEF SectionNames
<1>2. CASE s # "aspects"
  <2>1. TextsOf(c, s) = c[s]
    BY <1>2 DEF TextsOf
  <2>2. Len(c[s]) \in Nat /\ DOMAIN c[s] = 1..Len(c[s]) /\ \A k \in DOMAIN c[s] : c[s][k] \in TextsIn(c[s])
    BY <1>1
  <2>3. \A k \in DOMAIN c[s] : c[s][k].words \in Nat /\ c[s][k].stops \subseteq Nat
    BY <2>2 DEF TextsIn
  <2> QED BY <1>1, <1>2, <2>1, <2>2, <2>3 DEF TextsFine
<1>3. CASE s = "aspects"
  <2> DEFINE a == c.aspects
             shown == Grouped(a)
             E == Elems(a)
  <2>1. TextsOf(c, s) = IF shown = <<>> THEN <<NoneFound>> ELSE Deduped(shown)
    BY <1>3 DEF TextsOf
  <2>2. a \in Seq(E) /\ E \subseteq TextsIn(a)
    BY <1>1, <1>3 DEF Elems
  <2>3. \A x \in E : x.says[1] # "plain" /\ \A n \in 0..x.words : NpHeight(n) \in Nat
    BY <1>1, <1>3, NatalPagesAssumption DEF Elems
  <2>4. shown \in Seq(E)
    <3> HIDE DEF E
    <3> QED BY <2>2, GroupedIsSeq
  <2>5. \A i \in DOMAIN shown : shown[i] \in E
    <3> HIDE DEF E, shown
    <3> QED BY <2>4
  <2>6. shown \in Seq(TextsIn(a))
    <3> HIDE DEF E, shown
    <3> QED BY <2>2, <2>4, SeqOfMore
  <2> HIDE DEF E, shown, a
  <2>7. TextsFine(Deduped(shown)) /\ SaidOnce(Deduped(shown))
    BY <2>3, <2>5, <2>6, DedupedFine
  <2>8. TextsFine(<<NoneFound>>) /\ SaidOnce(<<NoneFound>>)
    <3>1. NoneFound.words = 30 /\ NoneFound.stops = {}
      BY DEF NoneFound
    <3>2. Len(<<NoneFound>>) = 1 /\ DOMAIN <<NoneFound>> = 1..1 /\ <<NoneFound>>[1] = NoneFound
      OBVIOUS
    <3>3. \A k \in 1..1 : k = 1
      OBVIOUS
    <3>4. \A n \in 0..30 : NpHeight(n) \in Nat
      BY NatalPagesAssumption
    <3> HIDE DEF NoneFound
    <3> QED BY <3>1, <3>2, <3>3, <3>4 DEF TextsFine, SaidOnce
  <2> QED BY <2>1, <2>7, <2>8
<1> QED BY <1>2, <1>3

(* The items of a section. *)
LEMMA SectionItemsAre ==
  ASSUME NEW c \in NpCharts, NEW s \in SectionNames
  PROVE  /\ SectionItems(c, s) \in Seq(NpItems(c))
         /\ Whole(SectionItems(c, s), TextsOf(c, s))
         /\ \A i \in DOMAIN SectionItems(c, s) :
              /\ SectionItems(c, s)[i].section = s
              /\ SectionItems(c, s)[i].words \in Nat /\ NpHeight(SectionItems(c, s)[i].words) \in Nat
<1> DEFINE texts == TextsOf(c, s)
           items == SectionItems(c, s)
           limit == ChunkLimit(s)
           m == Len(texts)
<1>1. TextsFine(texts)
  BY TextsAreFine
<1>2. limit \in Nat \ {0}
  BY DEF ChunkLimit, SectionNames
<1>3. items = ItemsOf(s, texts, limit)
  BY DEF SectionItems
<1> HIDE DEF texts, limit
<1>4. m \in Nat /\ DOMAIN texts = 1..m /\ \A k \in 1..m : texts[k].words \in Nat /\ texts[k].stops \subseteq Nat
  BY <1>1 DEF TextsFine
<1> HIDE DEF items, m
<1>5. items \in Seq(ItemOf(s, texts)) /\ Whole(items, texts)
  BY <1>2, <1>3, <1>4, ItemsAreWhole
<1>6. ASSUME NEW x \in ItemOf(s, texts) PROVE x.section = s /\ x.words \in Nat /\ NpHeight(x.words) \in Nat
  <2>1. x.section = s /\ x.of \in DOMAIN texts /\ x.words \in Nat /\ x.words <= texts[x.of].words
    BY DEF ItemOf
  <2>2. x.words \in 0..texts[x.of].words
    BY <1>4, <2>1
  <2> QED BY <1>1, <2>1, <2>2 DEF TextsFine
<1>7. items \in Seq(Elems(items))
  BY <1>5 DEF Elems
<1>8. Elems(items) \subseteq NpItems(c)
  BY DEF NpItems, items
<1>9. items \in Seq(NpItems(c))
  BY <1>7, <1>8, SeqOfMore
<1>10. \A i \in DOMAIN items : items[i] \in ItemOf(s, texts)
  BY <1>5
<1> QED BY <1>5, <1>6, <1>9, <1>10 DEF items, texts

LEMMA ItemsMeasured ==
  ASSUME NEW c \in NpCharts, NEW x \in NpItems(c)
  PROVE  x.words \in Nat /\ NpHeight(x.words) \in Nat
<1>1. PICK s \in SectionNames : x \in Elems(SectionItems(c, s))
  BY DEF NpItems
<1>2. PICK i \in DOMAIN SectionItems(c, s) : x = SectionItems(c, s)[i]
  BY <1>1 DEF Elems
<1> QED BY <1>2, SectionItemsAre

(* The sections, in their order. *)
LEMMA SectionsAre ==
  ASSUME NEW c
  PROVE  /\ SectionsOf(c) \in Seq(SectionNames) /\ Len(SectionsOf(c)) \in 3..4
         /\ SectionsOf(c)[1] = "planets"
         /\ \A i, j \in DOMAIN SectionsOf(c) : SectionsOf(c)[i] = SectionsOf(c)[j] => i = j
         /\ \A s \in SectionNames : s # "houses" => \E i \in DOMAIN SectionsOf(c) : SectionsOf(c)[i] = s
<1> DEFINE p == <<"planets">>
           h == IF c.houses = <<>> THEN <<>> ELSE <<"houses">>
           r == <<"aspects", "reading">>
           order == SectionsOf(c)
           n == Len(h)
<1>1. order = p \o h \o r
  BY DEF SectionsOf
<1>2. /\ p \in Seq(SectionNames) /\ Len(p) = 1 /\ p[1] = "planets"
      /\ r \in Seq(SectionNames) /\ Len(r) = 2 /\ r[1] = "aspects" /\ r[2] = "reading"
  BY DEF SectionNames
<1>3. h \in Seq(SectionNames) /\ n \in 0..1 /\ \A i \in 1..n : h[i] = "houses"
  <2>1. CASE c.houses = <<>>
    <3>1. h = <<>>
      BY <2>1
    <3> HIDE DEF h
    <3> QED BY <3>1
  <2>2. CASE c.houses # <<>>
    <3>1. h = <<"houses">>
      BY <2>2
    <3> HIDE DEF h
    <3> QED BY <3>1 DEF SectionNames
  <2> QED BY <2>1, <2>2
<1> HIDE DEF p, h, r, order
<1>4. /\ p \o h \in Seq(SectionNames) /\ Len(p \o h) = 1 + n /\ (p \o h)[1] = "planets"
      /\ \A i \in 1..n : (p \o h)[1 + i] = "houses"
  <2>1. /\ p \o h \in Seq(SectionNames) /\ Len(p \o h) = Len(p) + Len(h)
        /\ \A i \in 1..Len(p) : (p \o h)[i] = p[i]
        /\ \A i \in 1..Len(h) : (p \o h)[Len(p) + i] = h[i]
    BY <1>2, <1>3, Joined
  <2>2. 1 \in 1..1
    OBVIOUS
  <2> QED BY <1>2, <1>3, <2>1, <2>2
<1>5. /\ order \in Seq(SectionNames) /\ Len(order) = n + 3 /\ DOMAIN order = 1..n + 3
      /\ \A i \in 1..1 + n : order[i] = (p \o h)[i]
      /\ \A i \in 1..2 : order[1 + n + i] = r[i]
  <2> DEFINE ph == p \o h
  <2>1. order = ph \o r /\ ph \in Seq(SectionNames)
    BY <1>1, <1>4
  <2>2. Len(ph) = 1 + n /\ Len(r) = 2 /\ 1 + n + 2 = n + 3
    BY <1>2, <1>3, <1>4
  <2> HIDE DEF ph
  <2>3. /\ ph \o r \in Seq(SectionNames) /\ Len(ph \o r) = Len(ph) + Len(r)
        /\ DOMAIN (ph \o r) = 1..(Len(ph) + Len(r))
        /\ \A i \in 1..Len(ph) : (ph \o r)[i] = ph[i]
        /\ \A i \in 1..Len(r) : (ph \o r)[Len(ph) + i] = r[i]
    BY <1>2, <2>1, Joined
  <2> QED BY <2>1, <2>2, <2>3 DEF ph
<1> HIDE DEF n
<1>6. order[1] = "planets"
  <2>1. 1 \in 1..1 + n
    BY <1>3
  <2> QED BY <1>4, <1>5, <2>1
<1>7. order[n + 2] = "aspects" /\ order[n + 3] = "reading"
  <2>1. 1 \in 1..2 /\ 2 \in 1..2 /\ 1 + n + 1 = n + 2 /\ 1 + n + 2 = n + 3
    BY <1>3
  <2>2. order[1 + n + 1] = r[1] /\ order[1 + n + 2] = r[2]
    BY <1>5, <2>1
  <2> QED BY <1>2, <2>1, <2>2
<1>8. n = 1 => order[2] = "houses"
  <2>1. n = 1 => 1 \in 1..n /\ 2 \in 1..1 + n /\ 1 + 1 = 2
    BY <1>3
  <2>2. n = 1 => (p \o h)[1 + 1] = "houses" /\ order[2] = (p \o h)[2]
    BY <1>4, <1>5, <2>1
  <2> QED BY <2>1, <2>2
<1> DEFINE Apart == \A i, j \in DOMAIN order : order[i] = order[j] => i = j
           AllBut == \A s \in SectionNames : s # "houses" => \E i \in DOMAIN order : order[i] = s
<1>9. n = 0 => Len(order) \in 3..4 /\ order[1] = "planets" /\ Apart /\ AllBut
  <2>0. SUFFICES ASSUME n = 0 PROVE Len(order) \in 3..4 /\ order[1] = "planets" /\ Apart /\ AllBut
    OBVIOUS
  <2>1. /\ DOMAIN order = 1..3 /\ Len(order) = 3
        /\ order[1] = "planets" /\ order[2] = "aspects" /\ order[3] = "reading"
    BY <1>5, <1>6, <1>7, <2>0
  <2>2. \A i \in 1..3 : i = 1 \/ i = 2 \/ i = 3
    OBVIOUS
  <2>3. \A i, j \in 1..3 : order[i] = order[j] => i = j
    BY <2>1, <2>2
  <2>4. \A s \in SectionNames : s # "houses" => \E i \in 1..3 : order[i] = s
    BY <2>1, 1 \in 1..3, 2 \in 1..3, 3 \in 1..3 DEF SectionNames
  <2> QED BY <2>1, <2>3, <2>4
<1>10. n = 1 => Len(order) \in 3..4 /\ order[1] = "planets" /\ Apart /\ AllBut
  <2>0. SUFFICES ASSUME n = 1 PROVE Len(order) \in 3..4 /\ order[1] = "planets" /\ Apart /\ AllBut
    OBVIOUS
  <2>1. /\ DOMAIN order = 1..4 /\ Len(order) = 4
        /\ order[1] = "planets" /\ order[2] = "houses" /\ order[3] = "aspects" /\ order[4] = "reading"
    BY <1>5, <1>6, <1>7, <1>8, <2>0
  <2>2. \A i \in 1..4 : i = 1 \/ i = 2 \/ i = 3 \/ i = 4
    OBVIOUS
  <2>3. \A i, j \in 1..4 : order[i] = order[j] => i = j
    BY <2>1, <2>2
  <2>4. \A s \in SectionNames : s # "houses" => \E i \in 1..4 : order[i] = s
    BY <2>1, 1 \in 1..4, 3 \in 1..4, 4 \in 1..4 DEF SectionNames
  <2> QED BY <2>1, <2>3, <2>4
<1>11. n = 0 \/ n = 1
  BY <1>3
<1> QED BY <1>5, <1>9, <1>10, <1>11 DEF order

-----------------------------------------------------------------------------
(* What a page takes, row by row. *)
IsHeight(u, s, page, first) ==
  /\ u \in [0..Len(page) -> Nat] /\ u[0] = Above(s, first)
  /\ \A i \in 1..Len(page) : u[i] = u[i - 1] + RowHeight(s, page, i)
  /\ RenderedHeight(s, page, first) = u[Len(page)]

LEMMA AboveIs ==
  ASSUME NEW s \in SectionNames, NEW first \in BOOLEAN
  PROVE  Above(s, first) \in Nat /\ Above(s, first) <= PageContent
BY DEF Above, SectionHead, FirstPage, PageContent, SectionNames

LEMMA RowIs ==
  ASSUME NEW s \in SectionNames, NEW S, \A x \in S : NpHeight(x.words) \in Nat,
         NEW page \in Seq(S), NEW i \in 1..Len(page)
  PROVE  RowHeight(s, page, i) \in Nat
<1> DEFINE h == NpHeight(page[i].words)
           gap == IF i > 1 THEN Gap(s) ELSE 0
           headed == page[i].group # "none" /\ (i = 1 \/ page[i - 1].group # page[i].group)
           heading == IF headed THEN GroupHeading ELSE 0
<1>1. RowHeight(s, page, i) = h + gap + heading
  BY DEF RowHeight
<1>2. h \in Nat
  <2>1. page[i] \in S
    OBVIOUS
  <2> QED BY <2>1
<1>3. gap \in Nat
  BY DEF Gap
<1>4. heading \in Nat
  <2> HIDE DEF headed
  <2> QED BY DEF GroupHeading
<1> HIDE DEF h, gap, heading
<1> QED BY <1>1, <1>2, <1>3, <1>4

LEMMA RenderedIs ==
  ASSUME NEW s \in SectionNames, NEW S, \A x \in S : NpHeight(x.words) \in Nat,
         NEW page \in Seq(S), NEW first \in BOOLEAN
  PROVE  \E u : IsHeight(u, s, page, first)
<1> DEFINE n == Len(page)
           Row(i) == RowHeight(s, page, i)
           top == Above(s, first)
           Rec(f) == f = [i \in 0..n |-> IF i = 0 THEN SectionHead + (IF first THEN FirstPage(s) ELSE 0)
                                         ELSE f[i - 1] + RowHeight(s, page, i)]
           u == CHOOSE f : Rec(f)
<1>1. n \in Nat /\ top \in Nat /\ \A i \in 1..n : Row(i) \in Nat
  BY RowIs, AboveIs
<1>2. RenderedHeight(s, page, first) = u[n]
  BY Zenon DEF RenderedHeight
<1>3. \A f : Rec(f) <=> f = [i \in 0..n |-> IF i = 0 THEN top ELSE f[i - 1] + Row(i)]
  BY DEF Above
<1> HIDE DEF n, Row, top, Rec
<1>4. \E f : Rec(f)
  <2> DEFINE step == [p \in Nat \X (1..n) |-> p[1] + Row(p[2])]
  <2>1. IsStep(step, n, Nat)
    BY <1>1 DEF IsStep
  <2>2. \A a \in Nat, i \in 1..n : step[<<a, i>>] = a + Row(i)
    OBVIOUS
  <2> HIDE DEF step
  <2>3. PICK f : IsFold(f, step, n, Nat, top)
    BY <1>1, <2>1, FoldExists, Zenon
  <2>4. f \in [0..n -> Nat] /\ f[0] = top /\ \A i \in 1..n : f[i] = step[<<f[i - 1], i>>]
    BY <2>3 DEF IsFold
  <2>5. ASSUME NEW i \in 0..n PROVE f[i] = IF i = 0 THEN top ELSE f[i - 1] + Row(i)
    <3>1. CASE i = 0
      BY <2>4, <3>1
    <3>2. CASE i # 0
      <4>1. i \in 1..n /\ i - 1 \in 0..n
        BY <1>1, <3>2
      <4>2. f[i - 1] \in Nat
        BY <2>4, <4>1
      <4> QED BY <2>2, <2>4, <3>2, <4>1, <4>2
    <3> QED BY <3>1, <3>2
  <2>6. f = [i \in 0..n |-> IF i = 0 THEN top ELSE f[i - 1] + Row(i)]
    BY <2>4, <2>5
  <2> QED BY <1>3, <2>6
<1>5. Rec(u)
  BY <1>4, Zenon
<1> HIDE DEF u
<1>6. u = [i \in 0..n |-> IF i = 0 THEN top ELSE u[i - 1] + Row(i)]
  BY <1>3, <1>5
<1>7. u[0] = top /\ \A i \in 1..n : u[i] = u[i - 1] + Row(i)
  <2>1. \A i \in 0..n : u[i] = IF i = 0 THEN top ELSE u[i - 1] + Row(i)
    BY <1>6
  <2>2. 0 \in 0..n /\ \A i \in 1..n : i \in 0..n /\ i # 0
    BY <1>1
  <2> QED BY <2>1, <2>2
<1> DEFINE T == {i \in 0..n : u[i] \in Nat}
<1>8. \A i \in 0..n : i \in T
  <2>1. 0 \in T
    BY <1>1, <1>7
  <2>2. ASSUME NEW i \in 1..n, i - 1 \in T PROVE i \in T
    <3>1. u[i] = u[i - 1] + Row(i) /\ Row(i) \in Nat /\ u[i - 1] \in Nat /\ i \in 0..n
      BY <1>1, <1>7, <2>2
    <3> QED BY <3>1
  <2> HIDE DEF T
  <2> QED BY <1>1, <2>1, <2>2, StepByStep, Zenon
<1>9. u \in [0..n -> Nat]
  BY <1>6, <1>8
<1> QED BY <1>2, <1>7, <1>9 DEF IsHeight, n, Row, top

LEMMA RenderedEmpty ==
  ASSUME NEW s \in SectionNames, NEW first \in BOOLEAN
  PROVE  RenderedHeight(s, <<>>, first) = Above(s, first)
<1>1. <<>> \in Seq({}) /\ Len(<<>>) = 0 /\ \A x \in {} : NpHeight(x.words) \in Nat
  OBVIOUS
<1>2. PICK u : IsHeight(u, s, <<>>, first)
  BY <1>1, RenderedIs
<1> QED BY <1>1, <1>2 DEF IsHeight

(* What the packing counts for an item. *)
Taken(s, item, page) ==
  NpHeight(item.words) + (IF page = <<>> THEN 0 ELSE Gap(s))
  + (IF item.group # "none" /\ (page = <<>> \/ Last(page).group # item.group) THEN GroupHeading ELSE 0)

LEMMA RenderedAppend ==
  ASSUME NEW s \in SectionNames, NEW S, \A x \in S : NpHeight(x.words) \in Nat,
         NEW page \in Seq(S), NEW item \in S, NEW first \in BOOLEAN
  PROVE  /\ RenderedHeight(s, Append(page, item), first) = RenderedHeight(s, page, first) + Taken(s, item, page)
         /\ RenderedHeight(s, page, first) \in Nat /\ Taken(s, item, page) \in Nat
<1> DEFINE n == Len(page)
           more == Append(page, item)
<1>1. /\ more \in Seq(S) /\ Len(more) = n + 1 /\ n \in Nat
      /\ \A i \in 1..n : more[i] = page[i]
      /\ more[n + 1] = item
  OBVIOUS
<1>2. page = <<>> <=> n = 0
  OBVIOUS
<1>3. n # 0 => Last(page) = page[n]
  BY DEF Last
<1> HIDE DEF more
<1>4. PICK f : IsHeight(f, s, page, first)
  BY RenderedIs
<1>5. PICK g : IsHeight(g, s, more, first)
  BY <1>1, RenderedIs
<1> HIDE DEF n
<1>6. ASSUME NEW i \in 1..n PROVE RowHeight(s, more, i) = RowHeight(s, page, i)
  <2>1. more[i] = page[i] /\ (i # 1 => more[i - 1] = page[i - 1])
    <3>1. i # 1 => i - 1 \in 1..n
      BY <1>1
    <3> QED BY <1>1, <3>1
  <2> QED BY <2>1 DEF RowHeight
<1>7. RowHeight(s, more, n + 1) = Taken(s, item, page)
  <2> DEFINE k == n + 1
  <2>1. more[k] = item /\ (k > 1 <=> n # 0) /\ (k = 1 <=> n = 0) /\ k - 1 = n
    BY <1>1
  <2>2. n # 0 => more[k - 1] = Last(page)
    <3>1. n # 0 => n \in 1..n
      BY <1>1
    <3> QED BY <1>1, <1>3, <2>1, <3>1
  <2> HIDE DEF k
  <2>3. RowHeight(s, more, k) = Taken(s, item, page)
    <3>1. CASE n = 0
      BY <1>2, <2>1, <3>1 DEF RowHeight, Taken
    <3>2. CASE n # 0
      BY <1>2, <2>1, <2>2, <3>2 DEF RowHeight, Taken
    <3> QED BY <3>1, <3>2
  <2> QED BY <2>3 DEF k
<1>8. /\ f \in [0..n -> Nat] /\ f[0] = Above(s, first) /\ RenderedHeight(s, page, first) = f[n]
      /\ \A i \in 1..n : f[i] = f[i - 1] + RowHeight(s, page, i)
  BY <1>4 DEF IsHeight, n
<1>9. /\ g \in [0..n + 1 -> Nat] /\ g[0] = Above(s, first) /\ RenderedHeight(s, more, first) = g[n + 1]
      /\ \A i \in 1..n + 1 : g[i] = g[i - 1] + RowHeight(s, more, i)
  BY <1>1, <1>5 DEF IsHeight
<1> DEFINE T == {i \in 0..n : f[i] = g[i]}
<1>10. \A i \in 0..n : i \in T
  <2>1. 0 \in T
    BY <1>1, <1>8, <1>9
  <2>2. ASSUME NEW i \in 1..n, i - 1 \in T PROVE i \in T
    <3>1. i \in 1..n + 1 /\ i \in 0..n /\ f[i - 1] = g[i - 1]
      BY <1>1, <2>2
    <3>2. f[i] = f[i - 1] + RowHeight(s, page, i) /\ g[i] = g[i - 1] + RowHeight(s, more, i)
      BY <1>8, <1>9, <3>1
    <3>3. f[i] = g[i]
      BY <1>6, <3>1, <3>2
    <3> QED BY <3>1, <3>3
  <2> HIDE DEF T
  <2> QED BY <1>1, <2>1, <2>2, StepByStep, Zenon
<1>11. n \in 0..n /\ n + 1 \in 1..n + 1 /\ n + 1 - 1 = n
  BY <1>1
<1>12. f[n] = g[n] /\ f[n] \in Nat
  BY <1>8, <1>10, <1>11
<1>13. g[n + 1] = g[n] + Taken(s, item, page)
  <2>1. ASSUME NEW m \in 1..n + 1, m = n + 1 PROVE g[m] = g[n] + Taken(s, item, page)
    <3>1. g[m] = g[m - 1] + RowHeight(s, more, m)
      BY <1>9
    <3>2. m - 1 = n /\ RowHeight(s, more, m) = Taken(s, item, page)
      BY <1>1, <1>7, <2>1
    <3> QED BY <3>1, <3>2
  <2> QED BY <1>11, <2>1
<1>14. Taken(s, item, page) \in Nat
  <2>1. ASSUME NEW m \in 1..Len(more), m = n + 1 PROVE RowHeight(s, more, m) \in Nat
    BY <1>1, RowIs
  <2>2. n + 1 \in 1..Len(more)
    BY <1>1
  <2> QED BY <1>7, <2>1, <2>2
<1> QED BY <1>8, <1>9, <1>12, <1>13, <1>14 DEF more

-----------------------------------------------------------------------------
(* Every step keeps the items in order and the page counted. *)
LEMMA SameSequence ==
  ASSUME NEW S, NEW a \in Seq(S), NEW b \in Seq(S), Len(a) = Len(b), \A i \in 1..Len(a) : a[i] = b[i]
  PROVE  a = b
OBVIOUS

LEMMA ItemMoves ==
  ASSUME NEW S, NEW b \in Seq(S), NEW l \in Seq(S), l # <<>>
  PROVE  Append(b, l[1]) \o Tail(l) = b \o l
<1> DEFINE x == Append(b, l[1])
           t == Tail(l)
           n == Len(b)
           m == Len(l)
<1>1. /\ x \in Seq(S) /\ Len(x) = n + 1 /\ n \in Nat /\ x[n + 1] = l[1] /\ \A i \in 1..n : x[i] = b[i]
      /\ t \in Seq(S) /\ Len(t) = m - 1 /\ m \in Nat \ {0} /\ \A i \in 1..m - 1 : t[i] = l[i + 1]
  OBVIOUS
<1> HIDE DEF x, t
<1>2. /\ x \o t \in Seq(S) /\ Len(x \o t) = Len(x) + Len(t)
      /\ \A i \in 1..Len(x) : (x \o t)[i] = x[i]
      /\ \A i \in 1..Len(t) : (x \o t)[Len(x) + i] = t[i]
  <2>1. x \in Seq(S) /\ t \in Seq(S)
    BY <1>1
  <2> QED BY <2>1, Joined
<1>3. /\ b \o l \in Seq(S) /\ Len(b \o l) = n + m
      /\ \A i \in 1..n : (b \o l)[i] = b[i]
      /\ \A i \in 1..m : (b \o l)[n + i] = l[i]
  BY Joined
<1> DEFINE p == x \o t
           q == b \o l
<1> HIDE DEF p, q, n, m
<1>4. /\ p \in Seq(S) /\ q \in Seq(S) /\ Len(p) = n + m /\ Len(q) = n + m
      /\ \A i \in 1..n + 1 : p[i] = x[i]
      /\ \A i \in 1..m - 1 : p[n + 1 + i] = l[i + 1]
      /\ \A i \in 1..n : q[i] = b[i]
      /\ \A i \in 1..m : q[n + i] = l[i]
  <2>1. Len(x) + Len(t) = n + m
    BY <1>1 DEF n, m
  <2> QED BY <1>1, <1>2, <1>3, <2>1 DEF p, q, n, m
<1>5. ASSUME NEW i \in 1..n + m PROVE p[i] = q[i]
  <2>1. CASE i \in 1..n
    <3>1. i \in 1..n + 1
      BY <1>1, <2>1
    <3> QED BY <1>1, <1>4, <2>1, <3>1
  <2>2. CASE i = n + 1
    <3>1. i \in 1..n + 1 /\ 1 \in 1..m
      BY <1>1, <2>2
    <3>2. p[i] = x[n + 1] /\ q[n + 1] = l[1]
      BY <1>4, <2>2, <3>1
    <3> QED BY <1>1, <2>2, <3>2
  <2>3. CASE i > n + 1
    <3> DEFINE k == i - n - 1
    <3>1. k \in 1..m - 1 /\ k + 1 \in 1..m /\ n + 1 + k = i /\ n + (k + 1) = i
      BY <1>1, <2>3
    <3>2. p[n + 1 + k] = l[k + 1] /\ q[n + (k + 1)] = l[k + 1]
      <4> HIDE DEF k
      <4> QED BY <1>4, <3>1
    <3> QED BY <3>1, <3>2
  <2> QED BY <1>1, <2>1, <2>2, <2>3
<1> HIDE DEF p, q
<1>6. p = q
  BY <1>4, <1>5, SameSequence
<1> QED BY <1>6 DEF p, q, x, t

LEMMA JoinAppend ==
  ASSUME NEW S, NEW a \in Seq(S), NEW p \in Seq(S), NEW e \in S
  PROVE  a \o Append(p, e) = Append(a \o p, e) /\ <<e>> = Append(<<>>, e) /\ a \o <<>> = a
<1> DEFINE x == Append(p, e)
           j == a \o p
           y == Append(j, e)
           n == Len(a)
           m == Len(p)
<1>1. x \in Seq(S) /\ Len(x) = m + 1 /\ n \in Nat /\ m \in Nat /\ x[m + 1] = e /\ \A i \in 1..m : x[i] = p[i]
  OBVIOUS
<1>2. /\ j \in Seq(S) /\ Len(j) = n + m /\ \A i \in 1..n : j[i] = a[i]
      /\ \A i \in 1..m : j[n + i] = p[i]
  BY Joined
<1> HIDE DEF x, j
<1>3. y \in Seq(S) /\ Len(y) = n + m + 1 /\ y[n + m + 1] = e /\ \A i \in 1..n + m : y[i] = j[i]
  BY <1>1, <1>2
<1>4. /\ a \o x \in Seq(S) /\ Len(a \o x) = n + (m + 1) /\ \A i \in 1..n : (a \o x)[i] = a[i]
      /\ \A i \in 1..m + 1 : (a \o x)[n + i] = x[i]
  <2>1. x \in Seq(S)
    BY <1>1
  <2>2. /\ a \o x \in Seq(S) /\ Len(a \o x) = Len(a) + Len(x) /\ \A i \in 1..Len(a) : (a \o x)[i] = a[i]
        /\ \A i \in 1..Len(x) : (a \o x)[Len(a) + i] = x[i]
    BY <2>1, Joined
  <2> QED BY <1>1, <2>2
<1> DEFINE z == a \o x
<1> HIDE DEF n, m, y, z
<1>5. z \in Seq(S) /\ Len(z) = n + m + 1 /\ (\A i \in 1..n : z[i] = a[i]) /\ (\A i \in 1..m + 1 : z[n + i] = x[i])
  BY <1>1, <1>4 DEF z
<1>6. ASSUME NEW i \in 1..n + m + 1 PROVE z[i] = y[i]
  <2>1. CASE i \in 1..n
    <3>1. i \in 1..n + m
      BY <1>1, <2>1
    <3> QED BY <1>2, <1>3, <1>5, <2>1, <3>1
  <2>2. CASE i > n /\ i <= n + m
    <3> DEFINE k == i - n
    <3>1. k \in 1..m /\ k \in 1..m + 1 /\ n + k = i /\ i \in 1..n + m
      BY <1>1, <2>2
    <3>2. z[n + k] = x[k] /\ x[k] = p[k] /\ j[n + k] = p[k] /\ y[i] = j[i]
      <4> HIDE DEF k
      <4> QED BY <1>1, <1>2, <1>3, <1>5, <3>1
    <3> QED BY <3>1, <3>2
  <2>3. CASE i = n + m + 1
    <3>1. m + 1 \in 1..m + 1 /\ i = n + (m + 1)
      BY <1>1, <2>3
    <3>2. z[n + (m + 1)] = x[m + 1]
      BY <1>5, <3>1
    <3>3. z[i] = e
      BY <1>1, <3>1, <3>2
    <3>4. y[i] = e
      BY <1>3, <2>3
    <3> QED BY <3>3, <3>4
  <2>4. n \in Nat /\ m \in Nat
    BY <1>1
  <2>5. i \in 1..n \/ (i > n /\ i <= n + m) \/ i = n + m + 1
    BY <2>4
  <2> QED BY <2>1, <2>2, <2>3, <2>5
<1>7. z = y
  BY <1>3, <1>5, <1>6, SameSequence
<1>8. <<e>> = Append(<<>>, e) /\ a \o <<>> = a
  OBVIOUS
<1> QED BY <1>7, <1>8 DEF z, y, x, j

LEMMA FlattenNothing == FlattenSeq(<<>>) = <<>>
<1>1. <<>> \in Seq(Seq({})) /\ Len(<<>>) = 0
  OBVIOUS
<1>2. PICK f : IsString(f, <<>>, {})
  BY <1>1, FlattenSteps
<1> QED BY <1>1, <1>2 DEF IsString

LEMMA SectionAtWork ==
  ASSUME NpTypes, npSections # <<>>
  PROVE  /\ NpDone \in Nat /\ NpDone + 1 \in 1..Len(NpOrder) /\ Len(NpOrder) \in Nat /\ Len(npSections) \in Nat \ {0}
         /\ npSections[1] = NpOrder[NpDone + 1] /\ Head(npSections) = npSections[1]
         /\ npSections[1] \in SectionNames /\ npSplit[npSections[1]] \in Seq(Seq(NpItems(npChart)))
         /\ \A i \in 1..NpDone : NpOrder[i] # npSections[1] /\ NpOrder[i] \in SectionNames
<1> DEFINE order == NpOrder
           k == Len(npSections)
<1>1. /\ npSections \in Seq(SectionNames) /\ k <= Len(order) /\ npSplit \in [SectionNames -> Seq(Seq(NpItems(npChart)))]
      /\ \A j \in 1..k : npSections[j] = order[NpDone + j]
  BY DEF NpTypes
<1>2. /\ order \in Seq(SectionNames) /\ Len(order) \in Nat
      /\ \A i, j \in DOMAIN order : order[i] = order[j] => i = j
  BY SectionsAre DEF NpOrder
<1> HIDE DEF order
<1>3. k \in Nat \ {0} /\ Head(npSections) = npSections[1] /\ npSections[1] \in SectionNames
  BY <1>1
<1>4. NpDone = Len(order) - k
  BY DEF NpDone, order
<1> HIDE DEF k
<1>5. NpDone \in Nat /\ NpDone + 1 \in 1..Len(order) /\ 1 \in 1..k
  BY <1>1, <1>2, <1>3, <1>4
<1>6. npSections[1] = order[NpDone + 1]
  BY <1>1, <1>5
<1>7. DOMAIN order = 1..Len(order) /\ \A i \in 1..Len(order) : order[i] \in SectionNames
  BY <1>2
<1>8. ASSUME NEW i \in 1..NpDone PROVE order[i] # npSections[1] /\ order[i] \in SectionNames
  <2>1. i \in 1..Len(order) /\ i # NpDone + 1
    BY <1>2, <1>5
  <2> QED BY <1>2, <1>5, <1>6, <1>7, <2>1
<1> QED BY <1>1, <1>2, <1>3, <1>5, <1>6, <1>8 DEF order, k

LEMMA NothingCounted ==
  ASSUME NEW s \in SectionNames
  PROVE  Counted(s, <<>>, <<>>, 0)
<1> DEFINE b == <<>> = <<>>
<1>1. b \in BOOLEAN /\ b
  OBVIOUS
<1> HIDE DEF b
<1>2. /\ RenderedHeight(s, <<>>, b) = Above(s, b)
      /\ Above(s, b) \in Nat /\ Above(s, b) <= PageContent
  BY <1>1, RenderedEmpty, AboveIs
<1> DEFINE a == Above(s, b)
<1>3. a = a + 0 /\ a + 0 <= PageContent
  <2>1. a \in Nat /\ a <= PageContent
    BY <1>2
  <2> HIDE DEF a
  <2> QED BY <2>1 DEF PageContent
<1> QED BY <1>2, <1>3 DEF Counted, b

LEMMA NpInvInit == NpInit => NpInv
<1> SUFFICES ASSUME NpInit PROVE NpInv
  OBVIOUS
<1> DEFINE c == npChart
           S == NpItems(c)
<1>1. /\ c \in NpCharts /\ npBy = "measuring" /\ npSections = NpOrder
      /\ npLeft = SectionItems(c, "planets") /\ npPage = <<>> /\ npUsed = 0
      /\ npSplit = [s \in SectionNames |-> <<>>]
  BY DEF NpInit, NpOrder, SectionNames
<1>2. /\ NpOrder \in Seq(SectionNames) /\ Len(NpOrder) \in 3..4 /\ NpOrder[1] = "planets"
  BY SectionsAre DEF NpOrder
<1>3. NpDone = 0 /\ npSections # <<>> /\ npSections[1] = "planets" /\ DOMAIN NpOrder = 1..Len(NpOrder)
  <2>1. Len(NpOrder) - Len(NpOrder) = 0 /\ NpOrder # <<>>
    BY <1>2
  <2> QED BY <1>1, <1>2, <2>1 DEF NpDone
<1>4. npLeft \in Seq(S)
  BY <1>1, SectionItemsAre DEF SectionNames
<1> HIDE DEF S
<1>5. NpTypes
  <2>1. npPage \in Seq(S) /\ npSplit \in [SectionNames -> Seq(Seq(S))]
    BY <1>1
  <2>2. \A j \in DOMAIN npSections : npSections[j] = NpOrder[NpDone + j]
    <3>1. ASSUME NEW j \in 1..Len(NpOrder) PROVE 0 + j = j
      OBVIOUS
    <3> QED BY <1>1, <1>3, <3>1
  <2>3. Len(npSections) <= Len(NpOrder) /\ npUsed \in Int
    BY <1>1, <1>2
  <2> QED BY <1>1, <1>2, <1>4, <2>1, <2>2, <2>3 DEF NpTypes, S
<1>6. NpPrinted
  <2>1. \A i \in 1..NpDone : SectionPrinted(npChart, NpOrder[i], npSplit[NpOrder[i]])
    BY <1>3
  <2>2. \A s \in SectionNames : npSplit[s] = <<>>
    BY <1>1
  <2>3. <<>> \o <<>> \o npLeft = npLeft
    BY <1>4
  <2>4. npSplit[npSections[1]] = <<>>
    BY <1>3, <2>2 DEF SectionNames
  <2>5. FlattenSeq(npSplit[npSections[1]]) \o npPage \o npLeft = SectionItems(npChart, npSections[1])
    BY <1>1, <1>3, <2>3, <2>4, FlattenNothing
  <2> QED BY <1>3, <2>1, <2>2, <2>5 DEF NpPrinted
<1>7. NpMeasured
  BY <1>1, <1>3 DEF NpMeasured
<1> QED BY <1>5, <1>6, <1>7 DEF NpInv

LEMMA MeasuredKeeps == NpInv /\ Measured => NpInv'
<1> SUFFICES ASSUME NpInv, Measured PROVE NpInv'
  OBVIOUS
<1>1. /\ npBy = "measuring" /\ npBy' \in {"heights", "words"}
      /\ UNCHANGED <<npChart, npSections, npLeft, npPage, npUsed, npSplit>>
      /\ NpOrder' = NpOrder /\ NpDone' = NpDone
  BY DEF Measured, NpOrder, NpDone
<1>2. NpTypes /\ NpPrinted /\ NpMeasured
  BY DEF NpInv
<1>3. NpTypes'
  BY <1>1, <1>2 DEF NpTypes
<1>4. NpPrinted'
  BY <1>1, <1>2 DEF NpPrinted
<1>5. NpMeasured'
  <2>1. npPage = <<>> /\ npUsed = 0 /\ \A s \in SectionNames : npSplit[s] = <<>>
    BY <1>1, <1>2 DEF NpMeasured
  <2>2. \A s \in SectionNames : AllFit(s, npSplit[s])
    <3>1. \A s : AllFit(s, <<>>)
      BY DEF AllFit
    <3> QED BY <2>1, <3>1
  <2>3. npSections # <<>> => Counted(npSections[1], npSplit[npSections[1]], npPage, npUsed)
    <3>1. npSections # <<>> => npSections[1] \in SectionNames
      BY <1>2, SectionAtWork
    <3> QED BY <2>1, <3>1, NothingCounted
  <2>4. npBy' # "measuring"
    BY <1>1
  <2>5. (\A s \in SectionNames : AllFit(s, npSplit[s]))'
    BY <1>1, <2>2
  <2>6. (npSections # <<>> => Counted(npSections[1], npSplit[npSections[1]], npPage, npUsed))'
    BY <1>1, <2>3
  <2> QED BY <2>4, <2>5, <2>6 DEF NpMeasured
<1> QED BY <1>3, <1>4, <1>5 DEF NpInv

(* The item in hand, and what it takes. *)
LEMMA ItemInHand ==
  ASSUME NpInv, npLeft # <<>>
  PROVE  /\ npSections # <<>> /\ npLeft[1] = Head(npLeft) /\ npLeft[1] \in NpItems(npChart)
         /\ Tail(npLeft) \in Seq(NpItems(npChart))
         /\ npLeft[1].section = npSections[1]
         /\ npBy # "measuring" => \A page : Cost(npLeft[1], page) =
              IF npBy = "heights" THEN Taken(npSections[1], npLeft[1], page)
              ELSE npLeft[1].words + (IF npSections[1] = "reading" THEN 10 ELSE 14)
<1> DEFINE c == npChart
           S == NpItems(c)
           s == npSections[1]
           item == npLeft[1]
           flat == FlattenSeq(npSplit[s]) \o npPage
<1>1. c \in NpCharts /\ npLeft \in Seq(S) /\ npPage \in Seq(S) /\ npSections # <<>>
      /\ flat \o npLeft = SectionItems(c, s)
  BY DEF NpInv, NpTypes, NpPrinted
<1>2. s \in SectionNames /\ npSplit[s] \in Seq(Seq(S))
  BY <1>1, SectionAtWork DEF NpInv
<1>3. flat \in Seq(S)
  <2>1. FlattenSeq(npSplit[s]) \in Seq(S)
    BY <1>2, FlattenIsSeq
  <2> QED BY <1>1, <2>1, Joined
<1>4. item = Head(npLeft) /\ item \in S /\ Tail(npLeft) \in Seq(S) /\ Len(npLeft) \in Nat \ {0} /\ 1 \in 1..Len(npLeft)
  <2> HIDE DEF S
  <2> QED BY <1>1
<1>5. item.section = s
  <2> HIDE DEF flat
  <2>1. /\ DOMAIN (flat \o npLeft) = 1..(Len(flat) + Len(npLeft)) /\ Len(flat) \in Nat
        /\ \A i \in 1..Len(npLeft) : (flat \o npLeft)[Len(flat) + i] = npLeft[i]
    BY <1>1, <1>3, Joined
  <2>2. Len(flat) + 1 \in 1..(Len(flat) + Len(npLeft))
    BY <1>4, <2>1
  <2>3. SectionItems(c, s)[Len(flat) + 1] = item /\ Len(flat) + 1 \in DOMAIN SectionItems(c, s)
    BY <1>1, <1>4, <2>1, <2>2
  <2> QED BY <1>1, <1>2, <2>3, SectionItemsAre
<1>6. ASSUME npBy # "measuring", NEW page
      PROVE  Cost(item, page) = IF npBy = "heights" THEN Taken(s, item, page)
                                ELSE item.words + (IF s = "reading" THEN 10 ELSE 14)
  BY <1>5 DEF Cost, Taken
<1> QED BY <1>1, <1>4, <1>5, <1>6

LEMMA PagePutAway ==
  ASSUME NEW s \in SectionNames, NEW S, NEW split \in Seq(Seq(S)), NEW page \in Seq(S), NEW used,
         AllFit(s, split), Counted(s, split, page, used)
  PROVE  AllFit(s, Append(split, page))
<1> DEFINE more == Append(split, page)
           n == Len(split)
<1>1. /\ n \in Nat /\ DOMAIN more = 1..n + 1 /\ DOMAIN split = 1..n /\ (split = <<>> <=> n = 0)
      /\ \A i \in 1..n : more[i] = split[i]
      /\ more[n + 1] = page
  OBVIOUS
<1>2. PageFits(s, page, split = <<>>)
  BY DEF Counted, PageFits
<1> HIDE DEF more, n
<1>3. ASSUME NEW i \in 1..n + 1 PROVE PageFits(s, more[i], i = 1)
  <2>1. CASE i \in 1..n
    <3>1. PageFits(s, split[i], i = 1) /\ more[i] = split[i]
      BY <1>1, <2>1 DEF AllFit
    <3> QED BY <3>1
  <2>2. CASE i = n + 1
    <3>1. more[i] = page
      BY <1>1, <2>2
    <3>2. (i = 1) = (split = <<>>)
      BY <1>1, <2>2
    <3> QED BY <1>2, <3>1, <3>2
  <2> QED BY <1>1, <2>1, <2>2
<1> QED BY <1>1, <1>3 DEF AllFit, more

LEMMA PlaceItemKeeps == NpInv /\ PlaceItem => NpInv'
<1> SUFFICES ASSUME NpInv, PlaceItem PROVE NpInv'
  OBVIOUS
<1> DEFINE c == npChart
           S == NpItems(c)
           s == npSections[1]
           split == npSplit[s]
           item == npLeft[1]
           flat == FlattenSeq(split)
           fits == npPage = <<>> \/ npUsed + Cost(item, npPage) <= Budget(s, split = <<>>)
<1>1. NpTypes /\ NpPrinted /\ NpMeasured
  BY DEF NpInv
<1>2. npBy # "measuring" /\ npLeft # <<>> /\ UNCHANGED <<npChart, npBy, npSections>> /\ npLeft' = Tail(npLeft)
  BY DEF PlaceItem
<1>3. /\ npSections # <<>> /\ item = Head(npLeft) /\ item \in S /\ Tail(npLeft) \in Seq(S)
      /\ \A page : Cost(item, page) =
           IF npBy = "heights" THEN Taken(s, item, page)
           ELSE item.words + (IF s = "reading" THEN 10 ELSE 14)
  BY <1>2, ItemInHand
<1>4. /\ NpDone \in Nat /\ NpDone + 1 \in 1..Len(NpOrder) /\ s = NpOrder[NpDone + 1] /\ Head(npSections) = s
      /\ s \in SectionNames /\ split \in Seq(Seq(S)) /\ \A i \in 1..NpDone : NpOrder[i] # s
  BY <1>1, <1>3, SectionAtWork
<1>5. /\ fits => npPage' = Append(npPage, item) /\ npUsed' = npUsed + Cost(item, npPage) /\ npSplit' = npSplit
      /\ ~fits => /\ npSplit' = [npSplit EXCEPT ![s] = Append(@, npPage)]
                  /\ npPage' = <<item>> /\ npUsed' = Cost(item, <<>>)
  BY <1>3, <1>4 DEF PlaceItem
<1>6. /\ c \in NpCharts /\ npBy \in {"measuring", "heights", "words"} /\ npPage \in Seq(S) /\ npUsed \in Int
      /\ npSplit \in [SectionNames -> Seq(Seq(S))] /\ npLeft \in Seq(S)
  BY <1>1 DEF NpTypes
<1> HIDE DEF S
<1>7. \A x \in S : x.words \in Nat /\ NpHeight(x.words) \in Nat
  BY <1>6, ItemsMeasured DEF S
<1>8. ASSUME NEW page \in Seq(S) PROVE Cost(item, page) \in Nat
  <2>1. Taken(s, item, page) \in Nat
    BY <1>3, <1>4, <1>7, RenderedAppend
  <2>2. item.words + (IF s = "reading" THEN 10 ELSE 14) \in Nat
    BY <1>3, <1>7
  <2> QED BY <1>3, <2>1, <2>2
<1>9. <<>> \in Seq(S) /\ <<item>> \in Seq(S) /\ Append(npPage, item) \in Seq(S) /\ <<item>> = Append(<<>>, item)
  BY <1>3, <1>6
<1>10. flat \in Seq(S) /\ flat \o npPage \in Seq(S) /\ flat \o npPage \o npLeft = SectionItems(c, s)
  <2>1. flat \in Seq(S)
    BY <1>4, FlattenIsSeq
  <2> QED BY <1>1, <1>3, <1>6, <2>1, Joined DEF NpPrinted
<1>11. Append(flat \o npPage, item) \o Tail(npLeft) = flat \o npPage \o npLeft
  BY <1>2, <1>6, <1>10, ItemMoves
<1>12. npBy = "heights" => AllFit(s, split) /\ Counted(s, split, npPage, npUsed)
  BY <1>1, <1>3, <1>4 DEF NpMeasured
<1> HIDE DEF item, fits
<1> DEFINE Others(sp) == /\ sp \in [SectionNames -> Seq(Seq(S))]
                        /\ \A t \in SectionNames : t # s => sp[t] = npSplit[t]
           Goes(sp, page, used) ==
             /\ page \in Seq(S) /\ used \in Int
             /\ FlattenSeq(sp) \o page \o Tail(npLeft) = SectionItems(c, s)
             /\ npBy = "heights" => AllFit(s, sp) /\ Counted(s, sp, page, used)
<1>13. Others(npSplit') /\ Goes(npSplit'[s], npPage', npUsed')
  <2>1. CASE fits
    <3> DEFINE page == Append(npPage, item)
               used == npUsed + Cost(item, npPage)
    <3>1. npPage' = page /\ npUsed' = used /\ npSplit' = npSplit
      BY <1>5, <2>1
    <3>2. page \in Seq(S) /\ used \in Int
      BY <1>6, <1>8, <1>9
    <3>3. flat \o page \o Tail(npLeft) = SectionItems(c, s)
      <4>1. flat \o page = Append(flat \o npPage, item)
        BY <1>3, <1>6, <1>10, JoinAppend
      <4> QED BY <1>10, <1>11, <4>1
    <3>4. npBy = "heights" => Counted(s, split, page, used)
      <4> SUFFICES ASSUME npBy = "heights" PROVE Counted(s, split, page, used)
        OBVIOUS
      <4> DEFINE b == split = <<>>
                 high == RenderedHeight(s, npPage, b)
                 top == Above(s, b)
                 cost == Cost(item, npPage)
      <4>1. b \in BOOLEAN
        OBVIOUS
      <4>2. high = top + npUsed
        BY <1>12 DEF Counted
      <4>3. cost = Taken(s, item, npPage) /\ cost \in Nat
        BY <1>3, <1>6, <1>8
      <4>4. fits => npPage = <<>> \/ npUsed + cost <= Budget(s, b)
        BY DEF fits
      <4> HIDE DEF b
      <4>5. RenderedHeight(s, page, b) = high + Taken(s, item, npPage)
        BY <1>3, <1>4, <1>6, <1>7, <4>1, RenderedAppend
      <4>6. top \in Nat /\ Budget(s, b) = PageContent - top
        <5>1. top \in Nat
          BY <1>4, <4>1, AboveIs
        <5>2. Budget(s, b) = PageContent - SectionHead - (IF b THEN FirstPage(s) ELSE 0)
          BY DEF Budget
        <5>3. (IF b THEN FirstPage(s) ELSE 0) \in Nat
          BY <1>4 DEF FirstPage, SectionNames
        <5> DEFINE x == IF b THEN FirstPage(s) ELSE 0
        <5>4. x \in Nat /\ top = SectionHead + x /\ Budget(s, b) = PageContent - SectionHead - x
          BY <5>2, <5>3 DEF Above
        <5> HIDE DEF x, top
        <5> QED BY <5>1, <5>4 DEF PageContent, SectionHead
      <4> HIDE DEF high, top, cost
      <4>7. RenderedHeight(s, page, b) = top + used
        BY <1>6, <4>2, <4>3, <4>5, <4>6 DEF cost
      <4>8. top + used <= PageContent \/ Len(page) = 1
        <5>1. CASE npPage = <<>>
          <6>1. Len(page) = 1
            BY <1>3, <5>1
          <6> QED BY <6>1
        <5>2. CASE npUsed + cost <= Budget(s, b)
          BY <1>6, <4>3, <4>6, <5>2 DEF cost, PageContent
        <5> QED BY <2>1, <4>4, <5>1, <5>2
      <4> HIDE DEF page, used
      <4> QED BY <4>7, <4>8 DEF Counted, b, top
    <3> HIDE DEF page, used
    <3> QED BY <1>6, <1>12, <3>1, <3>2, <3>3, <3>4
  <2>2. CASE ~fits
    <3> DEFINE more == Append(split, npPage)
               page == <<item>>
               used == Cost(item, <<>>)
    <3>1. npPage' = page /\ npUsed' = used /\ npSplit' = [npSplit EXCEPT ![s] = more]
      BY <1>5, <2>2
    <3>2. page \in Seq(S) /\ used \in Int
      <4>1. used \in Nat
        <5> DEFINE none == <<>>
        <5>1. none \in Seq(S)
          BY <1>9
        <5> HIDE DEF none
        <5>2. Cost(item, none) \in Nat
          BY <1>8, <5>1
        <5> QED BY <5>2 DEF none
      <4> HIDE DEF used
      <4> QED BY <1>9, <4>1
    <3>3. more \in Seq(Seq(S)) /\ more # <<>>
      <4>1. \A a \in Seq(Seq(S)), p \in Seq(S) : Append(a, p) \in Seq(Seq(S)) /\ Append(a, p) # <<>>
        OBVIOUS
      <4> QED BY <1>4, <1>6, <4>1, Zenon
    <3>4. FlattenSeq(more) \o page \o Tail(npLeft) = SectionItems(c, s)
      <4>1. FlattenSeq(more) = flat \o npPage
        BY <1>4, <1>6, FlattenAppend
      <4>2. (flat \o npPage) \o Append(<<>>, item) = Append((flat \o npPage) \o <<>>, item)
            /\ (flat \o npPage) \o <<>> = flat \o npPage
        BY <1>3, <1>9, <1>10, JoinAppend
      <4> QED BY <1>9, <1>10, <1>11, <4>1, <4>2
    <3>5. npBy = "heights" => AllFit(s, more) /\ Counted(s, more, page, used)
      <4> SUFFICES ASSUME npBy = "heights" PROVE AllFit(s, more) /\ Counted(s, more, page, used)
        OBVIOUS
      <4> DEFINE b == more = <<>>
      <4>1. b \in BOOLEAN
        OBVIOUS
      <4> HIDE DEF b
      <4>2. RenderedHeight(s, Append(<<>>, item), b) = RenderedHeight(s, <<>>, b) + Taken(s, item, <<>>)
        BY <1>3, <1>4, <1>7, <1>9, <4>1, RenderedAppend
      <4>3. RenderedHeight(s, <<>>, b) = Above(s, b)
        BY <1>4, <4>1, RenderedEmpty
      <4>4. used = Taken(s, item, <<>>)
        BY <1>3
      <4>5. RenderedHeight(s, page, b) = Above(s, b) + used
        BY <1>9, <4>2, <4>3, <4>4
      <4>6. Len(page) = 1
        OBVIOUS
      <4>7. AllFit(s, more)
        BY <1>4, <1>6, <1>12, PagePutAway
      <4> HIDE DEF page, used, more
      <4> QED BY <4>5, <4>6, <4>7 DEF Counted, b
    <3> HIDE DEF page, used, more
    <3>6. npSplit'[s] = more /\ Others(npSplit')
      BY <1>4, <1>6, <3>1, <3>3
    <3> QED BY <3>1, <3>2, <3>4, <3>5, <3>6
  <2> QED BY <2>1, <2>2
<1>14. npChart' = c /\ npBy' = npBy /\ npSections' = npSections /\ NpOrder' = NpOrder /\ NpDone' = NpDone
  BY <1>2 DEF NpOrder, NpDone
<1> DEFINE mine == npSplit'[s]
<1>15. Others(npSplit') /\ Goes(mine, npPage', npUsed')
  BY <1>13
<1>16. NpTypes'
  BY <1>1, <1>2, <1>3, <1>14, <1>15 DEF NpTypes, S
<1>17. NpPrinted'
  <2>1. (\A i \in 1..NpDone : SectionPrinted(npChart, NpOrder[i], npSplit[NpOrder[i]]))'
    <3>1. ASSUME NEW i \in 1..NpDone PROVE SectionPrinted(c, NpOrder[i], npSplit'[NpOrder[i]])
      <4>1. NpOrder[i] \in SectionNames /\ NpOrder[i] # s
        BY <1>1, <1>3, SectionAtWork
      <4>2. npSplit'[NpOrder[i]] = npSplit[NpOrder[i]]
        BY <1>15, <4>1
      <4>3. SectionPrinted(c, NpOrder[i], npSplit[NpOrder[i]])
        BY <1>1 DEF NpPrinted
      <4> QED BY <4>2, <4>3
    <3> QED BY <1>14, <3>1
  <2>2. (\A t \in SectionNames :
           (\A i \in 1..Len(NpOrder) : NpOrder[i] = t => i > NpDone + 1) => npSplit[t] = <<>>)'
    <3>1. ASSUME NEW t \in SectionNames, \A i \in 1..Len(NpOrder) : NpOrder[i] = t => i > NpDone + 1
          PROVE  npSplit'[t] = <<>>
      <4>1. t # s
        BY <1>4, <3>1
      <4>2. npSplit[t] = <<>>
        BY <1>1, <3>1 DEF NpPrinted
      <4> QED BY <1>15, <4>1, <4>2
    <3> QED BY <1>14, <3>1
  <2>3. (npSections = <<>> => npLeft = <<>>)'
    BY <1>3, <1>14
  <2>4. (npSections # <<>> =>
          FlattenSeq(npSplit[npSections[1]]) \o npPage \o npLeft = SectionItems(npChart, npSections[1]))'
    BY <1>2, <1>14, <1>15
  <2> QED BY <2>1, <2>2, <2>3, <2>4 DEF NpPrinted
<1>18. NpMeasured'
  <2>1. npBy' # "measuring"
    BY <1>2
  <2>2. (npBy = "heights" => \A t \in SectionNames : AllFit(t, npSplit[t]))'
    <3>1. ASSUME npBy = "heights", NEW t \in SectionNames PROVE AllFit(t, npSplit'[t])
      <4>1. CASE t = s
        BY <1>15, <3>1, <4>1
      <4>2. CASE t # s
        BY <1>1, <1>15, <3>1, <4>2 DEF NpMeasured
      <4> QED BY <4>1, <4>2
    <3> QED BY <1>14, <3>1
  <2>3. (npBy = "heights" =>
          (npSections # <<>> => Counted(npSections[1], npSplit[npSections[1]], npPage, npUsed)))'
    BY <1>14, <1>15
  <2> QED BY <2>1, <2>2, <2>3 DEF NpMeasured
<1> QED BY <1>16, <1>17, <1>18 DEF NpInv

LEMMA EndSectionKeeps == NpInv /\ EndSection => NpInv'
<1> SUFFICES ASSUME NpInv, EndSection PROVE NpInv'
  OBVIOUS
<1> DEFINE c == npChart
           S == NpItems(c)
           s == npSections[1]
           split == npSplit[s]
           rest == Tail(npSections)
           next == rest[1]
           k == Len(rest)
           n == NpDone
           none == npPage = <<>> /\ s = "reading"
           mine == IF none THEN split ELSE Append(split, npPage)
           flat == FlattenSeq(split)
<1>1. NpTypes /\ NpPrinted /\ NpMeasured
  BY DEF NpInv
<1>2. npBy # "measuring" /\ npSections # <<>> /\ npLeft = <<>>
      /\ npChart' = c /\ npBy' = npBy /\ npPage' = <<>> /\ npUsed' = 0 /\ npSections' = rest
  BY DEF EndSection
<1>3. /\ n \in Nat /\ n + 1 \in 1..Len(NpOrder) /\ Len(NpOrder) \in Nat /\ s = NpOrder[n + 1] /\ Head(npSections) = s
      /\ s \in SectionNames /\ split \in Seq(Seq(S)) /\ Len(npSections) \in Nat \ {0}
      /\ \A i \in 1..n : NpOrder[i] # s /\ NpOrder[i] \in SectionNames
  BY <1>1, <1>2, SectionAtWork
<1>4. /\ npSplit' = IF none THEN npSplit ELSE [npSplit EXCEPT ![s] = Append(@, npPage)]
      /\ npLeft' = IF rest = <<>> THEN <<>> ELSE SectionItems(c, Head(rest))
  BY <1>3 DEF EndSection
<1>5. /\ c \in NpCharts /\ npBy \in {"measuring", "heights", "words"} /\ npPage \in Seq(S) /\ npUsed \in Int
      /\ npSplit \in [SectionNames -> Seq(Seq(S))] /\ npSections \in Seq(SectionNames)
      /\ Len(npSections) <= Len(NpOrder)
      /\ \A j \in 1..Len(npSections) : npSections[j] = NpOrder[n + j]
  BY <1>1 DEF NpTypes
<1>6. /\ rest \in Seq(SectionNames) /\ k \in Nat /\ Len(npSections) = k + 1 /\ DOMAIN rest = 1..k
      /\ (rest = <<>> <=> k = 0)
      /\ rest # <<>> => Head(rest) = next /\ next \in SectionNames
      /\ \A j \in 1..k : rest[j] = npSections[j + 1]
  <2>1. /\ rest \in Seq(SectionNames) /\ Len(rest) = Len(npSections) - 1
        /\ \A j \in 1..Len(npSections) - 1 : rest[j] = npSections[j + 1]
    BY <1>2, <1>5
  <2> HIDE DEF rest
  <2>2. k \in Nat /\ Len(npSections) = k + 1 /\ k = Len(npSections) - 1
    BY <1>3, <2>1
  <2>3. DOMAIN rest = 1..k /\ (rest = <<>> <=> k = 0)
    BY <2>1
  <2>4. rest # <<>> => Head(rest) = next /\ next \in SectionNames
    BY <2>1
  <2> QED BY <2>1, <2>2, <2>3, <2>4
<1>7. NpOrder' = NpOrder /\ NpDone' = n + 1
  <2>1. NpOrder' = NpOrder
    BY <1>2 DEF NpOrder
  <2>2. NpDone' = Len(NpOrder) - k
    BY <1>2, <2>1 DEF NpDone
  <2>3. n = Len(NpOrder) - Len(npSections)
    BY DEF NpDone
  <2> HIDE DEF n, k
  <2> QED BY <1>3, <1>6, <2>1, <2>2, <2>3
<1> HIDE DEF S, rest
<1> HIDE DEF k, n
<1>8. ASSUME NEW j \in 1..k PROVE rest[j] = NpOrder[n + 1 + j]
  <2>1. j + 1 \in 1..Len(npSections) /\ n + (j + 1) = n + 1 + j
    BY <1>3, <1>6
  <2>2. npSections[j + 1] = NpOrder[n + (j + 1)]
    BY <1>5, <2>1
  <2> QED BY <1>6, <2>1, <2>2
<1>9. \A i, j \in 1..Len(NpOrder) : NpOrder[i] = NpOrder[j] => i = j
  <2>1. NpOrder \in Seq(SectionNames) /\ \A i, j \in DOMAIN NpOrder : NpOrder[i] = NpOrder[j] => i = j
    BY SectionsAre DEF NpOrder
  <2>2. DOMAIN NpOrder = 1..Len(NpOrder)
    BY <2>1
  <2> QED BY <2>1, <2>2
<1>10. rest # <<>> => /\ next = NpOrder[n + 2] /\ n + 2 \in 1..Len(NpOrder) /\ next \in SectionNames
                      /\ next # s /\ npSplit[next] = <<>>
  <2> SUFFICES ASSUME rest # <<>>
               PROVE  /\ next = NpOrder[n + 2] /\ n + 2 \in 1..Len(NpOrder) /\ next \in SectionNames
                      /\ next # s /\ npSplit[next] = <<>>
    OBVIOUS
  <2>1. 1 \in 1..k /\ n + 1 + 1 = n + 2
    BY <1>3, <1>6
  <2>2. next = NpOrder[n + 2]
    <3>1. rest[1] = NpOrder[n + 1 + 1]
      BY <1>8, <2>1
    <3> QED BY <2>1, <3>1
  <2>3. n + 2 \in 1..Len(NpOrder)
    <3>1. n = Len(NpOrder) - Len(npSections)
      BY DEF n, NpDone
    <3> QED BY <1>3, <1>6, <2>1, <3>1
  <2>4. next # s
    <3>1. n + 2 # n + 1
      BY <1>3
    <3> QED BY <1>3, <1>9, <2>2, <2>3, <3>1
  <2> HIDE DEF next
  <2>5. \A i \in 1..Len(NpOrder) : NpOrder[i] = next => i > n + 1
    <3>1. \A i \in 1..Len(NpOrder) : NpOrder[i] = next => i = n + 2
      BY <1>9, <2>2, <2>3
    <3>2. n + 2 > n + 1
      BY <1>3
    <3> QED BY <3>1, <3>2
  <2>6. next \in SectionNames
    BY <1>6 DEF next
  <2>7. npSplit[next] = <<>>
    BY <1>1, <2>5, <2>6 DEF NpPrinted, n
  <2> QED BY <2>2, <2>3, <2>4, <2>6, <2>7
<1>11. /\ npSplit' \in [SectionNames -> Seq(Seq(S))] /\ npSplit'[s] = mine
       /\ \A t \in SectionNames : t # s => npSplit'[t] = npSplit[t]
  <2>1. \A a \in Seq(Seq(S)), p \in Seq(S) : Append(a, p) \in Seq(Seq(S)) /\ Append(a, p) # <<>>
    OBVIOUS
  <2>2. Append(split, npPage) \in Seq(Seq(S))
    BY <1>3, <1>5, <2>1
  <2> QED BY <1>3, <1>4, <1>5, <2>2
<1>12. FlattenSeq(mine) = SectionItems(c, s) /\ (s # "reading" => mine # <<>>)
  <2>1. flat \o npPage \o <<>> = SectionItems(c, s)
    BY <1>1, <1>2 DEF NpPrinted
  <2>2. flat \in Seq(S) /\ flat \o npPage \in Seq(S)
    <3>1. flat \in Seq(S)
      BY <1>3, FlattenIsSeq
    <3> QED BY <1>5, <3>1, Joined
  <2>3. \A a \in Seq(S) : a \o <<>> = a
    OBVIOUS
  <2>4. flat \o npPage = SectionItems(c, s)
    BY <2>1, <2>2, <2>3
  <2>5. CASE none
    BY <2>2, <2>3, <2>4, <2>5
  <2>6. CASE ~none
    <3>1. FlattenSeq(Append(split, npPage)) = flat \o npPage
      BY <1>3, <1>5, FlattenAppend
    <3>2. \A a \in Seq(Seq(S)), p \in Seq(S) : Append(a, p) # <<>>
      OBVIOUS
    <3>3. Append(split, npPage) # <<>>
      BY <1>3, <1>5, <3>2
    <3> HIDE DEF none
    <3> QED BY <2>4, <2>6, <3>1, <3>3
  <2> QED BY <2>5, <2>6
<1>13. npBy = "heights" => AllFit(s, mine)
  <2> SUFFICES ASSUME npBy = "heights" PROVE AllFit(s, mine)
    OBVIOUS
  <2>1. AllFit(s, split) /\ Counted(s, split, npPage, npUsed)
    BY <1>1, <1>2, <1>3 DEF NpMeasured
  <2>2. AllFit(s, Append(split, npPage))
    BY <1>3, <1>5, <2>1, PagePutAway
  <2> HIDE DEF none
  <2> QED BY <2>1, <2>2
<1> HIDE DEF mine, none, next
<1>14. NpTypes'
  <2>1. npLeft' \in Seq(S)
    <3>1. CASE rest = <<>>
      BY <1>4, <3>1
    <3>2. CASE rest # <<>>
      <4>1. SectionItems(c, next) \in Seq(S)
        BY <1>5, <1>10, <3>2, SectionItemsAre DEF S
      <4> QED BY <1>4, <1>6, <3>2, <4>1 DEF next
    <3> QED BY <3>1, <3>2
  <2>2. (\A j \in DOMAIN npSections : npSections[j] = NpOrder[NpDone + j])'
    BY <1>2, <1>6, <1>7, <1>8
  <2>3. (npSections \in Seq(SectionNames) /\ Len(npSections) <= Len(NpOrder))'
    <3>1. k <= Len(NpOrder)
      BY <1>3, <1>5, <1>6
    <3> QED BY <1>2, <1>6, <1>7, <3>1 DEF k
  <2>4. npPage' \in Seq(S) /\ npUsed' \in Int
    BY <1>2
  <2>5. npChart' \in NpCharts /\ npBy' \in {"measuring", "heights", "words"}
    BY <1>2, <1>5
  <2>6. /\ (npLeft \in Seq(NpItems(npChart)))' /\ (npPage \in Seq(NpItems(npChart)))'
        /\ (npSplit \in [SectionNames -> Seq(Seq(NpItems(npChart)))])'
    BY <1>2, <1>11, <2>1, <2>4 DEF S
  <2> QED BY <2>2, <2>3, <2>4, <2>5, <2>6 DEF NpTypes
<1>15. NpPrinted'
  <2>1. (\A i \in 1..NpDone : SectionPrinted(npChart, NpOrder[i], npSplit[NpOrder[i]]))'
    <3>1. ASSUME NEW i \in 1..n + 1 PROVE SectionPrinted(c, NpOrder[i], npSplit'[NpOrder[i]])
      <4>1. CASE i \in 1..n
        <5>1. npSplit'[NpOrder[i]] = npSplit[NpOrder[i]]
          BY <1>3, <1>11, <4>1
        <5>2. SectionPrinted(c, NpOrder[i], npSplit[NpOrder[i]])
          BY <1>1, <4>1 DEF NpPrinted, n
        <5> QED BY <5>1, <5>2
      <4>2. CASE i = n + 1
        <5>1. NpOrder[i] = s /\ npSplit'[s] = mine
          BY <1>3, <1>11, <4>2
        <5> QED BY <1>12, <5>1 DEF SectionPrinted
      <4> QED BY <1>3, <4>1, <4>2
    <3> QED BY <1>2, <1>7, <3>1
  <2>2. (\A t \in SectionNames :
           (\A i \in 1..Len(NpOrder) : NpOrder[i] = t => i > NpDone + 1) => npSplit[t] = <<>>)'
    <3>1. ASSUME NEW t \in SectionNames, \A i \in 1..Len(NpOrder) : NpOrder[i] = t => i > n + 1 + 1
          PROVE  npSplit'[t] = <<>>
      <4>1. t # s
        BY <1>3, <3>1
      <4>2. \A i \in 1..Len(NpOrder) : NpOrder[i] = t => i > n + 1
        BY <1>3, <3>1
      <4>3. npSplit[t] = <<>>
        BY <1>1, <4>2 DEF NpPrinted, n
      <4> QED BY <1>11, <4>1, <4>3
    <3> QED BY <1>7, <3>1
  <2>3. (npSections = <<>> => npLeft = <<>>)'
    BY <1>2, <1>4
  <2>4. (npSections # <<>> =>
          FlattenSeq(npSplit[npSections[1]]) \o npPage \o npLeft = SectionItems(npChart, npSections[1]))'
    <3>1. ASSUME rest # <<>>
          PROVE  FlattenSeq(npSplit'[next]) \o <<>> \o SectionItems(c, next) = SectionItems(c, next)
      <4>1. npSplit'[next] = <<>> /\ SectionItems(c, next) \in Seq(S)
        BY <1>5, <1>10, <1>11, <3>1, SectionItemsAre DEF S
      <4>2. \A a \in Seq(S) : <<>> \o <<>> \o a = a
        OBVIOUS
      <4> QED BY <4>1, <4>2, FlattenNothing
    <3> QED BY <1>2, <1>4, <1>6, <3>1 DEF next
  <2> QED BY <2>1, <2>2, <2>3, <2>4 DEF NpPrinted
<1>16. NpMeasured'
  <2>1. npBy' # "measuring"
    BY <1>2
  <2>2. (npBy = "heights" => \A t \in SectionNames : AllFit(t, npSplit[t]))'
    <3>1. ASSUME npBy = "heights", NEW t \in SectionNames PROVE AllFit(t, npSplit'[t])
      <4>1. CASE t = s
        BY <1>11, <1>13, <3>1, <4>1
      <4>2. CASE t # s
        BY <1>1, <1>11, <3>1, <4>2 DEF NpMeasured
      <4> QED BY <4>1, <4>2
    <3> QED BY <1>2, <3>1
  <2>3. (npBy = "heights" =>
          (npSections # <<>> => Counted(npSections[1], npSplit[npSections[1]], npPage, npUsed)))'
    <3>1. ASSUME rest # <<>> PROVE Counted(next, npSplit'[next], <<>>, 0)
      <4>1. npSplit'[next] = <<>> /\ next \in SectionNames
        BY <1>10, <1>11, <3>1
      <4> QED BY <4>1, NothingCounted
    <3> QED BY <1>2, <3>1 DEF next
  <2> QED BY <2>1, <2>2, <2>3 DEF NpMeasured
<1> QED BY <1>14, <1>15, <1>16 DEF NpInv

LEMMA NpInvNext == NpInv /\ [NpNext]_npVars => NpInv'
<1> SUFFICES ASSUME NpInv, [NpNext]_npVars PROVE NpInv'
  OBVIOUS
<1>1. CASE Measured
  BY <1>1, MeasuredKeeps
<1>2. CASE PlaceItem
  BY <1>2, PlaceItemKeeps
<1>3. CASE EndSection
  BY <1>3, EndSectionKeeps
<1>4. CASE UNCHANGED npVars
  BY <1>4 DEF npVars, NpInv, NpTypes, NpPrinted, NpMeasured, NpOrder, NpDone
<1> QED BY <1>1, <1>2, <1>3, <1>4 DEF NpNext

-----------------------------------------------------------------------------
(* Where a section begins in the document. *)
LEMMA FlattenPrefix ==
  ASSUME NEW S, NEW seqs \in Seq(Seq(S)), NEW f, IsString(f, seqs, S), NEW k \in 0..Len(seqs)
  PROVE  /\ Len(f[k]) \in Nat /\ Len(f[k]) <= Len(FlattenSeq(seqs))
         /\ \A j \in 1..Len(f[k]) : FlattenSeq(seqs)[j] = f[k][j]
<1> DEFINE n == Len(seqs)
           len == Len(f[k])
           Starts(m) == len <= Len(f[m]) /\ \A j \in 1..len : f[m][j] = f[k][j]
<1>1. /\ f \in [0..n -> Seq(S)] /\ \A i \in 1..n : f[i] = f[i - 1] \o seqs[i]
      /\ FlattenSeq(seqs) = f[n]
  BY DEF IsString
<1>2. n \in Nat /\ k \in 0..n /\ \A i \in 1..n : seqs[i] \in Seq(S)
  OBVIOUS
<1> HIDE DEF n
<1>3. len \in Nat
  BY <1>1, <1>2
<1> HIDE DEF len
<1> DEFINE T == {m \in 0..n : m < k \/ Starts(m)}
<1>4. Starts(k)
  BY <1>3 DEF len
<1>5. ASSUME NEW i \in 1..n, Starts(i - 1) PROVE Starts(i)
  <2>1. i - 1 \in 0..n
    BY <1>2
  <2> DEFINE a == f[i - 1]
  <2>2. f[i] = a \o seqs[i] /\ a \in Seq(S) /\ seqs[i] \in Seq(S)
    BY <1>1, <1>2, <2>1
  <2>3. len <= Len(a) /\ \A j \in 1..len : a[j] = f[k][j]
    BY <1>5
  <2> HIDE DEF a
  <2>4. /\ Len(f[i]) = Len(a) + Len(seqs[i]) /\ Len(a) \in Nat /\ Len(seqs[i]) \in Nat
        /\ \A j \in 1..Len(a) : f[i][j] = a[j]
    BY <2>2, Joined
  <2>5. \A j \in 1..len : j \in 1..Len(a)
    BY <1>3, <2>3, <2>4
  <2>6. len <= Len(f[i])
    BY <1>3, <2>3, <2>4
  <2> QED BY <2>3, <2>4, <2>5, <2>6
<1>6. \A m \in 0..n : m \in T
  <2>1. 0 \in T
    <3>1. 0 \in 0..n /\ (0 < k \/ k = 0)
      BY <1>2
    <3> HIDE DEF Starts
    <3> QED BY <1>4, <3>1
  <2>2. ASSUME NEW i \in 1..n, i - 1 \in T PROVE i \in T
    <3> HIDE DEF Starts
    <3>1. i \in 0..n /\ (i < k \/ i = k \/ ~(i - 1 < k))
      BY <1>2
    <3>2. CASE i = k
      BY <1>4, <3>1, <3>2
    <3>3. CASE ~(i - 1 < k)
      BY <1>5, <2>2, <3>1, <3>3
    <3> QED BY <3>1, <3>2, <3>3
  <2> HIDE DEF T
  <2> QED BY <1>2, <2>1, <2>2, StepByStep, Zenon
<1>7. Starts(n)
  <2>1. n \in 0..n /\ ~(n < k)
    BY <1>2
  <2> HIDE DEF Starts
  <2> QED BY <1>6, <2>1
<1> QED BY <1>1, <1>3, <1>7 DEF len

(* The k-th of the sequences in their string f, and in the whole. *)
IsThere(f, seqs, k) ==
  /\ Len(f[k]) = Len(f[k - 1]) + Len(seqs[k]) /\ Len(f[k - 1]) \in Nat
  /\ \A i \in 1..Len(seqs[k]) :
       /\ f[k][Len(f[k - 1]) + i] = seqs[k][i]
       /\ FlattenSeq(seqs)[Len(f[k - 1]) + i] = seqs[k][i]
       /\ Len(f[k - 1]) + i <= Len(FlattenSeq(seqs))

LEMMA FlattenAt ==
  ASSUME NEW S, NEW seqs \in Seq(Seq(S)), NEW f, IsString(f, seqs, S), NEW k \in 1..Len(seqs)
  PROVE  IsThere(f, seqs, k)
<1> DEFINE a == f[k - 1]
           b == seqs[k]
<1>1. k - 1 \in 0..Len(seqs) /\ k \in 0..Len(seqs)
  OBVIOUS
<1>2. a \in Seq(S) /\ b \in Seq(S) /\ f[k] = a \o b
  <2>1. f \in [0..Len(seqs) -> Seq(S)] /\ \A i \in 1..Len(seqs) : f[i] = f[i - 1] \o seqs[i]
    BY DEF IsString
  <2>2. seqs[k] \in Seq(S)
    OBVIOUS
  <2>3. f[k - 1] \in Seq(S)
    BY <1>1, <2>1
  <2> QED BY <2>1, <2>2, <2>3
<1>3. /\ Len(f[k]) \in Nat /\ Len(f[k]) <= Len(FlattenSeq(seqs))
      /\ \A j \in 1..Len(f[k]) : FlattenSeq(seqs)[j] = f[k][j]
  BY <1>1, FlattenPrefix
<1>4. FlattenSeq(seqs) \in Seq(S) /\ Len(FlattenSeq(seqs)) \in Nat
  BY FlattenIsSeq
<1> HIDE DEF a, b
<1>5. /\ Len(f[k]) = Len(a) + Len(b) /\ Len(a) \in Nat /\ Len(b) \in Nat
      /\ \A i \in 1..Len(b) : f[k][Len(a) + i] = b[i]
  BY <1>2, Joined
<1>6. \A i \in 1..Len(b) : Len(a) + i \in 1..Len(f[k]) /\ Len(a) + i <= Len(FlattenSeq(seqs))
  BY <1>3, <1>4, <1>5
<1> QED BY <1>3, <1>5, <1>6 DEF IsThere, a, b

Names == <<"planets", "houses", "aspects", "reading">>
Titles == {"cover", "contents", "key points", "wheel", "elements", "glossary"} \cup SectionNames
Sheaf(S) == [title : Titles, items : Seq(S)]
SheetsOf(split, s) == [i \in DOMAIN split[s] |-> Sheet(s, split[s][i])]

LEMMA NamesAre ==
  /\ DOMAIN Names = 1..4 /\ \A k \in 1..4 : Names[k] \in SectionNames
  /\ \A s \in SectionNames : \E k \in 1..4 : s = Names[k]
  /\ \A j, k \in 1..4 : Names[j] = Names[k] => j = k
<1>1. Names[1] = "planets" /\ Names[2] = "houses" /\ Names[3] = "aspects" /\ Names[4] = "reading"
      /\ DOMAIN Names = 1..4
  BY DEF Names
<1>2. \A k \in 1..4 : k = 1 \/ k = 2 \/ k = 3 \/ k = 4
  OBVIOUS
<1>3. 1 \in 1..4 /\ 2 \in 1..4 /\ 3 \in 1..4 /\ 4 \in 1..4
  OBVIOUS
<1>4. \A k \in 1..4 : Names[k] \in SectionNames
  BY <1>1, <1>2 DEF SectionNames
<1>5. \A s \in SectionNames : \E k \in 1..4 : s = Names[k]
  BY <1>1, <1>3 DEF SectionNames
<1>6. \A j, k \in 1..4 : Names[j] = Names[k] => j = k
  BY <1>1, <1>2
<1> QED BY <1>1, <1>4, <1>5, <1>6

LEMMA SectionBegins ==
  ASSUME NEW S, npSplit \in [SectionNames -> Seq(Seq(S))], NEW k \in 1..4, npSplit[Names[k]] # <<>>
  PROVE  /\ Document[PageNamed(Names[k])].title = Names[k]
         /\ Document[PageNamed(Names[k]) - 1].title # Names[k]
<1> DEFINE L(s) == SheetsOf(npSplit, Names[s])
           lists == [s \in 1..4 |-> L(s)]
           X == Sheaf(S)
           N(s) == Len(npSplit[Names[s]])
<1>1. ASSUME NEW s \in 1..4
      PROVE  /\ L(s) \in Seq(X) /\ Len(L(s)) = N(s) /\ N(s) \in Nat /\ (npSplit[Names[s]] = <<>> <=> N(s) = 0)
             /\ \A i \in 1..N(s) : L(s)[i].title = Names[s]
  <2> DEFINE sp == npSplit[Names[s]]
             n == Len(sp)
  <2>1. Names[s] \in SectionNames
    BY NamesAre
  <2>2. sp \in Seq(Seq(S))
    BY <2>1
  <2>3. L(s) = [i \in DOMAIN sp |-> Sheet(Names[s], sp[i])]
    BY DEF SheetsOf
  <2> HIDE DEF sp, L
  <2>4. DOMAIN sp = 1..n /\ n \in Nat /\ (sp = <<>> <=> n = 0) /\ \A i \in 1..n : sp[i] \in Seq(S)
    BY <2>2
  <2>5. ASSUME NEW i \in 1..n
        PROVE  Sheet(Names[s], sp[i]) \in X /\ Sheet(Names[s], sp[i]).title = Names[s]
    BY <2>1, <2>4 DEF Sheet, Sheaf, Titles
  <2> HIDE DEF n, X
  <2>6. L(s) = [i \in 1..n |-> Sheet(Names[s], sp[i])]
    BY <2>3, <2>4
  <2>7. L(s) \in Seq(X) /\ Len(L(s)) = n /\ \A i \in 1..n : L(s)[i] = Sheet(Names[s], sp[i])
    BY <2>4, <2>5, <2>6
  <2> QED BY <2>4, <2>5, <2>7 DEF n, sp
<1>2. Document = Fixed \o FlattenSeq(lists) \o Glossary
  BY DEF Document, SheetsOf, Names
<1> HIDE DEF L, X, N
<1>3. lists \in Seq(Seq(X)) /\ Len(lists) = 4 /\ \A s \in 1..4 : lists[s] = L(s)
  BY <1>1
<1> HIDE DEF lists
<1> DEFINE flat == FlattenSeq(lists)
<1>4. PICK f : IsString(f, lists, X)
  BY <1>3, FlattenSteps
<1>5. f[0] = <<>> /\ Len(f[0]) = 0
  BY <1>4 DEF IsString
<1>6. ASSUME NEW s \in 1..4
      PROVE  /\ Len(f[s]) = Len(f[s - 1]) + N(s) /\ Len(f[s - 1]) \in Nat
             /\ \A i \in 1..N(s) :
                  /\ f[s][Len(f[s - 1]) + i] = L(s)[i] /\ flat[Len(f[s - 1]) + i] = L(s)[i]
                  /\ Len(f[s - 1]) + i <= Len(flat)
  <2>1. s \in 1..Len(lists) /\ lists[s] = L(s) /\ Len(L(s)) = N(s)
    BY <1>1, <1>3
  <2>2. /\ Len(f[s]) = Len(f[s - 1]) + Len(lists[s]) /\ Len(f[s - 1]) \in Nat
        /\ \A i \in 1..Len(lists[s]) :
             /\ f[s][Len(f[s - 1]) + i] = lists[s][i]
             /\ FlattenSeq(lists)[Len(f[s - 1]) + i] = lists[s][i]
             /\ Len(f[s - 1]) + i <= Len(FlattenSeq(lists))
    <3>1. lists \in Seq(Seq(X))
      BY <1>3
    <3>2. IsThere(f, lists, s)
      BY <1>4, <2>1, <3>1, FlattenAt
    <3> QED BY <3>2 DEF IsThere
  <2> QED BY <2>1, <2>2
<1>7. ASSUME NEW s \in 0..4
      PROVE  /\ Len(f[s]) \in Nat /\ Len(f[s]) <= Len(flat)
             /\ \A j \in 1..Len(f[s]) : flat[j] = f[s][j]
  <2>1. s \in 0..Len(lists)
    BY <1>3
  <2>2. lists \in Seq(Seq(X))
    BY <1>3
  <2> QED BY <1>4, <2>1, <2>2, FlattenPrefix
<1>8. flat \in Seq(X) /\ Len(flat) \in Nat
  BY <1>3, FlattenIsSeq
<1> HIDE DEF flat
<1> DEFINE Titled(m) == \A j \in 1..Len(f[m]) : \E q \in 1..m : f[m][j].title = Names[q]
           T == {m \in 0..4 : Titled(m)}
<1>9. \A m \in 0..4 : m \in T
  <2>1. 0 \in T
    BY <1>5
  <2>2. ASSUME NEW m \in 1..4, m - 1 \in T PROVE m \in T
    <3>1. m \in 0..4 /\ m - 1 \in 0..4
      OBVIOUS
    <3>2. ASSUME NEW j \in 1..Len(f[m]) PROVE \E q \in 1..m : f[m][j].title = Names[q]
      <4>1. /\ Len(f[m]) = Len(f[m - 1]) + N(m) /\ Len(f[m - 1]) \in Nat /\ N(m) \in Nat
        BY <1>1, <1>6
      <4>2. CASE j <= Len(f[m - 1])
        <5>1. j \in 1..Len(f[m - 1])
          BY <4>1, <4>2
        <5>2. f[m][j] = f[m - 1][j]
          BY <1>7, <3>1, <5>1
        <5>3. PICK q \in 1..m - 1 : f[m - 1][j].title = Names[q]
          BY <2>2, <5>1
        <5>4. q \in 1..m
          BY <5>3
        <5> QED BY <5>2, <5>3, <5>4
      <4>3. CASE j > Len(f[m - 1])
        <5> DEFINE i == j - Len(f[m - 1])
        <5>1. i \in 1..N(m) /\ Len(f[m - 1]) + i = j
          BY <4>1, <4>3
        <5>2. f[m][Len(f[m - 1]) + i] = L(m)[i] /\ L(m)[i].title = Names[m]
          <6> HIDE DEF i
          <6> QED BY <1>1, <1>6, <5>1
        <5>3. m \in 1..m
          OBVIOUS
        <5> QED BY <5>1, <5>2, <5>3
      <4> QED BY <4>1, <4>2, <4>3
    <3> QED BY <3>1, <3>2
  <2>3. 4 \in Nat
    OBVIOUS
  <2> HIDE DEF T
  <2> QED BY <2>1, <2>2, <2>3, StepByStep
<1> DEFINE len == Len(f[k - 1])
           flats == Fixed \o flat
<1>10. k - 1 \in 0..4 /\ len \in Nat /\ len <= Len(flat) /\ Titled(k - 1) /\ N(k) \in Nat /\ N(k) # 0
  <2>1. k - 1 \in 0..4
    OBVIOUS
  <2>2. Titled(k - 1)
    BY <1>9, <2>1
  <2> HIDE DEF Titled
  <2> QED BY <1>1, <1>7, <2>1, <2>2
<1>11. PageNamed(Names[k]) = 6 + len
  <2>1. Len(f[0]) = 0 /\ Len(f[1]) = N(1) /\ Len(f[2]) = N(1) + N(2) /\ Len(f[3]) = N(1) + N(2) + N(3)
        /\ N(1) \in Nat /\ N(2) \in Nat /\ N(3) \in Nat
    <3>1. N(1) \in Nat /\ N(2) \in Nat /\ N(3) \in Nat
      BY <1>1, 1 \in 1..4, 2 \in 1..4, 3 \in 1..4
    <3>2. Len(f[1]) = Len(f[0]) + N(1)
      BY <1>6, 1 \in 1..4, 1 - 1 = 0
    <3>3. Len(f[2]) = Len(f[1]) + N(2)
      BY <1>6, 2 \in 1..4, 2 - 1 = 1
    <3>4. Len(f[3]) = Len(f[2]) + N(3)
      BY <1>6, 3 \in 1..4, 3 - 1 = 2
    <3> QED BY <1>5, <3>1, <3>2, <3>3, <3>4
  <2>2. N(1) = Len(npSplit["planets"]) /\ N(2) = Len(npSplit["houses"]) /\ N(3) = Len(npSplit["aspects"])
    BY DEF N, Names
  <2>7. /\ PageNamed("planets") = 6 /\ PageNamed("houses") = 6 + N(1)
        /\ PageNamed("aspects") = 6 + (N(1) + N(2)) /\ PageNamed("reading") = 6 + (N(1) + N(2) + N(3))
    <3> DEFINE n1 == Len(npSplit["planets"])
               n2 == Len(npSplit["houses"])
               n3 == Len(npSplit["aspects"])
    <3>1. n1 \in Nat /\ n2 \in Nat /\ n3 \in Nat
      BY <2>1, <2>2
    <3>2. /\ PageNamed("planets") = 6 + 0 + 0 + 0 /\ PageNamed("houses") = 6 + n1 + 0 + 0
          /\ PageNamed("aspects") = 6 + n1 + n2 + 0 /\ PageNamed("reading") = 6 + n1 + n2 + n3
      BY DEF PageNamed
    <3> HIDE DEF n1, n2, n3
    <3>3. N(1) = n1 /\ N(2) = n2 /\ N(3) = n3
      BY <2>2 DEF n1, n2, n3
    <3> QED BY <3>1, <3>2, <3>3
  <2>3. CASE k = 1
    <3>1. Names[k] = "planets" /\ len = 0
      BY <2>1, <2>3 DEF Names
    <3> HIDE DEF len
    <3> QED BY <2>7, <3>1
  <2>4. CASE k = 2
    <3>1. Names[k] = "houses" /\ len = N(1)
      BY <2>1, <2>4 DEF Names
    <3> HIDE DEF len
    <3> QED BY <2>7, <3>1
  <2>5. CASE k = 3
    <3>1. Names[k] = "aspects" /\ len = N(1) + N(2)
      BY <2>1, <2>5 DEF Names
    <3> HIDE DEF len
    <3> QED BY <2>7, <3>1
  <2>6. CASE k = 4
    <3>1. Names[k] = "reading" /\ len = N(1) + N(2) + N(3)
      BY <2>1, <2>6 DEF Names
    <3> HIDE DEF len
    <3> QED BY <2>7, <3>1
  <2> QED BY <2>3, <2>4, <2>5, <2>6
<1>12. Fixed \in Seq(X) /\ Len(Fixed) = 5 /\ Fixed[5].title = "elements"
  <2>1. Len(Fixed) = 5 /\ DOMAIN Fixed = 1..5 /\ Fixed[5].title = "elements"
    BY DEF Fixed, Sheet
  <2>2. <<>> \in Seq(S)
    OBVIOUS
  <2>3. \A t \in Titles : Sheet(t, <<>>) \in X
    BY <2>2 DEF Sheet, Sheaf, X
  <2>4. Fixed \in Seq(X)
    <3> DEFINE P(t) == Sheet(t, <<>>)
    <3>1. P("cover") \in X /\ P("contents") \in X /\ P("key points") \in X /\ P("wheel") \in X /\ P("elements") \in X
      BY <2>3 DEF Titles
    <3>2. Fixed = <<P("cover"), P("contents"), P("key points"), P("wheel"), P("elements")>>
      BY DEF Fixed
    <3> HIDE DEF P, X
    <3>3. \A a, b, d, e, g \in X : <<a, b, d, e, g>> \in Seq(X)
      OBVIOUS
    <3> QED BY <3>1, <3>2, <3>3
  <2> QED BY <2>1, <2>4
<1>13. Glossary \in Seq(X)
  <2>1. Sheet("glossary", <<>>) \in X
    BY DEF Sheet, Sheaf, X, Titles
  <2> QED BY <2>1 DEF Glossary
<1>14. /\ flats \in Seq(X) /\ Len(flats) = 5 + Len(flat)
       /\ \A i \in 1..5 : flats[i] = Fixed[i]
       /\ \A i \in 1..Len(flat) : flats[5 + i] = flat[i]
  <2>1. /\ Fixed \o flat \in Seq(X) /\ Len(Fixed \o flat) = Len(Fixed) + Len(flat)
        /\ \A i \in 1..Len(Fixed) : (Fixed \o flat)[i] = Fixed[i]
        /\ \A i \in 1..Len(flat) : (Fixed \o flat)[Len(Fixed) + i] = flat[i]
    <3>1. Fixed \in Seq(X) /\ flat \in Seq(X)
      BY <1>8, <1>12
    <3> QED BY <3>1, Joined
  <2> QED BY <1>12, <2>1
<1>15. Document = flats \o Glossary
  BY <1>2 DEF flat
<1> HIDE DEF flats
<1>16. \A i \in 1..5 + Len(flat) : Document[i] = flats[i]
  <2>1. \A i \in 1..Len(flats) : (flats \o Glossary)[i] = flats[i]
    BY <1>13, <1>14, Joined
  <2> QED BY <1>14, <1>15, <2>1
<1> HIDE DEF len, Titled
<1>17. Document[6 + len].title = Names[k]
  <2>1. 1 \in 1..N(k)
    BY <1>10
  <2>2. flat[len + 1] = L(k)[1] /\ len + 1 <= Len(flat) /\ L(k)[1].title = Names[k]
    BY <1>1, <1>6, <2>1 DEF len
  <2>3. len + 1 \in 1..Len(flat) /\ 5 + (len + 1) = 6 + len /\ 6 + len \in 1..5 + Len(flat)
    BY <1>8, <1>10, <2>2
  <2>4. flats[5 + (len + 1)] = flat[len + 1]
    BY <1>14, <2>3
  <2> QED BY <1>16, <2>2, <2>3, <2>4
<1>18. Document[6 + len - 1].title # Names[k]
  <2>1. 6 + len - 1 = 5 + len /\ 5 + len \in 1..5 + Len(flat)
    BY <1>8, <1>10
  <2>2. Document[6 + len - 1] = flats[5 + len]
    BY <1>16, <2>1
  <2>3. CASE len = 0
    <3>1. flats[5] = Fixed[5]
      BY <1>14, 5 \in 1..5
    <3>2. 5 + len = 5
      BY <2>3
    <3>3. Names[k] # "elements"
      BY NamesAre DEF SectionNames
    <3> QED BY <1>12, <2>2, <3>1, <3>2, <3>3
  <2>4. CASE len # 0
    <3>1. len \in 1..Len(flat) /\ len \in 1..len
      BY <1>8, <1>10, <2>4
    <3>2. flats[5 + len] = flat[len] /\ flat[len] = f[k - 1][len]
      BY <1>7, <1>10, <1>14, <3>1 DEF len
    <3>3. PICK q \in 1..k - 1 : f[k - 1][len].title = Names[q]
      BY <1>10, <3>1 DEF Titled, len
    <3>4. q \in 1..4 /\ q # k
      BY <3>3
    <3>5. Names[q] # Names[k]
      BY <3>4, NamesAre
    <3> QED BY <2>2, <3>2, <3>3, <3>5
  <2> QED BY <2>3, <2>4
<1>19. ASSUME NEW p, p = 6 + len PROVE Document[p].title = Names[k] /\ Document[p - 1].title # Names[k]
  <2>1. p - 1 = 6 + len - 1
    BY <1>10, <1>19
  <2>2. Document[p].title = Names[k]
    BY <1>17, <1>19
  <2>3. Document[p - 1].title # Names[k]
    BY <1>18, <2>1
  <2> QED BY <2>2, <2>3
<1> HIDE DEF len
<1> QED BY <1>11, <1>19

LEMMA NpInvComplete == NpInv => NatalPagesComplete
<1> SUFFICES ASSUME NpInv, npSections = <<>>,
                    NEW name \in {SectionsOf(npChart)[i] : i \in DOMAIN SectionsOf(npChart)}
             PROVE  LET split == npSplit[name]
                        items == FlattenSeq(split)
                    IN /\ items = SectionItems(npChart, name)
                       /\ Whole(items, TextsOf(npChart, name))
                       /\ name = "aspects" => \A i, j \in DOMAIN items :
                            items[i].says = items[j].says => items[i].of = items[j].of
                       /\ split # <<>> => /\ Document[PageNamed(name)].title = name
                                          /\ Document[PageNamed(name) - 1].title # name
                       /\ npBy = "heights" => \A i \in DOMAIN split : PageFits(name, split[i], i = 1)
  BY DEF NatalPagesComplete
<1> DEFINE c == npChart
           split == npSplit[name]
           items == FlattenSeq(split)
           texts == TextsOf(c, name)
<1>1. NpTypes /\ NpPrinted /\ NpMeasured /\ c \in NpCharts /\ npSplit \in [SectionNames -> Seq(Seq(NpItems(c)))]
  BY DEF NpInv, NpTypes
<1>2. NpDone = Len(NpOrder) /\ NpOrder \in Seq(SectionNames)
  <2>1. NpOrder \in Seq(SectionNames)
    BY SectionsAre DEF NpOrder
  <2>2. Len(npSections) = 0 /\ Len(NpOrder) \in Nat
    BY <2>1
  <2> QED BY <2>1, <2>2 DEF NpDone
<1>3. name \in SectionNames /\ SectionPrinted(c, name, split)
  <2>1. PICK i \in DOMAIN NpOrder : name = NpOrder[i]
    BY DEF NpOrder
  <2>2. i \in 1..NpDone /\ name \in SectionNames
    BY <1>2, <2>1
  <2> QED BY <1>1, <2>1, <2>2 DEF NpPrinted
<1>4. items = SectionItems(c, name) /\ Whole(items, texts)
  BY <1>1, <1>3, SectionItemsAre DEF SectionPrinted
<1>5. name = "aspects" => \A i, j \in DOMAIN items : items[i].says = items[j].says => items[i].of = items[j].of
  <2>1. name = "aspects" => SaidOnce(texts)
    BY <1>1, <1>3, TextsAreFine
  <2> HIDE DEF items, texts
  <2>2. \A i \in DOMAIN items : items[i].of \in DOMAIN texts /\ items[i].says = texts[items[i].of].says
    BY <1>4 DEF Whole
  <2> QED BY <2>1, <2>2 DEF SaidOnce
<1>6. split # <<>> => Document[PageNamed(name)].title = name /\ Document[PageNamed(name) - 1].title # name
  <2>1. PICK k \in 1..4 : name = Names[k]
    BY <1>3, NamesAre
  <2> QED BY <1>1, <2>1, SectionBegins
<1>7. npBy = "heights" => \A i \in DOMAIN split : PageFits(name, split[i], i = 1)
  <2>1. npBy = "heights" => AllFit(name, split)
    BY <1>1, <1>3 DEF NpMeasured
  <2> QED BY <2>1 DEF AllFit
<1> QED BY <1>4, <1>5, <1>6, <1>7

(* However the texts of a chart are cut and packed, by what the browser measured or by
   words: when all sections are packed, every word of every text is printed once and in
   order, no aspect reads as another, the contents name the page where a section begins
   and a page overflows only by an item no page could hold. *)
THEOREM NatalPagesHold == NpSpec => []NatalPagesComplete
<1>1. NpInit => NpInv
  BY NpInvInit
<1>2. NpInv /\ [NpNext]_npVars => NpInv'
  BY NpInvNext
<1>3. NpInv => NatalPagesComplete
  BY NpInvComplete
<1> QED BY <1>1, <1>2, <1>3, PTL DEF NpSpec

-----------------------------------------------------------------------------
(* The three of them (MCReports).  A step is a step of the one part that moves, or
   leaves it alone, so that a behaviour is one of each of the three. *)

LEMMA StepOfPages ==
  ASSUME [MCNext]_mcVars
  PROVE  [NpNext]_npVars /\ [PpNext]_ppVars /\ [MpNext]_mpVars
<1>1. CASE MCNext
  BY <1>1, Zenon DEF MCNext
<1>2. CASE UNCHANGED mcVars
  BY <1>2 DEF mcVars
<1> QED BY <1>1, <1>2

(* Whichever report is made, once its pages are made it is complete. *)
THEOREM PagesHold == MCSpec => []PagesComplete
<1>1. MCSpec => NpSpec /\ PpSpec /\ MpSpec
  <2>1. MCInit => NpInit /\ PpInit /\ MpInit
    BY DEF MCInit
  <2> QED BY <2>1, StepOfPages, PTL DEF MCSpec, NpSpec, PpSpec, MpSpec
<1>2. NatalPagesComplete /\ PlainPagesComplete /\ MatrixPagesComplete => PagesComplete
  BY DEF PagesComplete
<1> QED BY <1>1, <1>2, NatalPagesHold, PlainPagesHold, MatrixPagesHold, PTL
=============================================================================
