----------------------------- MODULE MatrixPages ------------------------------
(* The two reports of the destiny matrix as lists of pages: the eight sections
   with their practice pages (services/destiny_matrix_pdf_html.py) and the long
   one (services/destiny_matrix_v3_pdf.py). Page numbers are handed out while
   the sections are built, before the contents page is, and before the browser
   breaks a page whose text is too long for one sheet over several. *)
EXTENDS Naturals, Sequences, FiniteSets

CONSTANTS
  MpReports,   \* [long, sections, practice, canon]: sections are [key, group]
  MaxSheets    \* bound: sheets of a page

(* A key is <<"section", name>>; a report has each section once. *)
ASSUME ReportsAssumption ==
  /\ MaxSheets \in Nat \ {0}
  /\ \A r \in MpReports :
    /\ r.long \in BOOLEAN /\ r.canon \in 1..MaxSheets
    /\ r.sections \in Seq({r.sections[i] : i \in DOMAIN r.sections})
    /\ \A i, j \in DOMAIN r.sections : r.sections[i].key = r.sections[j].key => i = j
    /\ \A i \in DOMAIN r.sections : r.sections[i].key[1] = "section"

VARIABLES
  mpReport,
  mpAdded,     \* sections built so far
  mpNext,      \* the next page number
  mpFirst,     \* section -> the number handed out
  mpBody       \* sheets built so far: [shows, part, number, counter]
mpVars == <<mpReport, mpAdded, mpNext, mpFirst, mpBody>>

-----------------------------------------------------------------------------
Keys(r) == {r.sections[i].key : i \in DOMAIN r.sections}
Page(shows, part, number, counter) ==
  [shows |-> shows, part |-> part, number |-> number, counter |-> counter]

(* A page of A4's height or more: its number is written on it once. *)
Sheets(page, n) == [s \in 1..n |-> IF s = 1 THEN page ELSE [page EXCEPT !.part = "over"]]

MpInit ==
  /\ mpReport \in MpReports
  /\ mpAdded = 0 /\ mpNext = 4
  /\ mpFirst = [k \in {} |-> 0] /\ mpBody = <<>>

(* The number of the section within its group, and how many the group has. *)
CountOf(r, i) ==
  LET Peers(n) == Cardinality({j \in 1..n : r.sections[j].group = r.sections[i].group})
  IN <<Peers(i), Peers(Len(r.sections))>>

(* A section is one page, in the short report two if it has practice. *)
Produced(key) == IF ~mpReport.long /\ key \in mpReport.practice THEN 2 ELSE 1
NarrativePages(key, n, sheets, more) ==
  Sheets(Page(key, "text", n, <<0, 0>>), sheets)
  \o (IF Produced(key) = 2 THEN Sheets(Page(key, "practice", n + 1, <<0, 0>>), more) ELSE <<>>)
SectionPage(i, n, sheets) ==
  Sheets(Page(mpReport.sections[i].key, "text", n, CountOf(mpReport, i)), sheets)

AddSection ==
  /\ mpAdded < Len(mpReport.sections)
  /\ LET key == mpReport.sections[mpAdded + 1].key
     IN /\ \E sheets, more \in 1..MaxSheets :
             mpBody' = mpBody \o (IF mpReport.long THEN SectionPage(mpAdded + 1, mpNext, sheets)
                                 ELSE NarrativePages(key, mpNext, sheets, more))
        /\ mpFirst' = [k \in DOMAIN mpFirst \cup {key} |-> IF k = key THEN mpNext ELSE mpFirst[k]]
        /\ mpNext' = mpNext + Produced(key)
  /\ mpAdded' = mpAdded + 1
  /\ UNCHANGED mpReport

MpNext == AddSection
MpSpec == MpInit /\ [][MpNext]_mpVars

-----------------------------------------------------------------------------
(* What follows the sections, and the name its row in the contents goes by.  Only
   the canon of the karmic program, a text of the database, may be long. *)
Tables == <<"karmic program", "purposes", "chakras">>
TablePage(t, n) == Page(<<"table", Tables[t]>>, "text", n, <<0, 0>>)
TablePages(n) == Sheets(TablePage(1, n), mpReport.canon) \o <<TablePage(2, n + 1), TablePage(3, n + 2)>>
GlossaryPages(n) == <<Page(<<"table", "glossary">>, "text", n, <<1, 2>>),
                      Page(<<"table", "glossary">>, "more", n + 1, <<2, 2>>)>>
SummaryPage(n) == <<Page(<<"table", "summary">>, "text", n, <<0, 0>>)>>
Appendix(n) == IF mpReport.long THEN TablePages(n) ELSE GlossaryPages(n) \o SummaryPage(n + 2)
RowKey_Plain(shows) == <<"section", shows[2]>>
RowKey(shows) == shows

Opening == [i \in 1..3 |-> Page(<<"front", <<"cover", "contents", "octagram">>[i]>>, "text", i, <<0, 0>>)]
Note == Page(<<"end", "note">>, "text", mpNext + 3, <<0, 0>>)
Printed == Append(Opening \o mpBody \o Appendix(mpNext), Note)

(* The rows of the contents: the sections, then the appendix's first pages;
   a row that goes by a name already there takes its place. *)
Contents ==
  LET Rows == {p \in {Appendix(mpNext)[i] : i \in DOMAIN Appendix(mpNext)} : p.part = "text"}
      Named(key) == {p \in Rows : RowKey(p.shows) = key}
  IN [key \in DOMAIN mpFirst \cup {RowKey(p.shows) : p \in Rows} |->
        IF Named(key) # {} THEN (CHOOSE p \in Named(key) : TRUE).number ELSE mpFirst[key]]

GroupOf(key) == mpReport.sections[CHOOSE i \in DOMAIN mpReport.sections : mpReport.sections[i].key = key].group
Begins(i, key) == Printed[i].part = "text" /\ Printed[i].shows = key
Unbroken(i) == \A j \in 1..i : Printed[j].part # "over"

(* A printed report numbers its pages without a gap; every section and table
   begins once, on the page the contents send the reader to, and that is the sheet
   of that number as long as no page before it took two sheets; the counters of a
   group are different numbers from one to its size. *)
MatrixPagesComplete ==
  mpAdded = Len(mpReport.sections) =>
    /\ \A i \in DOMAIN Printed :
         Printed[i].number = (IF i = 1 THEN 0 ELSE Printed[i - 1].number)
                             + (IF Printed[i].part = "over" THEN 0 ELSE 1)
    /\ \A key \in Keys(mpReport) \cup {<<"table", Tables[i]>> : i \in {j \in DOMAIN Tables : mpReport.long}} :
         /\ key \in DOMAIN Contents
         /\ \E i \in DOMAIN Printed :
              /\ {j \in DOMAIN Printed : Begins(j, key)} = {i}
              /\ Contents[key] = Printed[i].number /\ (Unbroken(i) => Contents[key] = i)
    /\ mpReport.long => \A i \in {j \in DOMAIN mpBody : mpBody[j].part = "text"} :
         /\ mpBody[i].counter[1] \in 1..mpBody[i].counter[2]
         /\ \A j \in {k \in 1..i - 1 : mpBody[k].part = "text"} :
              mpBody[i].counter = mpBody[j].counter => GroupOf(mpBody[i].shows) # GroupOf(mpBody[j].shows)
=============================================================================
