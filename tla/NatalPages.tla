------------------------------ MODULE NatalPages ------------------------------
(* The pages of the natal report made from HTML (services/natal_pdf_html.py):
   texts split in chunks, chunks packed on pages by the height the browser
   measured or, if that failed, by words, and the numbers in the contents. *)
EXTENDS Integers, Sequences, SequencesExt

CONSTANTS
  NpCharts,     \* [planets, houses, aspects, reading], each a sequence of texts
  NpHeight(_)   \* what the browser measures for a card of so many words

(* A text is [says, words, stops, group, shown]: stops are the numbers of the
   words that end a sentence, group is the kind of an aspect; what stands in for
   a text that came before is marked "plain". *)
TextsIn(ts) ==
  [says : {ts[i].says : i \in DOMAIN ts}, words : Nat, stops : SUBSET Nat,
   group : {ts[i].group : i \in DOMAIN ts}, shown : BOOLEAN]
ASSUME NatalPagesAssumption ==
  /\ \A c \in NpCharts :
       /\ \A s \in {"planets", "houses", "aspects", "reading"} :
            /\ c[s] \in Seq(TextsIn(c[s]))
            /\ \A i \in DOMAIN c[s] : \A n \in 0..c[s][i].words : NpHeight(n) \in Nat
       /\ \A i \in DOMAIN c.aspects : c.aspects[i].says[1] # "plain"
  /\ \A n \in 0..30 : NpHeight(n) \in Nat

VARIABLES
  npChart,
  npBy,        \* "measuring", then "heights" or "words"
  npSections,  \* the sections still to pack, the one at work first
  npLeft,      \* its items not yet on a page
  npPage,      \* the page at work
  npUsed,      \* what it holds, in pixels or words
  npSplit      \* section -> its finished pages
npVars == <<npChart, npBy, npSections, npLeft, npPage, npUsed, npSplit>>

-----------------------------------------------------------------------------
(* _split_words: at most `limit` words, up to the last end of a sentence among
   the last forty of them. *)
ChunkEnd(text, limit, from) ==
  LET to   == IF from + limit < text.words THEN from + limit ELSE text.words
      near == {p \in text.stops : from < p /\ to < p + 40 /\ p <= to}
  IN IF to = text.words \/ near = {} THEN to ELSE Max(near)
Chunks(text, limit) ==
  LET end[k \in 0..text.words] == IF k = 0 THEN 0 ELSE ChunkEnd(text, limit, end[k - 1])
      count == CHOOSE n \in 0..text.words :
                 end[n] = text.words /\ \A k \in 0..n - 1 : end[k] < text.words
  IN [k \in 1..count |-> <<end[k - 1], end[k]>>]

(* The items of a section: the chunks of its texts, in their order. *)
Item(section, i, text, span) ==
  [section |-> section, of |-> i, span |-> span, says |-> text.says,
   words |-> span[2] - span[1], group |-> text.group]
ItemsOf(section, texts, limit) ==
  FlattenSeq([i \in DOMAIN texts |->
    LET cs == Chunks(texts[i], limit)
    IN [k \in DOMAIN cs |-> Item(section, i, texts[i], cs[k])]])

(* Hidden aspects and those without a text are left out, the others grouped; a
   text that came before makes way for a plain one. *)
AspectOrder == <<"conjunction", "trine", "sextile", "square", "opposition", "quincunx">>
OfGroup(aspects, g) ==
  FlattenSeq([i \in DOMAIN aspects |->
    IF aspects[i].shown /\ aspects[i].group = g THEN <<aspects[i]>> ELSE <<>>])
Grouped(aspects) == FlattenSeq([g \in DOMAIN AspectOrder |-> OfGroup(aspects, AspectOrder[g])])
Deduped(aspects) ==
  [i \in DOMAIN aspects |->
     IF \E j \in 1..i - 1 : aspects[j].says = aspects[i].says
     THEN [aspects[i] EXCEPT !.says = <<"plain", i>>, !.words = 30, !.stops = {}] ELSE aspects[i]]
NoneFound == [says |-> <<"none", 0>>, words |-> 30, stops |-> {}, group |-> "none", shown |-> TRUE]

TextsOf(c, section) ==
  IF section # "aspects" THEN c[section]
  ELSE LET shown == Grouped(c.aspects) IN IF shown = <<>> THEN <<NoneFound>> ELSE Deduped(shown)
ChunkLimit(section) ==
  CASE section = "planets" -> 520 [] section = "houses" -> 330
    [] section = "aspects" -> 260 [] section = "reading" -> 180
SectionItems(c, section) == ItemsOf(section, TextsOf(c, section), ChunkLimit(section))

SectionsOf(c) ==
  <<"planets">> \o (IF c.houses = <<>> THEN <<>> ELSE <<"houses">>) \o <<"aspects", "reading">>

-----------------------------------------------------------------------------
(* What a page may hold and what an item takes, in pixels or in words *)

PageContent   == 940
SectionHead   == 96
GroupHeading  == 34
FirstPage(section) == CASE section = "aspects" -> 96 [] section = "reading" -> 88 [] OTHER -> 0
Gap(section)  == IF section = "reading" THEN 30 ELSE 11

Budget(section, first) ==
  IF npBy = "heights" THEN PageContent - SectionHead - (IF first THEN FirstPage(section) ELSE 0)
  ELSE IF section = "reading" THEN (IF first THEN 210 ELSE 260)
  ELSE (IF first THEN 360 ELSE 470)

Cost_HeadingOnce(item, page) ==
  IF npBy = "heights"
  THEN NpHeight(item.words) + (IF page = <<>> THEN 0 ELSE Gap(item.section))
       + (IF item.group # "none" /\ page # <<>> /\ Last(page).group # item.group
          THEN GroupHeading ELSE 0)
  ELSE item.words + (IF item.section = "reading" THEN 10 ELSE 14)
Cost(item, page) ==
  IF npBy = "heights"
  THEN NpHeight(item.words) + (IF page = <<>> THEN 0 ELSE Gap(item.section))
       + (IF item.group # "none" /\ (page = <<>> \/ Last(page).group # item.group)
          THEN GroupHeading ELSE 0)
  ELSE item.words + (IF item.section = "reading" THEN 10 ELSE 14)

-----------------------------------------------------------------------------
NpInit ==
  /\ npChart \in NpCharts
  /\ npBy = "measuring"
  /\ npSections = SectionsOf(npChart) /\ npLeft = SectionItems(npChart, "planets")
  /\ npPage = <<>> /\ npUsed = 0
  /\ npSplit = [s \in {"planets", "houses", "aspects", "reading"} |-> <<>>]

(* The browser measures every item, or fails and words are counted. *)
Measured ==
  /\ npBy = "measuring"
  /\ npBy' \in {"heights", "words"}
  /\ UNCHANGED <<npChart, npSections, npLeft, npPage, npUsed, npSplit>>

(* The next item goes on this page if it fits or the page is empty, else on a
   new one. *)
PlaceItem ==
  LET item == Head(npLeft)
      section == Head(npSections)
  IN /\ npBy # "measuring" /\ npLeft # <<>>
     /\ IF npPage = <<>> \/ npUsed + Cost(item, npPage) <= Budget(section, npSplit[section] = <<>>)
        THEN /\ npPage' = Append(npPage, item)
             /\ npUsed' = npUsed + Cost(item, npPage)
             /\ UNCHANGED npSplit
        ELSE /\ npSplit' = [npSplit EXCEPT ![section] = Append(@, npPage)]
             /\ npPage' = <<item>>
             /\ npUsed' = Cost(item, <<>>)
     /\ npLeft' = Tail(npLeft)
     /\ UNCHANGED <<npChart, npBy, npSections>>

(* The section's last page; but for the reading, a section has one. *)
EndSection ==
  LET section == Head(npSections)
      rest    == Tail(npSections)
  IN /\ npBy # "measuring" /\ npSections # <<>> /\ npLeft = <<>>
     /\ npSplit' = IF npPage = <<>> /\ section = "reading" THEN npSplit
                   ELSE [npSplit EXCEPT ![section] = Append(@, npPage)]
     /\ npSections' = rest
     /\ npLeft' = IF rest = <<>> THEN <<>> ELSE SectionItems(npChart, Head(rest))
     /\ npPage' = <<>> /\ npUsed' = 0
     /\ UNCHANGED <<npChart, npBy>>

NpNext == Measured \/ PlaceItem \/ EndSection
NpSpec == NpInit /\ [][NpNext]_npVars

-----------------------------------------------------------------------------
(* _assemble_natal_html: five fixed pages, the sections, the glossary. *)
Sheet(title, items) == [title |-> title, items |-> items]
Fixed    == <<Sheet("cover", <<>>), Sheet("contents", <<>>), Sheet("key points", <<>>),
              Sheet("wheel", <<>>), Sheet("elements", <<>>)>>
Glossary == <<Sheet("glossary", <<>>)>>
Document ==
  Fixed
  \o FlattenSeq([s \in 1..4 |->
       LET section == <<"planets", "houses", "aspects", "reading">>[s]
       IN [i \in DOMAIN npSplit[section] |-> Sheet(section, npSplit[section][i])]])
  \o Glossary

(* The contents name a page for each section that is there. *)
PageNamed(section) ==
  6 + (IF section \in {"houses", "aspects", "reading"} THEN Len(npSplit["planets"]) ELSE 0)
    + (IF section \in {"aspects", "reading"} THEN Len(npSplit["houses"]) ELSE 0)
    + (IF section = "reading" THEN Len(npSplit["aspects"]) ELSE 0)

(* What _render_section_page lays out: the header, what the section's first page
   adds, the items with the gaps between them, a heading for each run of a
   group. *)
RowHeight(section, page, i) ==
  LET headed == page[i].group # "none" /\ (i = 1 \/ page[i - 1].group # page[i].group)
  IN NpHeight(page[i].words) + (IF i > 1 THEN Gap(section) ELSE 0) + (IF headed THEN GroupHeading ELSE 0)
RenderedHeight(section, page, first) ==
  LET upTo[i \in 0..Len(page)] ==
        IF i = 0 THEN SectionHead + (IF first THEN FirstPage(section) ELSE 0)
        ELSE upTo[i - 1] + RowHeight(section, page, i)
  IN upTo[Len(page)]

(* Nothing paid for is lost between the texts and the pages: the chunks of a
   text are all its words, in order, and the texts follow each other; no aspect's
   text is printed for another; every item of a section is printed once, in
   order; the contents name the page where the section begins, if any of it is
   printed; and a page packed by measured heights overflows only by an item that
   no page could hold. *)
Whole(items, texts) ==
  /\ \A k \in DOMAIN texts : texts[k].words = 0 \/ \E i \in DOMAIN items : items[i].of = k
  /\ \A i \in DOMAIN items :
       LET begins == i = 1 \/ items[i - 1].of # items[i].of
           ends   == i = Len(items) \/ items[i + 1].of # items[i].of
       IN /\ items[i].of \in DOMAIN texts /\ items[i].says = texts[items[i].of].says
          /\ items[i].span[1] = IF begins THEN 0 ELSE items[i - 1].span[2]
          /\ ends => items[i].span[2] = texts[items[i].of].words
          /\ i > 1 => items[i - 1].of <= items[i].of
PageFits(section, page, first) ==
  RenderedHeight(section, page, first) <= PageContent \/ Len(page) = 1
NatalPagesComplete ==
  npSections = <<>> =>
    \A section \in {SectionsOf(npChart)[i] : i \in DOMAIN SectionsOf(npChart)} :
      LET split == npSplit[section]
          items == FlattenSeq(split)
      IN /\ items = SectionItems(npChart, section)
         /\ Whole(items, TextsOf(npChart, section))
         /\ section = "aspects" => \A i, j \in DOMAIN items :
              items[i].says = items[j].says => items[i].of = items[j].of
         /\ split # <<>> => /\ Document[PageNamed(section)].title = section
                            /\ Document[PageNamed(section) - 1].title # section
         /\ npBy = "heights" => \A i \in DOMAIN split : PageFits(section, split[i], i = 1)
=============================================================================
