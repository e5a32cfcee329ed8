------------------------------ MODULE PlainPages ------------------------------
(* The report that is drawn when Chromium fails (services/natal_pdf.py,
   generate_natal_pdf): a cursor goes down the page line by line and a page is
   turned where the next line or the next heading would not fit. Lengths are
   in tenths of a point, measured from the foot of the page. *)
EXTENDS Integers, Sequences, SequencesExt

CONSTANT PpCharts   \* [planets, houses, aspects, reading], each a sequence of texts

(* A text is [says, wide, shown, title, paragraphs]: how many lines each
   paragraph takes; wide headings take two lines; a line of the reading is a
   title, which has no paragraph, or a paragraph. *)
ASSUME PlainAssumption ==
  \A c \in PpCharts :
    /\ \A s \in {"planets", "houses", "aspects", "reading"} :
         /\ c[s] \in Seq({c[s][i] : i \in DOMAIN c[s]})
         /\ \A i \in DOMAIN c[s] :
              c[s][i].wide \in BOOLEAN /\ c[s][i].paragraphs \in Seq(Nat \ {0})
    /\ \A i \in DOMAIN c.reading : c.reading[i].title <=> c.reading[i].paragraphs = <<>>

VARIABLES
  ppChart,
  ppBlocks,    \* the blocks still to draw, the one at work first
  ppHeaded,    \* its heading is drawn
  ppLines,     \* what is left of its paragraphs
  ppPage, ppY, \* the cursor
  ppDrawn      \* [block, line, page, y]: line 0 is the heading
ppVars == <<ppChart, ppBlocks, ppHeaded, ppLines, ppPage, ppY, ppDrawn>>

-----------------------------------------------------------------------------
(* A text that was printed for another aspect is left out with its aspect. *)
Undoubled(aspects) ==
  LET Doubles(i) == \E j \in 1..i - 1 : aspects[j].shown /\ aspects[j].says = aspects[i].says
  IN FlattenSeq([i \in DOMAIN aspects |->
                   IF aspects[i].shown /\ ~Doubles(i) THEN <<aspects[i]>> ELSE <<>>])

Block(kind, i, text, opens) ==
  [kind |-> kind, id |-> i, opens |-> opens, wide |-> text.wide, lines |-> text.paragraphs]
HasHead(b) == b.kind # "paragraph"
NoteOnly == [says |-> <<"none", 0>>, wide |-> FALSE, shown |-> TRUE, title |-> FALSE, paragraphs |-> <<>>]

(* One planet on a page, two houses, aspects and the reading one after another. *)
PlanetBlocks(c) == [i \in DOMAIN c.planets |-> Block("planet", i, c.planets[i], TRUE)]
HouseBlocks(c)  == [i \in DOMAIN c.houses |-> Block("house", i, c.houses[i], i % 2 = 1)]
AspectBlocks(c) ==
  LET aspects == Undoubled(c.aspects)
  IN IF aspects = <<>> THEN <<Block("none", 1, NoteOnly, TRUE)>>
     ELSE [i \in DOMAIN aspects |-> Block("aspect", i, aspects[i], i = 1)]
ReadingBlocks(c) ==
  [i \in DOMAIN c.reading |->
     Block(IF c.reading[i].title THEN "title" ELSE "paragraph", i, c.reading[i], i = 1)]
BlocksOf(c) == PlanetBlocks(c) \o HouseBlocks(c) \o AspectBlocks(c) \o ReadingBlocks(c)

-----------------------------------------------------------------------------
Top == 6668   \* where title_page leaves the cursor
Foot(kind) == IF kind = "house" THEN 820 ELSE 720
LineHeight(kind) == CASE kind = "house" -> 143 [] kind = "aspect" -> 150
                      [] kind = "paragraph" -> 170 [] OTHER -> 155
After(kind) == CASE kind = "house" -> 220 [] kind = "aspect" -> 260
                 [] kind = "paragraph" -> 60 [] OTHER -> 0

(* What the first page of a section holds above its first block, what a heading
   takes, and where none may begin any more. *)
Preface(b) == CASE b.kind = "aspect" /\ b.opens -> 580
                [] b.kind \in {"title", "paragraph"} /\ b.opens -> 290
                [] OTHER -> 0
HeadHeight(b) ==
  CASE b.kind = "planet" -> 340
    [] b.kind = "house"  -> 490
    [] b.kind = "aspect" -> IF b.wide THEN 800 ELSE 490
    [] b.kind = "title"  -> IF b.wide THEN 400 ELSE 240
    [] OTHER -> 0
TooLow_BaselineOnly(b, y) == HasHead(b) /\ ~b.opens /\ y < Foot(b.kind)
TooLow(b, y) ==
  CASE b.kind = "house"  -> y < 2100
    [] b.kind = "aspect" -> y < 1900
    [] b.kind = "title"  -> y < HeadHeight(b) + 640
    [] OTHER -> FALSE

-----------------------------------------------------------------------------
PpBlock == Head(ppBlocks)
FixedPages == <<"cover", "contents", "key points", "wheel", "elements">>

PpInit ==
  /\ ppChart \in PpCharts
  /\ ppBlocks = BlocksOf(ppChart) /\ ppHeaded = FALSE /\ ppLines = <<>>
  /\ ppPage = Len(FixedPages) /\ ppY = Top /\ ppDrawn = <<>>

Drawn(line, page, y) == Append(ppDrawn, [block |-> PpBlock, line |-> line, page |-> page, y |-> y])

(* A block begins: on a new page if its section or its pair does, or if too
   little is left of this one. *)
BeginBlock ==
  /\ ppBlocks # <<>> /\ ~ppHeaded
  /\ LET turn == PpBlock.opens \/ TooLow(PpBlock, ppY)
         page == IF turn THEN ppPage + 1 ELSE ppPage
         y    == (IF turn THEN Top ELSE ppY) - Preface(PpBlock)
     IN /\ ppPage' = page /\ ppY' = y - HeadHeight(PpBlock)
        /\ ppDrawn' = IF HasHead(PpBlock) THEN Drawn(0, page, y) ELSE ppDrawn
  /\ ppHeaded' = TRUE /\ ppLines' = PpBlock.lines
  /\ UNCHANGED <<ppChart, ppBlocks>>

(* draw_detail_text: the next line; the page turns if it would reach the foot. *)
DrawLine ==
  /\ ppHeaded /\ ppLines # <<>>
  /\ LET lh   == LineHeight(PpBlock.kind)
         turn == ppY < lh + Foot(PpBlock.kind)
         y    == IF turn THEN Top ELSE ppY
         last == Head(ppLines) = 1
         line == IF ppDrawn # <<>> /\ Last(ppDrawn).block = PpBlock THEN Last(ppDrawn).line + 1 ELSE 1
     IN /\ ppPage' = IF turn THEN ppPage + 1 ELSE ppPage
        /\ ppDrawn' = Drawn(line, ppPage', y)
        /\ ppY' = y - lh - (IF last THEN (lh * 55) \div 100 ELSE 0)
        /\ ppLines' = IF last THEN Tail(ppLines) ELSE [ppLines EXCEPT ![1] = @ - 1]
  /\ UNCHANGED <<ppChart, ppBlocks, ppHeaded>>

End ==
  /\ ppHeaded /\ ppLines = <<>>
  /\ ppBlocks' = Tail(ppBlocks) /\ ppHeaded' = FALSE
  /\ ppY' = ppY - After(PpBlock.kind)
  /\ UNCHANGED <<ppChart, ppLines, ppPage, ppDrawn>>

PpNext == BeginBlock \/ DrawLine \/ End
PpSpec == PpInit /\ [][PpNext]_ppVars

-----------------------------------------------------------------------------
(* The drawn report holds every line of every block once, in the order of the
   blocks; nothing is drawn over what came before or in the footer; and the
   heading of a planet, a house or an aspect is on the page of its first line. *)
FirstLine(b) == IF HasHead(b) THEN 0 ELSE 1
LinesUpto(b) ==
  LET upTo[k \in 0..Len(b.lines)] == IF k = 0 THEN 0 ELSE upTo[k - 1] + b.lines[k]
  IN upTo
LineCount(b) == LinesUpto(b)[Len(b.lines)]
Height(e) == IF e.line = 0 THEN HeadHeight(e.block) ELSE LineHeight(e.block.kind)

OnPaper(e) == e.y - Height(e) >= 640
Below(d, e) ==
  \/ e.page = d.page + 1 /\ (d.line = 0 => d.block.lines = <<>>)
  \/ e.page = d.page /\ e.y + Height(d) <= d.y
Opens(e, b) == e.block = b /\ e.line = FirstLine(b)
Closes(e, b) == e.block = b /\ e.line = LineCount(b)
ReadOn(blocks, d, e) ==
  \/ e.block = d.block /\ e.line = d.line + 1
  \/ \E n \in 1..Len(blocks) - 1 : Closes(d, blocks[n]) /\ Opens(e, blocks[n + 1])

PlainPagesComplete ==
  /\ \A i \in DOMAIN ppDrawn :
       OnPaper(ppDrawn[i]) /\ (i > 1 => Below(ppDrawn[i - 1], ppDrawn[i]))
  /\ ppBlocks = <<>> =>
       LET blocks == BlocksOf(ppChart)
       IN /\ Opens(ppDrawn[1], blocks[1]) /\ Closes(Last(ppDrawn), Last(blocks))
          /\ \A i \in 2..Len(ppDrawn) : ReadOn(blocks, ppDrawn[i - 1], ppDrawn[i])
=============================================================================
