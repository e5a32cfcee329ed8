------------------------------- MODULE MCReports -------------------------------
(***************************************************************************)
(* Small instances of the two report generators, of the one section that a *)
(* job renews and of the pages of the paid reports, which share nothing    *)
(* but the process: a behaviour is one of a single part, chosen at the     *)
(* start, while the others rest in an initial state.                       *)
(***************************************************************************)
EXTENDS PdfJobs, MatrixSections, YearSection, NatalPages, PlainPages, MatrixPages

VARIABLE part

mcVars == <<part, vars, secVars, yeVars, npVars, ppVars, mpVars>>

(* From Samoa to Kiribati. *)
MCOffsets == {-44, 0, 12, 22, 56}

(* Texts of the HTML report around the limits of a chunk and of a page. *)
MCHeight(n) == 60 + n
MCPageText(words, stops, group, shown) ==
  [says |-> <<"llm", words>>, words |-> words, stops |-> stops, group |-> group, shown |-> shown]
MCWords(words) == MCPageText(words, {}, "none", TRUE)
MCAspect(words, group, shown) == MCPageText(words, {}, group, shown)
(* The chart of a part at rest. *)
MCNpRest == [planets |-> <<>>, houses |-> <<>>, aspects |-> <<>>, reading |-> <<>>]
MCNpCharts ==
  {[planets |-> <<MCWords(p), MCWords(120), MCPageText(700, {100, 300, 500, 690}, "none", TRUE)>>,
    houses |-> h, aspects |-> a,
    reading |-> <<MCWords(r), MCWords(150), MCPageText(400, {170, 300}, "none", TRUE)>>] :
     p \in {150, 520, 1100}, r \in {60, 181},
     h \in {<<>>, <<MCWords(331), MCWords(90), MCWords(300)>>},
     a \in {<<MCAspect(100, "square", FALSE)>>,
            <<MCAspect(150, "square", TRUE), MCAspect(260, "trine", TRUE), MCAspect(9, "square", FALSE),
              MCAspect(237, "square", TRUE), MCAspect(270, "trine", TRUE), MCAspect(140, "square", TRUE),
              MCAspect(140, "square", TRUE)>>}} \cup {MCNpRest}

(* The same for the drawn one, in lines. *)
MCLines(n, paragraphs, wide) ==
  [says |-> <<"llm", n>>, wide |-> wide, shown |-> TRUE, title |-> paragraphs = <<>>,
   paragraphs |-> paragraphs]
MCPpCharts ==
  {[planets |-> <<MCLines(1, <<12, p>>, FALSE), MCLines(2, <<8>>, FALSE)>>, houses |-> h, aspects |-> a,
    reading |-> <<MCLines(1, <<>>, TRUE), MCLines(2, <<7, 3>>, FALSE), MCLines(3, <<>>, FALSE),
                  MCLines(4, <<20>>, FALSE), MCLines(5, <<>>, TRUE), MCLines(6, <<p>>, FALSE)>>] :
     p \in {25, 28, 60},
     h \in {<<>>, <<MCLines(1, <<31>>, FALSE), MCLines(2, <<12>>, FALSE), MCLines(3, <<50>>, FALSE)>>},
     a \in {<<>>, <<MCLines(1, <<24>>, TRUE), MCLines(2, <<9>>, TRUE), MCLines(1, <<9>>, FALSE),
                    MCLines(4, <<30, 4>>, TRUE), MCLines(5, <<22>>, TRUE)>>}} \cup {MCNpRest}

(* A short report of three sections, some with practice, and a long one in which
   a section and a table go by the same word. *)
MCSection(name, group) == [key |-> <<"section", name>>, group |-> group]
MCLong ==
  [long |-> TRUE, practice |-> {}, canon |-> 2,
   sections |-> <<MCSection("visitka", "main"), MCSection("purposes", "main"), MCSection("health", "main"),
                  MCSection("purpose_sky", "purpose"), MCSection("purpose_earth", "purpose")>>]
MCMpRest == [long |-> FALSE, practice |-> {}, canon |-> 1, sections |-> <<>>]
MCMpReports ==
  {[long |-> FALSE, practice |-> p, canon |-> 1,
    sections |-> <<MCSection("talents", "main"), MCSection("purpose", "main"), MCSection("advice", "main")>>] :
     p \in SUBSET {<<"section", "talents">>, <<"section", "purpose">>, <<"section", "advice">>}} \cup {MCLong, MCMpRest}

(* "jobs": requests for a job and for its report, and deaths; "store": all
   requests, and edits of the chart, around one job, no death. *)
OneJob == CHOOSE j \in Jobs : TRUE
MCInit ==
  /\ part \in {"jobs", "store", "sections", "year", "pages", "plain", "matrix_pages"}
  /\ Init /\ SecInit
  /\ YeInit /\ (part # "year" => offset = 0 /\ leapling = FALSE)
  /\ NpInit /\ (part = "pages" <=> npChart # MCNpRest)
  /\ PpInit /\ (part = "plain" <=> ppChart # MCNpRest)
  /\ MpInit /\ (part = "matrix_pages" <=> mpReport # MCMpRest)

MCNext ==
  /\ UNCHANGED part
  /\ \/ part = "jobs" /\ Next /\ \A h \in Handlers : req'[h].kind \in {"none", "start", "ready"}
     \/ part = "store" /\ Next /\ faults' = 0
        /\ \A h \in Handlers : req'[h].job \in {NoJob, OneJob}
     \/ part \notin {"jobs", "store"} /\ UNCHANGED vars
  /\ (part = "sections" /\ SecNext) \/ (part # "sections" /\ UNCHANGED secVars)
  /\ (part = "year" /\ YeNext) \/ (part # "year" /\ UNCHANGED yeVars)
  /\ (part = "pages" /\ NpNext) \/ (part # "pages" /\ UNCHANGED npVars)
  /\ (part = "plain" /\ PpNext) \/ (part # "plain" /\ UNCHANGED ppVars)
  /\ (part = "matrix_pages" /\ MpNext) \/ (part # "matrix_pages" /\ UNCHANGED mpVars)

(* Fairness and SecFairness; neither asks anything of a part at rest but time. *)
MCFairness ==
  /\ \A h \in Handlers : WF_vars(Proceed(h))
  /\ \A j \in Jobs : WF_vars(Work(j))
  /\ WF_vars(part \in {"jobs", "store"} /\ Tick)
  /\ SecFairness

(* The three paid reports are complete.  (A part is only asked while it is the
   one that moves: at rest it is in an initial state.) *)
PagesComplete ==
  /\ part = "pages" => NatalPagesComplete
  /\ part = "plain" => PlainPagesComplete
  /\ part = "matrix_pages" => MatrixPagesComplete

MCSpec == MCInit /\ [][MCNext]_mcVars /\ MCFairness
=============================================================================
