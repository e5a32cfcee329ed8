------------------------------- MODULE Downloads -------------------------------
(* Who gets the paid texts of one user: the PDF answered at once, sent to the
   chat or fetched by a link of five minutes, and what is shown on the screen
   (api/routes/natal.py, destiny_matrix.py, destiny_matrix_v3.py), with what the
   profile says of his purchases (users.py). What is in the texts is modelled
   elsewhere. *)
EXTENDS Integers, Sequences

CONSTANTS
  DlHandlers,
  DlReports,    \* of "natal", "matrix" (the first edition) and "matrix_v3"
  MaxSubs, MaxDlEdits   \* bounds: subscriptions, birth dates

ProductOf(k) == IF k = "natal" THEN "natal_full" ELSE "destiny_matrix_full"

VARIABLES
  dlSubs,    \* subscriptions in the order of their creation
  dlBought,  \* products with a completed purchase
  dlBirth,   \* the birth date in the profile
  dlRows,    \* birth dates with a row of the matrix
  dlTexts,   \* sections written for that date, of one free and one paid
  dlReport,  \* the natal report of that date: "none", or whose it is
  dlLinks,   \* reports with a token in Redis
  dlAsk,     \* handler -> its request
  dlGiven    \* what left the server last
dlVars == <<dlSubs, dlBought, dlBirth, dlRows, dlTexts, dlReport, dlLinks, dlAsk, dlGiven>>

rights == <<dlSubs, dlBought>>
NoPdf == [report |-> "none"]

DlInit ==
  /\ dlSubs = <<>> /\ dlBought = {} /\ dlBirth = 1 /\ dlRows = {} /\ dlTexts = {} /\ dlLinks = {}
  /\ dlReport = "none"
  /\ dlAsk = [h \in DlHandlers |-> NoPdf]
  /\ dlGiven = [paid |-> FALSE, had |-> FALSE, own |-> TRUE]

-----------------------------------------------------------------------------
(* Access *)

IsPremium == \E i \in DOMAIN dlSubs : dlSubs[i] = "live"
HasFullAccess(k) == IsPremium \/ ProductOf(k) \in dlBought

(* get_my_purchases shows the newest that is live. *)
ActiveSubscription_Newest == IF dlSubs # <<>> /\ dlSubs[Len(dlSubs)] = "live" THEN Len(dlSubs) ELSE 0
ActiveSubscription ==
  LET live == {i \in DOMAIN dlSubs : dlSubs[i] = "live"}
  IN  IF live = {} THEN 0 ELSE CHOOSE i \in live : \A j \in live : j <= i
(* get_my_reports *)
MyReports == [k \in DlReports |-> IsPremium \/ ProductOf(k) \in dlBought]

(* A purchase, a refund, a subscription and its end, at any moment; an edit of
   the birth date. *)
RightsChange ==
  /\ \/ dlBought' \in SUBSET {ProductOf(k) : k \in DlReports} /\ UNCHANGED dlSubs
     \/ Len(dlSubs) < MaxSubs /\ dlSubs' = Append(dlSubs, "live") /\ UNCHANGED dlBought
     \/ \E i \in DOMAIN dlSubs : dlSubs' = [dlSubs EXCEPT ![i] = "ended"] /\ UNCHANGED dlBought
  /\ UNCHANGED <<dlBirth, dlRows, dlTexts, dlReport, dlLinks, dlAsk, dlGiven>>
BirthEdit ==
  /\ dlBirth < MaxDlEdits /\ dlBirth' = dlBirth + 1 /\ dlTexts' = {} /\ dlReport' = "none"
  /\ UNCHANGED <<rights, dlRows, dlLinks, dlAsk, dlGiven>>

-----------------------------------------------------------------------------
(* PDFs. A request reads the user and the row of the matrix, writes the texts
   that are missing and draws the pages; had is whether the reports were his. A
   natal report is kept unless the birth was edited meanwhile or its writing was
   cut short (PdfJobs). *)

Read(h, k) ==
  /\ dlAsk[h] = NoPdf
  /\ dlAsk' = [dlAsk EXCEPT ![h] = [report |-> k, birth |-> IF k = "natal" THEN 0 ELSE dlBirth, had |-> HasFullAccess(k)]]
AskPdf(h, k) ==   \* answered at once, or sent to the chat
  /\ HasFullAccess(k) /\ Read(h, k)
  /\ UNCHANGED <<rights, dlBirth, dlRows, dlTexts, dlReport, dlLinks, dlGiven>>

CreateLink(k) ==
  /\ HasFullAccess(k) /\ dlLinks' = dlLinks \cup {k}
  /\ UNCHANGED <<rights, dlBirth, dlRows, dlTexts, dlReport, dlAsk, dlGiven>>
LinkExpires(k) ==
  /\ dlLinks' = dlLinks \ {k}
  /\ UNCHANGED <<rights, dlBirth, dlRows, dlTexts, dlReport, dlAsk, dlGiven>>
StillAllowed_Once(k) == TRUE
StillAllowed(k) == HasFullAccess(k)
OpenLink(h, k) ==
  /\ k \in dlLinks /\ StillAllowed(k) /\ Read(h, k)
  /\ UNCHANGED <<rights, dlBirth, dlRows, dlTexts, dlReport, dlLinks, dlGiven>>

PdfAnswered(h) == dlAsk' = [dlAsk EXCEPT ![h] = NoPdf]
(* The row and the texts may have been committed, by this request or before
   it found that another one had added the row. *)
BuildFails(h) ==
  /\ dlAsk[h] # NoPdf /\ PdfAnswered(h)
  /\ dlRows' \in {dlRows, dlRows \cup ({dlAsk[h].birth} \ {0})}
  /\ UNCHANGED <<rights, dlBirth, dlTexts, dlReport, dlLinks, dlGiven>>
BirthDrawn_Current(r) == dlBirth
BirthDrawn(r) == r.birth
(* Telegram may have taken a document whose sending failed. *)
DeliverPdf(h) ==
  LET r == dlAsk[h] IN
  /\ r # NoPdf /\ PdfAnswered(h)
  /\ dlRows' = dlRows \cup ({r.birth} \ {0})
  /\ dlTexts' = IF r.birth = dlBirth THEN {"free", "paid"} ELSE dlTexts
  /\ dlReport' \in {dlReport} \cup IF r.report = "natal" THEN {IF r.had THEN "reader's" ELSE "stranger's"} ELSE {}
  /\ dlGiven' = [paid |-> TRUE, had |-> r.had, own |-> r.report = "natal" \/ BirthDrawn(r) = r.birth]
  /\ UNCHANGED <<rights, dlBirth, dlLinks>>

-----------------------------------------------------------------------------
(* The sections on the screen: a reader without access sees the free one and
   teasers for the rest, whatever has been written for him; the first edition
   writes all of them, the third only those he may see. *)
Visible(texts, full) == IF full THEN texts ELSE texts \cap {"free"}
ReadSections(k) ==
  LET full == HasFullAccess(k)
      texts == dlTexts \cup (IF full \/ k = "matrix" THEN {"free", "paid"} ELSE {"free"})
  IN /\ k # "natal" /\ dlRows' = dlRows \cup {dlBirth}
     /\ dlTexts' \in {texts, dlTexts}   \* a text may fail
     /\ dlGiven' = [paid |-> "paid" \in Visible(dlTexts', full), had |-> full, own |-> TRUE]
     /\ UNCHANGED <<rights, dlBirth, dlReport, dlLinks, dlAsk>>

(* The natal report: whole for those with access (get_natal_full), and its texts
   of planets, houses and aspects for anybody it was written for
   (get_natal_descriptions). had is then whether he had access when he asked for
   that report. *)
ReadNatal(given) ==
  /\ dlReport # "none" /\ dlGiven' = given
  /\ UNCHANGED <<rights, dlBirth, dlRows, dlTexts, dlReport, dlLinks, dlAsk>>
ReadFull == HasFullAccess("natal") /\ ReadNatal([paid |-> TRUE, had |-> HasFullAccess("natal"), own |-> TRUE])
ReadDescriptions == ReadNatal([paid |-> TRUE, had |-> dlReport = "reader's", own |-> TRUE])

DlNext ==
  \/ RightsChange \/ BirthEdit \/ ReadFull \/ ReadDescriptions
  \/ \E k \in DlReports : CreateLink(k) \/ LinkExpires(k) \/ ReadSections(k)
  \/ \E h \in DlHandlers :
       \/ \E k \in DlReports : OpenLink(h, k) \/ AskPdf(h, k)
       \/ BuildFails(h) \/ DeliverPdf(h)

DlSpec == DlInit /\ [][DlNext]_dlVars

-----------------------------------------------------------------------------
(* Paid text leaves only on requests made while there was access, however the
   link was come by, whatever was written for the reader when he had it and
   though it has ended since. There is one exception: the texts
   of planets, houses and aspects of a natal report are shown without asking
   (natal.py:1136-1151), also after access has ended, and of them it holds only
   that the report was asked for with access. A matrix is of the birth date of
   the request though it was edited meanwhile; and the profile shows a running
   subscription, and open reports, exactly when there are. *)
PaidTextsArePaidFor ==
  /\ dlGiven.paid => dlGiven.had
  /\ dlGiven.own
  /\ ActiveSubscription # 0 <=> IsPremium
  /\ \A k \in DlReports : MyReports[k] <=> HasFullAccess(k)
=============================================================================
