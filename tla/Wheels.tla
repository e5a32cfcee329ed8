------------------------------- MODULE Wheels -------------------------------
(***************************************************************************)
(* The wheel in the PDF of a birth chart.  The frontend draws it from the  *)
(* chart it was shown and posts the picture (api/routes/natal.py,          *)
(* upload_natal_wheel_svg), which goes to Redis and into the chart data of *)
(* the row; an edit of the birth data (users.py) puts a new chart in the   *)
(* row, without a picture, and leaves the one in Redis; the PDF            *)
(* (_build_natal_pdf_bytes) takes Redis before the row, and is kept under  *)
(* a key that covers the row but not Redis.                                *)
(*                                                                         *)
(* A birth stands for the birth data (its time known), and names the chart *)
(* and the picture computed from it.                                       *)
(***************************************************************************)
EXTENDS Integers

CONSTANTS
  WlHandlers,   \* concurrent requests of the user
  MaxWlBirths   \* bound on edits of the birth data

ASSUME WheelsAssumption == MaxWlBirths \in Nat

WlBirths == 0..MaxWlBirths
NoWheel == -1
Pictures == WlBirths \cup {NoWheel}

(* The rows of the user: birth data, chart data and the picture in them. *)
WlRows == [birth: WlBirths, data: WlBirths, picture: Pictures]

VARIABLES
  wlRow,    \* the committed row
  wlHot,    \* the picture in Redis
  wlPdf,    \* the kept PDF: its key, and the wheel in it
  wlReq,    \* handler -> its request
  wlClean   \* FALSE once two charts' pictures have met under one birth

wlVars == <<wlRow, wlHot, wlPdf, wlReq, wlClean>>

(* What one who never uploaded gets: the PDF draws a wheel of its own. *)
Drawn(row, picture) == IF picture = NoWheel THEN row.data ELSE picture

WlRow0 == [birth |-> 0, data |-> 0, picture |-> NoWheel]
WlIdle == [at |-> "idle", row |-> WlRow0, picture |-> NoWheel]

WlInit ==
  /\ wlRow = WlRow0
  /\ wlHot = NoWheel
  /\ wlPdf = [key |-> WlRow0, wheel |-> 0]
  /\ wlReq = [h \in WlHandlers |-> WlIdle]
  /\ wlClean = TRUE

WlAt(h, at) == wlReq[h].at = at
WlGoto(h, at, picture) == wlReq' = [wlReq EXCEPT ![h].at = at, ![h].picture = picture]
WlDone(h) == wlReq' = [wlReq EXCEPT ![h] = WlIdle]

WlUploading == \E h \in WlHandlers : wlReq[h].at \in {"hot", "save"}

(* The SELECT of user and chart. *)
WlLoad(h, at, picture) ==
  /\ WlAt(h, "idle")
  /\ wlReq' = [wlReq EXCEPT ![h] = [at |-> at, row |-> wlRow, picture |-> picture]]
  /\ UNCHANGED <<wlRow, wlHot, wlPdf>>

-----------------------------------------------------------------------------
(* POST /natal/wheel-svg *)

(* A picture of the chart the frontend was shown, perhaps a while ago. *)
UploadLoad(h) ==
  \E picture \in 0..wlRow.birth :
    /\ WlLoad(h, "hot", picture)
    /\ wlClean' = (wlClean /\ picture = wlRow.data)

UploadHot(h) ==
  /\ WlAt(h, "hot")
  /\ wlHot' = wlReq[h].picture
  /\ WlGoto(h, "save", wlReq[h].picture)
  /\ UNCHANGED <<wlRow, wlPdf, wlClean>>

(* The chart data is written back whole, as it was loaded. *)
UploadSave(h) ==
  /\ WlAt(h, "save")
  /\ wlRow' = IF wlReq[h].row.picture = wlReq[h].picture THEN wlRow
              ELSE [wlRow EXCEPT !.data = wlReq[h].row.data, !.picture = wlReq[h].picture]
  /\ WlDone(h)
  /\ UNCHANGED <<wlHot, wlPdf, wlClean>>

-----------------------------------------------------------------------------
(* POST /users/me/birth *)

EditLoad(h) == WlLoad(h, "edit", NoWheel) /\ UNCHANGED wlClean

(* What an edit does not change in its session's copy, it does not write. *)
EditSave(h) ==
  LET seen == wlReq[h].row IN
  /\ WlAt(h, "edit")
  /\ \E birth \in {seen.birth, wlRow.birth + 1} \cap WlBirths :
       /\ wlRow' = [birth   |-> IF birth = seen.birth THEN wlRow.birth ELSE birth,
                    data    |-> IF birth = seen.data /\ seen.picture = NoWheel
                                THEN wlRow.data ELSE birth,
                    picture |-> IF birth = seen.data /\ seen.picture = NoWheel
                                THEN wlRow.picture ELSE NoWheel]
       /\ wlClean' = IF wlRow'.birth = wlRow.birth THEN wlClean /\ wlRow'.data = wlRow.data
                     ELSE ~WlUploading
  /\ WlDone(h)
  /\ UNCHANGED <<wlHot, wlPdf>>

-----------------------------------------------------------------------------
(* GET /natal/pdf and its like *)

PdfLoad(h) == WlLoad(h, "look", NoWheel) /\ UNCHANGED wlClean

(* _natal_pdf_input_hash covers the birth data and the chart data. *)
PdfKey_NoPicture(row) == [row EXCEPT !.picture = NoWheel]
PdfKey(row) == row

PdfKept(h) ==
  /\ WlAt(h, "look")
  /\ wlPdf.key = PdfKey(wlReq[h].row)
  /\ WlDone(h)
  /\ UNCHANGED <<wlRow, wlHot, wlPdf, wlClean>>

(* The hot copy first, then the row's. *)
PdfDraw(h) ==
  /\ WlAt(h, "look")
  /\ wlPdf.key # PdfKey(wlReq[h].row)
  /\ WlGoto(h, "drawn", Drawn(wlReq[h].row,
                              IF wlHot # NoWheel THEN wlHot ELSE wlReq[h].row.picture))
  /\ UNCHANGED <<wlRow, wlHot, wlPdf, wlClean>>

PdfKeep(h) ==
  /\ WlAt(h, "drawn")
  /\ wlPdf' = [key |-> PdfKey(wlReq[h].row), wheel |-> wlReq[h].picture]
  /\ WlDone(h)
  /\ UNCHANGED <<wlRow, wlHot, wlClean>>

-----------------------------------------------------------------------------

HotExpires ==
  /\ wlHot # NoWheel
  /\ wlHot' = NoWheel
  /\ UNCHANGED <<wlRow, wlPdf, wlReq, wlClean>>

(* The process dies, or Redis or the renderer fails the request. *)
WlDies(h) ==
  /\ ~WlAt(h, "idle")
  /\ WlDone(h)
  /\ UNCHANGED <<wlRow, wlHot, wlPdf, wlClean>>

WlNext ==
  \/ \E h \in WlHandlers :
       \/ UploadLoad(h) \/ UploadHot(h) \/ UploadSave(h)
       \/ EditLoad(h) \/ EditSave(h)
       \/ PdfLoad(h) \/ PdfKept(h) \/ PdfDraw(h) \/ PdfKeep(h)
       \/ WlDies(h)
  \/ HotExpires

WlSpec == WlInit /\ [][WlNext]_wlVars

-----------------------------------------------------------------------------

(* Every variable has its type. *)
WlTypeOK ==
  /\ wlRow \in WlRows
  /\ wlHot \in Pictures
  /\ wlPdf \in [key: WlRows, wheel: Pictures]
  /\ wlReq \in [WlHandlers -> [at: {"idle", "hot", "save", "edit", "look", "drawn"},
                               row: WlRows, picture: Pictures]]
  /\ wlClean \in BOOLEAN

(* The wheel in the PDF is that of its chart once the frontend has posted it:
   although an edit leaves the old picture in Redis and old PDFs in the table,
   a PDF of a row that carries its own chart's picture is neither drawn nor
   kept with another.  Until then, or when pictures of two charts were posted
   under one birth, it may be another's: the kept PDF outlives the mix. *)
WheelIsExact ==
  wlClean /\ wlRow.picture = wlRow.data =>
    /\ wlPdf.key = PdfKey(wlRow) => wlPdf.wheel = wlRow.data
    /\ \A h \in WlHandlers :
         WlAt(h, "drawn") /\ wlReq[h].row = wlRow => wlReq[h].picture = wlRow.data
=============================================================================
