---------------------------- MODULE MatrixReading ----------------------------
(***************************************************************************)
(* The Destiny Matrix of one birth date and its eight-section text         *)
(* (api/routes/destiny_matrix.py).  The reading's numbers are stored once; *)
(* numbers in an old format are computed again and the text made from them *)
(* is dropped.  There is one text per reading, written for a gender.  A    *)
(* request writes inside one transaction around a slow LLM call; POST      *)
(* /calculate also starts a background task with a session of its own.     *)
(***************************************************************************)
EXTENDS Integers, FiniteSets

CONSTANTS
  MxHandlers,    \* concurrent requests and background tasks
  MxGenders,     \* genders of the reader, NULL among them
  MaxMxEdits, MaxMxFaults   \* bounds

VARIABLES
  gender,     \* users.gender
  hasFull,    \* premium or destiny_matrix_full
  looksOld,   \* the date's numbers match the mark of the old format
  numbers,    \* the committed reading: "none", "old", "new" numbers
  text,       \* the committed interpretation and who wrote it, or NoText
  holder,     \* the transaction holding locks on the two rows, or NoOne
  mreq,       \* handler -> its request
  mxEdits, mxFaults

mxVars == <<gender, hasFull, looksOld, numbers, text, holder, mreq, mxEdits, mxFaults>>

NoOne  == "no one"

ASSUME MatrixAssumption ==
  /\ "none" \notin MxGenders /\ NoOne \notin MxHandlers
  /\ MaxMxEdits \in Nat /\ MaxMxFaults \in Nat

NoText == [gender |-> "none", numbers |-> "none", by |-> NoOne]
MxIdle == [kind |-> "none", at |-> "idle", gender |-> "none", numbers |-> "none",
           drop |-> FALSE, saw |-> NoText]

MxInit ==
  /\ gender \in MxGenders /\ hasFull \in BOOLEAN /\ looksOld \in BOOLEAN
  /\ \/ numbers = "none" /\ text = NoText
     \/ /\ numbers = "old"
        /\ text \in {NoText} \cup [gender: MxGenders, numbers: {"old"}, by: {NoOne}]
  /\ holder = NoOne
  /\ mreq = [h \in MxHandlers |-> MxIdle]
  /\ mxEdits = 0 /\ mxFaults = 0

(* _is_stale_positions. *)
Stale == numbers = "old" \/ (numbers = "new" /\ looksOld)

EditGender(g) ==
  /\ mxEdits < MaxMxEdits /\ g # gender
  /\ gender' = g /\ mxEdits' = mxEdits + 1
  /\ UNCHANGED <<hasFull, looksOld, numbers, text, holder, mreq, mxFaults>>

-----------------------------------------------------------------------------
(* POST /calculate and GET /me: store or refresh the numbers, and start the
   text's background task *)

(* Numbers and text as a refresh or a first computation leaves them. *)
Refreshed_KeepText == /\ numbers' = "new"
                      /\ text' = text
Refreshed == /\ numbers' = "new"
             /\ text' = IF numbers = "none" \/ Stale THEN NoText ELSE text

Calculate(h) ==
  /\ mreq[h] = MxIdle /\ holder = NoOne
  /\ Refreshed
  /\ mreq' = [mreq EXCEPT ![h] = [kind |-> "pregen", at |-> "start", gender |-> gender,
                                  numbers |-> "new", drop |-> FALSE, saw |-> NoText]]
  /\ UNCHANGED <<gender, hasFull, looksOld, holder, mxEdits, mxFaults>>

GetMe ==
  /\ holder = NoOne
  /\ Refreshed
  /\ UNCHANGED <<gender, hasFull, looksOld, holder, mreq, mxEdits, mxFaults>>

(* _pregenerate_interpretation: nothing to do for a text of that gender. *)
PregenStart(h) ==
  /\ mreq[h].at = "start"
  /\ mreq' = [mreq EXCEPT ![h] = IF text.gender = @.gender THEN MxIdle
                                 ELSE [@ EXCEPT !.at = "llm", !.drop = text # NoText]]
  /\ UNCHANGED <<gender, hasFull, looksOld, numbers, text, holder, mxEdits, mxFaults>>

-----------------------------------------------------------------------------
(* GET /interpretation and the PDF (which needs full access) *)

Busy(kind, at, drop) ==
  [kind |-> kind, at |-> at, gender |-> gender, numbers |-> "new", drop |-> drop, saw |-> text]

(* It creates or refreshes the reading, drops a text of another gender and
   keeps those row locks until it ends; a text of the gender is served. *)
Ask(h, kind) ==
  /\ mreq[h] = MxIdle /\ (kind = "pdf" => hasFull)
  /\ LET writes == numbers = "none" \/ Stale
         drops == text # NoText
     IN /\ writes \/ text.gender # gender
        /\ mreq' = [mreq EXCEPT ![h] =
             IF (writes \/ drops) /\ holder # NoOne
             THEN Busy(kind, IF numbers = "none" THEN "waitnew" ELSE "wait", FALSE)
             ELSE Busy(kind, "llm", drops)]
        /\ holder' = IF (writes \/ drops) /\ holder = NoOne THEN h ELSE holder
  /\ UNCHANGED <<gender, hasFull, looksOld, numbers, text, mxEdits, mxFaults>>

(* The other transaction has ended.  A second INSERT of the reading fails; a
   DELETE that waited does not see the row that replaced its own. *)
Unblock(h) ==
  /\ mreq[h].at \in {"wait", "waitnew"} /\ holder = NoOne
  /\ IF mreq[h].at = "waitnew" /\ numbers # "none"
     THEN /\ mreq' = [mreq EXCEPT ![h] = MxIdle]
          /\ UNCHANGED holder
     ELSE /\ mreq' = [mreq EXCEPT ![h].at = "llm",
                                  ![h].drop = text # NoText /\ text = mreq[h].saw]
          /\ holder' = h
  /\ UNCHANGED <<gender, hasFull, looksOld, numbers, text, mxEdits, mxFaults>>

-----------------------------------------------------------------------------

MxEnd(h) ==
  /\ mreq' = [mreq EXCEPT ![h] = MxIdle]
  /\ holder' = IF holder = h THEN NoOne ELSE holder

(* The static fallback is not stored; what the request deleted is gone. *)
Fallback(h) ==
  /\ mreq[h].at = "llm"
  /\ numbers' = IF holder = h THEN "new" ELSE numbers
  /\ text' = IF holder = h /\ mreq[h].drop THEN NoText ELSE text
  /\ MxEnd(h)
  /\ UNCHANGED <<gender, hasFull, looksOld, mxEdits, mxFaults>>

(* INSERT and commit.  The background task deletes whatever row there is by
   now when it had seen one of another gender.  Where somebody else has
   inserted a row the INSERT fails, the transaction is rolled back, and that
   row stays. *)
StoreText_Overwrite(h) ==
  /\ mreq[h].at = "llm"
  /\ LET q == mreq[h]
     IN /\ text' = [gender |-> q.gender, numbers |-> q.numbers, by |-> h]
        /\ numbers' = IF holder = h THEN "new" ELSE numbers
  /\ MxEnd(h)
  /\ UNCHANGED <<gender, hasFull, looksOld, mxEdits, mxFaults>>
StoreText(h) ==
  /\ mreq[h].at = "llm"
  /\ LET q == mreq[h]
         free == text = NoText \/ q.drop
     IN /\ q.kind = "pregen" /\ q.drop => holder = NoOne
        /\ text' = IF free THEN [gender |-> q.gender, numbers |-> q.numbers, by |-> h] ELSE text
        /\ numbers' = IF free /\ holder = h THEN "new" ELSE numbers
  /\ MxEnd(h)
  /\ UNCHANGED <<gender, hasFull, looksOld, mxEdits, mxFaults>>

MxDies(h) ==
  /\ mreq[h] # MxIdle /\ mxFaults < MaxMxFaults
  /\ mxFaults' = mxFaults + 1
  /\ MxEnd(h)
  /\ UNCHANGED <<gender, hasFull, looksOld, numbers, text, mxEdits>>

MxStep(h) == PregenStart(h) \/ Unblock(h) \/ Fallback(h) \/ StoreText(h)

MxNext ==
  \/ \E h \in MxHandlers :
       Calculate(h) \/ (\E kind \in {"interp", "pdf"} : Ask(h, kind)) \/ MxStep(h) \/ MxDies(h)
  \/ GetMe
  \/ \E g \in MxGenders : EditGender(g)

MxSpec == MxInit /\ [][MxNext]_mxVars

-----------------------------------------------------------------------------
(* Properties *)

MxTexts == {NoText} \cup [gender: MxGenders, numbers: {"old", "new"}, by: MxHandlers \cup {NoOne}]

MxRequest == [kind: {"none", "interp", "pdf", "pregen"},
              at: {"idle", "start", "wait", "waitnew", "llm"},
              gender: MxGenders \cup {"none"}, numbers: {"none", "new"}, drop: BOOLEAN,
              saw: MxTexts]

(* Every variable has its type. *)
MxTypeOK ==
  /\ gender \in MxGenders /\ hasFull \in BOOLEAN /\ looksOld \in BOOLEAN
  /\ numbers \in {"none", "old", "new"}
  /\ text \in MxTexts
  /\ holder \in MxHandlers \cup {NoOne}
  /\ mreq \in [MxHandlers -> MxRequest]
  /\ mxEdits \in 0..MaxMxEdits /\ mxFaults \in 0..MaxMxFaults

(* "Drop the cached LLM interpretation (it was anchored to old numbers)": the
   stored text speaks of the numbers the reading holds, whichever request or
   background task wrote either. *)
TextOfTheNumbers == text # NoText => text.numbers = numbers

(* "The LLM call is made once and cached per reading_id": as long as the
   reader's gender is what it was, a text written for it is neither replaced
   nor dropped, however many requests and background tasks write at a time.
   (Except for dates whose numbers are always taken for old ones.) *)
WrittenOnce ==
  [][mxEdits = 0 /\ numbers = "new" /\ ~looksOld /\ text.gender = gender
     => text' = text]_mxVars
=============================================================================
