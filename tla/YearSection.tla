----------------------------- MODULE YearSection -----------------------------
(***************************************************************************)
(* The year_energy section around a birthday: the text is written for the  *)
(* arcana of the year by the server's date (extended.calculate_year_energy,*)
(* date.today()), kept until the job of every hour drops it on the         *)
(* birthday by the date where the reader was born                          *)
(* (year_energy_scheduler.py).                                             *)
(*                                                                         *)
(* Time is UTC quarters of an hour from the start of the day before the    *)
(* birthday's calendar day; day 1 is the birthday.  For a birthday of      *)
(* 29 February in a common year there is no such day: the job takes        *)
(* 28 February (day 1), the calculation compares (month, day) and so waits *)
(* for 1 March (day 2).                                                    *)
(***************************************************************************)
EXTENDS Integers

CONSTANTS
  Offsets,      \* UTC offsets of birth places, quarters of an hour
  LastQuarter   \* bound: the time that is looked at

ASSUME YearAssumption == Offsets \subseteq -48..56 /\ LastQuarter \in Nat

VARIABLES
  quarter, offset, leapling,
  section,    \* the year the saved section is about: "old", "new"; "none"
  writing,    \* the years that requests in progress write about
  settled     \* ghost: a beat came on the birthday, with nothing old to come

yeVars == <<quarter, offset, leapling, section, writing, settled>>

YeInit ==
  /\ quarter = 0 /\ offset \in Offsets /\ leapling \in BOOLEAN
  /\ section = "old" /\ writing = {} /\ settled = FALSE

Day == 96
LocalDay == (quarter + offset) \div Day
ServerYear == IF quarter \div Day >= (IF leapling THEN 2 ELSE 1) THEN "new" ELSE "old"

NextQuarter ==
  /\ quarter < LastQuarter /\ quarter' = quarter + 1
  /\ UNCHANGED <<offset, leapling, section, writing, settled>>

(* The report is opened and its year section is missing: a text is written for
   the year of that moment. *)
OpenYear ==
  /\ section = "none"
  /\ writing' = writing \cup {ServerYear}
  /\ UNCHANGED <<quarter, offset, leapling, section, settled>>

(* The LLM answers (or does not), and the upsert overwrites what is there.  Others
   may be writing about that year too. *)
SaveYear(y) ==
  /\ y \in writing
  /\ writing' \in {writing, writing \ {y}}
  /\ section' \in {section, y}
  /\ UNCHANGED <<quarter, offset, leapling, settled>>

(* A beat of the job: a quarter past the hour, by the worker that gets the lock, by
   both if the first was quick, or by none. *)
Rollover_Midnight == (quarter + offset) \div 4 = 24
Rollover == LocalDay = 1
BirthdayJob ==
  /\ quarter % 4 = 1
  /\ section' = IF Rollover THEN "none" ELSE section
  /\ settled' = (settled \/ (LocalDay = 1 /\ ServerYear = "new" /\ "old" \notin writing))
  /\ UNCHANGED <<quarter, offset, leapling, writing>>

YeNext == NextQuarter \/ OpenYear \/ (\E y \in {"old", "new"} : SaveYear(y)) \/ BirthdayJob

YeSpec == YeInit /\ [][YeNext]_yeVars

(* "The next /reading call regenerates it for the new arcana": after a beat at an
   hour when it is the birthday both where the reader was born and for the
   server, and no request from before is left, the section is never that of the
   past year again.  (A beat that is missed leaves the stale row until the next,
   and the birthday of a leapling is such an hour only west of the server.) *)
YearMovesOn == settled => section # "old"
=============================================================================
