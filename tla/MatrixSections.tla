---------------------------- MODULE MatrixSections ----------------------------
(***************************************************************************)
(* The sections of the long Destiny Matrix report                          *)
(* (services/destiny_matrix/v3_interpreter.py and its routes): one row per *)
(* user, birth date, gender and section.  A request generates the missing  *)
(* ones with parallel LLM calls and upserts each as it arrives, all in the *)
(* request's transaction.  An upsert waits for another transaction that    *)
(* has written the same row; the database breaks a cycle of waits by       *)
(* failing one of them.                                                    *)
(***************************************************************************)
EXTENDS Integers, FiniteSets

CONSTANTS
  SecHandlers,   \* concurrent requests
  SecGenders,    \* genders the reader's profile has had
  Sections,      \* keys of SECTIONS
  FreeKeys,      \* FREE_KEYS_V3
  YearKey,       \* the section that is dropped on a birthday
  NoSection,
  MaxDrops, MaxSecFaults   \* bounds

ASSUME SectionsAssumption ==
  /\ FreeKeys \subseteq Sections /\ YearKey \in Sections
  /\ NoSection \notin Sections \cup SecHandlers
  /\ IsFiniteSet(Sections) /\ MaxDrops \in Nat /\ MaxSecFaults \in Nat

Keys3 == SecGenders \X Sections

VARIABLES
  rows3,      \* key -> whose text is committed
  sreq,       \* handler -> its request
  rivals,     \* ghost: key -> who was in progress when its text was committed
  given,      \* ghost: keys whose text was generated for an answer that was sent
  drops, secFaults

secVars == <<rows3, sreq, rivals, given, drops, secFaults>>

SecIdle == [at |-> "idle", gender |-> CHOOSE g \in SecGenders : TRUE,
            need |-> {}, results |-> {}, done |-> {}, want |-> NoSection]

SecInit ==
  /\ rows3 = [r \in Keys3 |-> NoSection]
  /\ sreq = [h \in SecHandlers |-> SecIdle]
  /\ rivals = [r \in Keys3 |-> {}] /\ given = {}
  /\ drops = 0 /\ secFaults = 0

Cached(g) == {s \in Sections : rows3[<<g, s>>] # NoSection}
Keyed(h, S) == {sreq[h].gender} \X S
InProgress == {h \in SecHandlers : sreq[h].at = "run"}

(* The end of h's request; it has replaced the rows of the keys K. *)
Leaves(h, K) ==
  /\ sreq' = [sreq EXCEPT ![h] = SecIdle]
  /\ rivals' = [r \in Keys3 |-> (IF r \in K THEN InProgress ELSE rivals[r]) \ {h}]

(* GET /reading or a PDF: all sections with full access, else the preview.  What is
   saved is not asked for again. *)
ToWrite_Forced(g, keys) == keys
ToWrite(g, keys) == keys \ Cached(g)
OpenReport(h, g, keys) ==
  /\ sreq[h].at = "idle"
  /\ ToWrite(g, keys) # {}
  /\ sreq' = [sreq EXCEPT ![h] = [SecIdle EXCEPT !.at = "run", !.gender = g, !.need = ToWrite(g, keys)]]
  /\ UNCHANGED <<rows3, rivals, given, drops, secFaults>>

(* A call answers with a text to save, or fails and is skipped. *)
SectionDone(h, s) ==
  /\ sreq[h].at = "run" /\ sreq[h].want = NoSection /\ s \in sreq[h].need
  /\ \/ sreq' = [sreq EXCEPT ![h].want = s, ![h].results = @ \cup {s}, ![h].need = @ \ {s}]
     \/ sreq' = [sreq EXCEPT ![h].need = @ \ {s}]
  /\ UNCHANGED <<rows3, rivals, given, drops, secFaults>>

(* The transaction whose uncommitted row this one would write. *)
Blocks(k, h) ==
  /\ k # h /\ sreq[h].want # NoSection
  /\ <<sreq[h].gender, sreq[h].want>> \in Keyed(k, sreq[k].done)

(* ON CONFLICT DO UPDATE, over a text of another request too. *)
Upsert(h) ==
  /\ sreq[h].want # NoSection
  /\ \A k \in SecHandlers : ~Blocks(k, h)
  /\ sreq' = [sreq EXCEPT ![h].done = @ \cup {sreq[h].want}, ![h].want = NoSection]
  /\ UNCHANGED <<rows3, rivals, given, drops, secFaults>>

Finished(h) == sreq[h].at = "run" /\ sreq[h].need = {} /\ sreq[h].want = NoSection

(* The commit, and the answer with the texts that came. *)
CommitSections(h) ==
  /\ Finished(h)
  /\ rows3' = [r \in Keys3 |-> IF r \in Keyed(h, sreq[h].done) THEN h ELSE rows3[r]]
  /\ given' = given \cup Keyed(h, sreq[h].results)
  /\ Leaves(h, Keyed(h, sreq[h].done))
  /\ UNCHANGED <<drops, secFaults>>

(* Two transactions wait for each other: one of them is failed, loses the
   sections it had written, and its request with them. *)
Deadlocked(h) == \E k \in SecHandlers : Blocks(k, h) /\ Blocks(h, k)
BreakDeadlock_Never(h) == FALSE /\ UNCHANGED secVars
BreakDeadlock_Skipped(h) ==
  /\ Deadlocked(h)
  /\ sreq' = [sreq EXCEPT ![h].done = {}, ![h].want = NoSection]
  /\ UNCHANGED <<rows3, rivals, given, drops, secFaults>>
BreakDeadlock(h) ==
  /\ Deadlocked(h)
  /\ Leaves(h, {})
  /\ UNCHANGED <<rows3, given, drops, secFaults>>

(* The client goes away, the worker restarts. *)
SecDies(h) ==
  /\ sreq[h].at = "run" /\ secFaults < MaxSecFaults
  /\ secFaults' = secFaults + 1
  /\ Leaves(h, {})
  /\ UNCHANGED <<rows3, given, drops>>

(* The birthday job deletes the year section for every gender. *)
DropYear ==
  /\ drops < MaxDrops
  /\ drops' = drops + 1
  /\ rows3' = [r \in Keys3 |-> IF r[2] = YearKey THEN NoSection ELSE rows3[r]]
  /\ given' = {r \in given : r[2] # YearKey}
  /\ UNCHANGED <<sreq, rivals, secFaults>>

SecStep(h) ==
  (\E s \in Sections : SectionDone(h, s)) \/ Upsert(h) \/ CommitSections(h) \/ BreakDeadlock(h)

SecNext ==
  \/ \E h \in SecHandlers :
       \/ \E g \in SecGenders, keys \in {Sections, FreeKeys} : OpenReport(h, g, keys)
       \/ SecStep(h) \/ SecDies(h)
  \/ DropYear

(* A waiting upsert is first in the queue for the row when it is released. *)
SecFairness == \A h \in SecHandlers : WF_secVars(SecStep(h)) /\ SF_secVars(Upsert(h))

SecSpec == SecInit /\ [][SecNext]_secVars /\ SecFairness

-----------------------------------------------------------------------------
(* Properties *)

SecRequest == [at: {"idle", "run"}, gender: SecGenders, need: SUBSET Sections,
               results: SUBSET Sections, done: SUBSET Sections, want: Sections \cup {NoSection}]

(* Every variable has its type. *)
SecTypeOK ==
  /\ rows3 \in [Keys3 -> SecHandlers \cup {NoSection}]
  /\ sreq \in [SecHandlers -> SecRequest]
  /\ rivals \in [Keys3 -> SUBSET SecHandlers] /\ given \subseteq Keys3
  /\ drops \in 0..MaxDrops /\ secFaults \in 0..MaxSecFaults

(* The reader who comes back finds the text: one that was generated for an answer is
   saved, whatever upserts failed on the way, and a saved one stays, but that the
   birthday job takes the year's and that a request replaces what was committed
   while it was itself in progress: two reports at once show two texts, and the
   later commit stays. *)
SectionsStay ==
  /\ [](\A r \in given : rows3[r] # NoSection)
  /\ [][\A r \in Keys3 : rows3[r] # NoSection /\ rows3'[r] # rows3[r] =>
          rows3'[r] \in rivals[r] \/ (r[2] = YearKey /\ rows3'[r] = NoSection)]_secVars

(* Every report request is answered: upserts that wait for one another do
   not wait for ever. *)
ReportsAnswered == \A h \in SecHandlers : sreq[h].at = "run" ~> sreq[h].at = "idle"
=============================================================================
