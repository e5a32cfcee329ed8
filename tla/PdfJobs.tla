------------------------------ MODULE PdfJobs ------------------------------
(***************************************************************************)
(* The natal report of one user: the API handlers that ask for it, serve   *)
(* it or edit the birth data under it (api/routes/natal.py, users.py), the *)
(* arq task that generates it (services/tasks/natal_pdf_task.py), and what *)
(* they share: the natal_charts row, the cached reading, the dedup lock    *)
(* and the status of each job in Redis.                                    *)
(*                                                                         *)
(* A version stands for what a report is generated from: each change of    *)
(* the birth data commits the next one.  The input hash of a reading names *)
(* the version it was written for, except that the inline path hashes the  *)
(* aspects without their field `applying` and so names no chart that has   *)
(* aspects.  A session keeps the row as it loaded it (expire_on_commit is  *)
(* off), however long the LLM takes.  The wheel is left to Wheels.         *)
(***************************************************************************)
EXTENDS Integers, FiniteSets

CONSTANTS
  Handlers,     \* concurrent API requests of the user
  Jobs,         \* app-level job ids (token_urlsafe)
  NoJob,
  JobTimeout,   \* ARQ_JOB_TIMEOUT, in ticks
  LockTTL,      \* _PDF_JOB_LOCK_TTL
  Aspected,     \* the versions whose chart has aspects
  MaxEdits, MaxFaults   \* bounds on birth-data edits and on process deaths

None     == -1
Reduced  == -2
Versions == 0..MaxEdits

(* A saved reading: the version it was written for and its input hash. *)
Readings  == [for: Versions, hash: Versions \cup {Reduced}]
NoReading == [for |-> None, hash |-> None]

ASSUME PdfJobsAssumption ==
  /\ NoJob \notin Jobs
  /\ JobTimeout \in Nat \ {0} /\ LockTTL \in Nat /\ JobTimeout < LockTTL
  /\ MaxEdits \in Nat /\ MaxFaults \in Nat /\ Aspected \subseteq Versions

VARIABLES
  chart,    \* committed version of the birth data and chart
  stored,   \* the reading in the row, or NoReading
  cached,   \* the same of the reading in Redis
  lock,     \* natal:pdf:job:{uid}: [job, ttl]
  status,   \* job -> what its status blob says
  task,     \* job -> the arq task enqueued under its id
  req,      \* handler -> its request
  asked,    \* job ids handed to a client that polls them
  served,   \* the last PDF sent: chart drawn and reading printed
  faults

store == <<chart, stored, cached>>
queue == <<lock, status, task>>
vars  == <<chart, stored, cached, lock, status, task, req, asked, served, faults>>

Unlocked == [job |-> NoJob, ttl |-> 0]
NoTask   == [at |-> "none", seen |-> None, snap |-> NoReading, age |-> 0]
Idle     == [kind |-> "none", at |-> "idle", seen |-> None, snap |-> NoReading, job |-> NoJob]

InArq(j)   == task[j].at # "none"
Running(j) == task[j].at \in {"load", "read", "generate", "cache", "publish"}
Unused     == {j \in Jobs : status[j] = "none" /\ task[j].at = "none" /\ lock.job # j
                            /\ j \notin asked /\ \A h \in Handlers : req[h].job # j}

Init ==
  /\ chart = 0
  /\ stored = NoReading
  /\ cached = NoReading
  /\ lock = Unlocked
  /\ status = [j \in Jobs |-> "none"]
  /\ task = [j \in Jobs |-> NoTask]
  /\ req = [h \in Handlers |-> Idle]
  /\ asked = {}
  /\ served = <<0, 0>>
  /\ faults = 0

-----------------------------------------------------------------------------
(* The reading of a session: Redis first, then the row it loaded *)

(* _reading_is_fresh: the reading in a payload counts only if its input hash
   is that of the chart at hand. *)
Fresh_NoHash(reading, seen) == reading # NoReading
Fresh(reading, seen) == reading.hash = seen

(* What a generation saves: the task passes the aspects as they are stored,
   the inline path what _build_natal_pdf_bytes made of them. *)
FromTask(v)   == [for |-> v, hash |-> v]
FromInline(v) == [for |-> v, hash |-> IF v \in Aspected THEN Reduced ELSE v]

Ready(r) == Fresh(cached, r.seen) \/ Fresh(r.snap, r.seen)

(* An edit that has flushed holds the row until it commits. *)
RowFree == \A h \in Handlers : req[h].at \notin {"uncache", "save"}

(* _persist_natal_reading writes and commits the reading of the session. *)
Persist(reading) == RowFree /\ stored' = reading

(* _get_ready_pdf_reading copies the reading Redis has to the row unless the
   row has it; two generations for one chart differ in their words. *)
Migrate(r) ==
  \/ Fresh(cached, r.seen) /\ Persist(cached)
  \/ (Fresh(cached, r.seen) => cached = r.snap) /\ UNCHANGED stored

(* What _build_natal_pdf_bytes prints: the structured report of the row, else
   the reading found in Redis. *)
Text(r) == (IF Fresh(r.snap, r.seen) THEN r.snap ELSE cached).for

At(h, kind, at) == req[h].kind = kind /\ req[h].at = at
Goto(h, at) == req' = [req EXCEPT ![h].at = at]
Done(h) == req' = [req EXCEPT ![h] = Idle]

(* Authentication, access check and the SELECT of user and chart. *)
Load(h, kind) ==
  /\ req[h] = Idle
  /\ req' = [req EXCEPT ![h] = [kind |-> kind, at |-> "read", seen |-> chart,
                                snap |-> stored, job |-> NoJob]]
  /\ UNCHANGED <<store, queue, asked, served, faults>>

-----------------------------------------------------------------------------
(* POST /natal/pdf/generate *)

(* The fast path answers ready; it wants the structured report of the row as
   loaded, so a reading that is only cached goes on to the queue. *)
StartCheck(h) ==
  /\ At(h, "start", "read")
  /\ Migrate(req[h])
  /\ IF Fresh(req[h].snap, req[h].seen) THEN Done(h) ELSE Goto(h, "lock")
  /\ UNCHANGED <<chart, cached, queue, asked, served, faults>>

(* SET NX EX with a fresh job id. *)
AcquireLock(h, j) ==
  /\ At(h, "start", "lock")
  /\ j \in Unused
  /\ lock = Unlocked
  /\ lock' = [job |-> j, ttl |-> LockTTL]
  /\ req' = [req EXCEPT ![h].job = j, ![h].at = "queued"]
  /\ UNCHANGED <<store, status, task, asked, served, faults>>

LockTaken(h, j) ==
  /\ At(h, "start", "lock")
  /\ j \in Unused
  /\ lock # Unlocked
  /\ req' = [req EXCEPT ![h].job = j, ![h].at = "existing"]
  /\ UNCHANGED <<store, queue, asked, served, faults>>

(* The holder may be gone by the time it is read: "existing or job_id". *)
Existing(h) ==
  /\ At(h, "start", "existing")
  /\ asked' = asked \cup {IF lock.job # NoJob THEN lock.job ELSE req[h].job}
  /\ Done(h)
  /\ UNCHANGED <<store, queue, served, faults>>

SetQueued(h) ==
  /\ At(h, "start", "queued")
  /\ status' = [status EXCEPT ![req[h].job] = "queued"]
  /\ Goto(h, "enqueue")
  /\ UNCHANGED <<store, lock, task, asked, served, faults>>

(* arq drops a task whose _job_id it still knows, and says so only in a
   return value nobody looks at. *)
ArqAccepts_NoJobId == TRUE
ArqAccepts == \A j \in Jobs : ~InArq(j)

Enqueue_QueuedAfter(h) ==
  /\ At(h, "start", "enqueue")
  /\ task' = IF ArqAccepts THEN [task EXCEPT ![req[h].job].at = "queued"] ELSE task
  /\ asked' = asked \cup {req[h].job}
  /\ IF ArqAccepts THEN Goto(h, "queued") ELSE Done(h)
  /\ UNCHANGED <<store, lock, status, served, faults>>
Enqueue(h) ==
  /\ At(h, "start", "enqueue")
  /\ task' = IF ArqAccepts THEN [task EXCEPT ![req[h].job].at = "queued"] ELSE task
  /\ asked' = asked \cup {req[h].job}
  /\ Done(h)
  /\ UNCHANGED <<store, lock, status, served, faults>>

-----------------------------------------------------------------------------
(* GET /natal/pdf, /pdf-send and /pdf-download: "page" generates inline what
   is missing, "ready" (a token minted for a finished report) answers 409 *)

Serve(h, text) ==
  /\ served' = <<req[h].seen, text>>
  /\ Done(h)

PageRead(h) ==
  /\ req[h].kind \in {"page", "ready"}
  /\ req[h].at = "read"
  /\ Migrate(req[h])
  /\ \/ /\ Ready(req[h])
        /\ req[h].kind = "ready" => Fresh(req[h].snap, req[h].seen)
        /\ Serve(h, Text(req[h]))
     \/ /\ req[h].kind = "page" /\ ~Ready(req[h])
        /\ Goto(h, "again")
        /\ UNCHANGED served
     \/ /\ req[h].kind = "ready" /\ ~Fresh(req[h].snap, req[h].seen)
        /\ Done(h)
        /\ UNCHANGED served
  /\ UNCHANGED <<chart, cached, queue, asked, faults>>

(* _get_or_generate_pdf_reading looks once more before it generates. *)
PageAgain(h) ==
  /\ At(h, "page", "again")
  /\ Migrate(req[h])
  /\ IF Ready(req[h]) THEN Serve(h, Text(req[h])) ELSE Goto(h, "generate") /\ UNCHANGED served
  /\ UNCHANGED <<chart, cached, queue, asked, faults>>

PageSave(h) ==
  /\ At(h, "page", "generate")
  /\ Persist(FromInline(req[h].seen))
  /\ Goto(h, "cache")
  /\ UNCHANGED <<chart, cached, queue, asked, served, faults>>

PageCache(h) ==
  /\ At(h, "page", "cache")
  /\ cached' = FromInline(req[h].seen)
  /\ Serve(h, req[h].seen)
  /\ UNCHANGED <<chart, stored, queue, asked, faults>>

(* No report could be written: the PDF goes out without one. *)
PageFails(h) ==
  /\ At(h, "page", "generate")
  /\ Done(h)
  /\ UNCHANGED <<store, queue, asked, served, faults>>

-----------------------------------------------------------------------------
(* POST /users/me/birth: flush, drop the cached reading, commit on return *)

EditFlush(h) ==
  /\ At(h, "edit", "read")
  /\ RowFree
  /\ Goto(h, "uncache")
  /\ UNCHANGED <<store, queue, asked, served, faults>>

EditUncache(h) ==
  /\ At(h, "edit", "uncache")
  /\ cached' = NoReading
  /\ Goto(h, "save")
  /\ UNCHANGED <<chart, stored, queue, asked, served, faults>>

(* The reading columns are cleared in the session's copy of the row: where
   that copy had none, the UPDATE leaves them alone.  An edit may also leave
   the chart as it was. *)
EditCommit(h) ==
  /\ At(h, "edit", "save")
  /\ chart' \in {chart, chart + 1} \cap Versions
  /\ stored' = IF req[h].snap = NoReading THEN stored ELSE NoReading
  /\ Done(h)
  /\ UNCHANGED <<cached, queue, asked, served, faults>>

-----------------------------------------------------------------------------
(* generate_natal_pdf_task in the arq worker *)

TaskAt(j, at) == task[j].at = at
TaskGoto(j, at) == task' = [task EXCEPT ![j].at = at]

TaskStart(j) ==
  /\ TaskAt(j, "queued")
  /\ status' = [status EXCEPT ![j] = "processing"]
  /\ TaskGoto(j, "load")
  /\ UNCHANGED <<store, lock, req, asked, served, faults>>

TaskLoad(j) ==
  /\ TaskAt(j, "load")
  /\ task' = [task EXCEPT ![j].at = "read", ![j].seen = chart, ![j].snap = stored]
  /\ UNCHANGED <<store, lock, status, req, asked, served, faults>>

TaskRead(j) ==
  /\ TaskAt(j, "read")
  /\ Migrate(task[j])
  /\ TaskGoto(j, IF Ready(task[j]) THEN "publish" ELSE "generate")
  /\ UNCHANGED <<chart, cached, lock, status, req, asked, served, faults>>

TaskSave(j) ==
  /\ TaskAt(j, "generate")
  /\ Persist(FromTask(task[j].seen))
  /\ TaskGoto(j, "cache")
  /\ UNCHANGED <<chart, cached, lock, status, req, asked, served, faults>>

TaskCache(j) ==
  /\ TaskAt(j, "cache")
  /\ cached' = FromTask(task[j].seen)
  /\ TaskGoto(j, "publish")
  /\ UNCHANGED <<chart, stored, lock, status, req, asked, served, faults>>

(* The download token, then the status. *)
TaskPublish(j) ==
  /\ TaskAt(j, "publish")
  /\ status' = [status EXCEPT ![j] = "ready"]
  /\ TaskGoto(j, "release")
  /\ UNCHANGED <<store, lock, req, asked, served, faults>>

(* No access, no chart, no acceptable text, or an exception. *)
TaskFail_Silent(j) ==
  /\ task[j].at \in {"load", "read", "generate", "cache", "publish"}
  /\ TaskGoto(j, "release")
  /\ UNCHANGED <<store, lock, status, req, asked, served, faults>>
TaskFail(j) ==
  /\ task[j].at \in {"load", "read", "generate", "cache", "publish"}
  /\ status' = [status EXCEPT ![j] = "failed"]
  /\ TaskGoto(j, "release")
  /\ UNCHANGED <<store, lock, req, asked, served, faults>>

(* arq cancels the coroutine: CancelledError is no Exception, so only the
   finally clause runs. *)
TaskTimeout(j) ==
  /\ Running(j)
  /\ task[j].age = JobTimeout
  /\ TaskGoto(j, "release")
  /\ UNCHANGED <<store, lock, status, req, asked, served, faults>>

(* finally: delete the user's lock, whoever holds it. *)
TaskRelease(j) ==
  /\ TaskAt(j, "release")
  /\ lock' = Unlocked
  /\ TaskGoto(j, "finish")
  /\ UNCHANGED <<store, status, req, asked, served, faults>>

(* arq forgets the task: finished, or already tried once (max_tries = 1). *)
ArqFinish(j) ==
  /\ task[j].at \in {"finish", "orphan"}
  /\ task' = [task EXCEPT ![j] = NoTask]
  /\ UNCHANGED <<store, lock, status, req, asked, served, faults>>

-----------------------------------------------------------------------------
(* Time and failures *)

Expire_Never(l) == l
Expire(l) == IF l.ttl <= 1 THEN Unlocked ELSE [l EXCEPT !.ttl = @ - 1]

(* A request does not last a tick between its lock and its task, and arq's
   timeout is prompt. *)
Tick ==
  /\ lock # Unlocked \/ \E j \in Jobs : Running(j)
  /\ \A h \in Handlers : req[h].at \notin {"queued", "enqueue"}
  /\ \A j \in Jobs : Running(j) => task[j].age < JobTimeout
  /\ lock' = Expire(lock)
  /\ task' = [j \in Jobs |-> IF Running(j) THEN [task[j] EXCEPT !.age = @ + 1] ELSE task[j]]
  /\ UNCHANGED <<store, status, req, asked, served, faults>>

CacheExpires ==
  /\ cached # NoReading
  /\ cached' = NoReading
  /\ UNCHANGED <<chart, stored, queue, req, asked, served, faults>>

HandlerDies(h) ==
  /\ req[h] # Idle
  /\ faults < MaxFaults
  /\ faults' = faults + 1
  /\ Done(h)
  /\ UNCHANGED <<store, queue, asked, served>>

WorkerDies(j) ==
  /\ Running(j) \/ task[j].at \in {"queued", "release", "finish"}
  /\ faults < MaxFaults
  /\ faults' = faults + 1
  /\ TaskGoto(j, "orphan")
  /\ UNCHANGED <<store, lock, status, req, asked, served>>

-----------------------------------------------------------------------------
(* The system *)

Proceed(h) ==
  \/ StartCheck(h) \/ Existing(h) \/ SetQueued(h) \/ Enqueue(h)
  \/ \E j \in Jobs : AcquireLock(h, j) \/ LockTaken(h, j)
  \/ PageRead(h) \/ PageAgain(h) \/ PageSave(h) \/ PageCache(h) \/ PageFails(h)
  \/ EditFlush(h) \/ EditUncache(h) \/ EditCommit(h)

Work(j) ==
  \/ TaskStart(j) \/ TaskLoad(j) \/ TaskRead(j)
  \/ TaskSave(j) \/ TaskCache(j) \/ TaskPublish(j) \/ TaskFail(j)
  \/ TaskTimeout(j) \/ TaskRelease(j) \/ ArqFinish(j)

Next ==
  \/ \E h \in Handlers, kind \in {"start", "page", "ready", "edit"} : Load(h, kind)
  \/ \E h \in Handlers : Proceed(h) \/ HandlerDies(h)
  \/ \E j \in Jobs : Work(j) \/ WorkerDies(j)
  \/ Tick \/ CacheExpires

Spec == Init /\ [][Next]_vars

(* The event loops keep running, time passes, Redis expires keys. *)
Fairness ==
  /\ \A h \in Handlers : WF_vars(Proceed(h))
  /\ \A j \in Jobs : WF_vars(Work(j))
  /\ WF_vars(Tick)

FairSpec == Spec /\ Fairness

-----------------------------------------------------------------------------
(* Properties *)

(* Every variable has its type. *)
TypeOK ==
  /\ chart \in Versions
  /\ {stored, cached} \subseteq Readings \cup {NoReading}
  /\ lock \in [job: Jobs, ttl: 1..LockTTL] \cup {Unlocked}
  /\ status \in [Jobs -> {"none", "queued", "processing", "ready", "failed"}]
  /\ task \in [Jobs -> [at: {"none", "queued", "load", "read", "generate",
                             "cache", "publish", "release", "finish", "orphan"},
                        seen: Versions \cup {None}, snap: Readings \cup {NoReading},
                        age: 0..JobTimeout]]
  /\ req \in [Handlers -> [kind: {"none", "start", "page", "ready", "edit"},
                           at: {"idle", "read", "lock", "existing", "queued", "enqueue",
                                "again", "generate", "cache", "uncache", "save"},
                           seen: Versions \cup {None}, snap: Readings \cup {NoReading},
                           job: Jobs \cup {NoJob}]]
  /\ asked \subseteq Jobs
  /\ served \in Versions \X Versions
  /\ faults \in 0..MaxFaults

(* "_job_id dedups on arq's side too": although the lock may expire while a
   task waits, and a task deletes whatever lock it finds, arq never holds two
   tasks of one user. *)
OneTask == \A i, j \in Jobs : InArq(i) /\ InArq(j) => i = j

(* "queued -> processing -> (ready | failed)": the status a client polls
   never goes back, whichever of the handler and the worker is faster. *)
StepOf(s) == CASE s = "none" -> 0 [] s = "queued" -> 1 [] s = "processing" -> 2
             [] s \in {"ready", "failed"} -> 3
StatusForward ==
  [][\A j \in Jobs : status'[j] # status[j] => StepOf(status'[j]) = StepOf(status[j]) + 1]_vars

(* A PDF never prints a reading of another chart than the one whose tables it
   prints: a reading cached or saved across an edit of the birth data is
   recognised by its input hash, and one saved inline, which carries no chart's
   hash, is not taken for any.  (Its wheel is another matter: see Wheels.) *)
ServedIsCurrent == served[1] = served[2]

(* Generation is never locked out for good: a dead worker, a dead handler or
   a dropped task leaves a lock that ends. *)
LockEnds == \A j \in Jobs : lock.job = j ~> lock.job # j

(* A task that has begun publishes an outcome, unless arq cancels it or its
   process dies. *)
ProcessingEnds ==
  \A j \in Jobs :
    status[j] = "processing" /\ InArq(j) ~>
      \/ status[j] \in {"ready", "failed"}
      \/ task[j].age = JobTimeout \/ TaskAt(j, "orphan")

(* "Status machine: queued -> processing -> (ready | failed)": every job a
   client was told about reaches an outcome. *)
JobsEnd == \A j \in Jobs : j \in asked ~> status[j] \in {"ready", "failed"}
=============================================================================
