--------------------------- MODULE PdfJobs_proofs ---------------------------
(***************************************************************************)
(* Proofs about PdfJobs for every number of requests, jobs, edits of the   *)
(* birth data and process deaths.                                          *)
(*                                                                         *)
(* That a status never goes back rests on who may write it: a handler      *)
(* writes under a job id no one else holds, before the task exists; from   *)
(* then on only the task writes.  PdfInv says so.                          *)
(***************************************************************************)
EXTENDS PdfJobs, TLAPS

Places == {"idle", "read", "lock", "existing", "queued", "enqueue",
           "again", "generate", "cache", "uncache", "save"}
Stages == {"none", "queued", "load", "read", "generate",
           "cache", "publish", "release", "finish", "orphan"}
Requests == [kind: {"none", "start", "page", "ready", "edit"}, at: Places,
             seen: Versions \cup {None}, snap: Readings \cup {NoReading},
             job: Jobs \cup {NoJob}]
Tasks == [at: Stages, seen: Versions \cup {None}, snap: Readings \cup {NoReading},
          age: 0..JobTimeout]
Statuses == {"none", "queued", "processing", "ready", "failed"}

(* A request that has begun knows the chart it loaded, one that took an id
   has one; the id it is about to announce has no task. *)
RequestsInv ==
  \A h \in Handlers :
    /\ req[h].at # "idle" => req[h].seen \in Versions
    /\ req[h].at \in {"existing", "queued", "enqueue"} => req[h].job \in Jobs
    /\ req[h].at = "queued" => status[req[h].job] = "none" /\ task[req[h].job].at = "none"
    /\ req[h].at = "enqueue" => status[req[h].job] = "queued" /\ task[req[h].job].at = "none"

OwnIds ==
  \A g, h \in Handlers : g # h /\ req[g].job = req[h].job => req[g].job = NoJob

TasksInv ==
  \A j \in Jobs :
    /\ task[j].at = "queued" => status[j] = "queued"
    /\ Running(j) => status[j] = "processing"
    /\ task[j].at \in {"read", "generate", "cache", "publish"} => task[j].seen \in Versions

PdfInv == TypeOK /\ RequestsInv /\ OwnIds /\ TasksInv /\ OneTask

LEMMA TypeParts ==
  TypeOK <=>
    /\ chart \in Versions
    /\ stored \in Readings \cup {NoReading} /\ cached \in Readings \cup {NoReading}
    /\ lock \in [job: Jobs, ttl: 1..LockTTL] \cup {Unlocked}
    /\ status \in [Jobs -> Statuses]
    /\ task \in [Jobs -> Tasks]
    /\ req \in [Handlers -> Requests]
    /\ asked \subseteq Jobs
    /\ served \in Versions \X Versions
    /\ faults \in 0..MaxFaults
BY DEF TypeOK, Places, Stages, Requests, Tasks, Statuses

LEMMA TypeNext ==
  ASSUME chart' \in Versions,
         stored' \in Readings \cup {NoReading}, cached' \in Readings \cup {NoReading},
         lock' \in [job: Jobs, ttl: 1..LockTTL] \cup {Unlocked},
         status' \in [Jobs -> Statuses],
         task' \in [Jobs -> Tasks],
         req' \in [Handlers -> Requests],
         asked' \subseteq Jobs,
         served' \in Versions \X Versions,
         faults' \in 0..MaxFaults
  PROVE  TypeOK'
BY DEF TypeOK, Places, Stages, Requests, Tasks, Statuses

THEOREM PdfInit == Init => PdfInv
<1> SUFFICES ASSUME Init PROVE PdfInv
  OBVIOUS
<1>1. 0 \in Versions /\ 0 \in 0..JobTimeout
  BY PdfJobsAssumption DEF Versions
<1>2. Idle \in Requests /\ NoTask \in Tasks
  BY <1>1 DEF Idle, NoTask, Requests, Tasks, Places, Stages
<1>3. TypeOK
  BY <1>1, <1>2, TypeParts, PdfJobsAssumption DEF Init, Statuses
<1> QED
  BY <1>3 DEF Init, PdfInv, RequestsInv, OwnIds, TasksInv, OneTask, Idle, NoTask, InArq, Running

-----------------------------------------------------------------------------
(* What moves when a request or a task takes a step *)

LEMMA GotoMoves ==
  ASSUME TypeOK, NEW h \in Handlers, NEW at \in Places, Goto(h, at)
  PROVE  /\ req' \in [Handlers -> Requests]
         /\ req'[h].at = at /\ req'[h].seen = req[h].seen /\ req'[h].job = req[h].job
         /\ \A g \in Handlers \ {h} : req'[g] = req[g]
<1>1. req[h] \in Requests /\ req \in [Handlers -> Requests]
  BY TypeParts
<1>2. [req[h] EXCEPT !.at = at] \in Requests
  BY <1>1 DEF Requests
<1>3. req' = [req EXCEPT ![h] = [req[h] EXCEPT !.at = at]]
  BY DEF Goto
<1> QED BY <1>1, <1>2, <1>3 DEF Requests

LEMMA DoneMoves ==
  ASSUME TypeOK, NEW h \in Handlers, Done(h)
  PROVE  /\ req' \in [Handlers -> Requests]
         /\ req'[h].at = "idle" /\ req'[h].job = NoJob
         /\ \A g \in Handlers \ {h} : req'[g] = req[g]
<1>1. Idle \in Requests /\ req \in [Handlers -> Requests]
  BY TypeParts DEF Idle, Requests, Places
<1> QED BY <1>1 DEF Done, Idle

LEMMA TaskMoves ==
  ASSUME TypeOK, NEW j \in Jobs, NEW at \in Stages, TaskGoto(j, at)
  PROVE  /\ task' \in [Jobs -> Tasks]
         /\ task'[j].at = at /\ task'[j].seen = task[j].seen
         /\ \A i \in Jobs \ {j} : task'[i] = task[i]
<1>1. task[j] \in Tasks /\ task \in [Jobs -> Tasks]
  BY TypeParts
<1>2. [task[j] EXCEPT !.at = at] \in Tasks
  BY <1>1 DEF Tasks
<1>3. task' = [task EXCEPT ![j] = [task[j] EXCEPT !.at = at]]
  BY DEF TaskGoto
<1> QED BY <1>1, <1>2, <1>3 DEF Tasks

LEMMA MigrateType ==
  ASSUME TypeOK, NEW r, Migrate(r)
  PROVE  stored' \in Readings \cup {NoReading}
BY TypeParts DEF Migrate, Persist

(* What a generation saves is a reading of the chart its session loaded. *)
LEMMA WrittenType ==
  ASSUME NEW v \in Versions
  PROVE  {FromTask(v), FromInline(v)} \subseteq Readings
BY DEF FromTask, FromInline, Readings

(* A request steps: statuses and tasks stay. *)
LEMMA RequestSteps ==
  ASSUME PdfInv, NEW h \in Handlers, UNCHANGED <<status, task>>,
         \A g \in Handlers \ {h} : req'[g] = req[g],
         req'[h].at # "idle" => req'[h].seen \in Versions,
         req'[h].at \in {"existing", "queued"} => req'[h].job \in Jobs,
         req'[h].at = "queued" =>
           status[req'[h].job] = "none" /\ task[req'[h].job].at = "none",
         req'[h].at # "enqueue",
         \/ req'[h].job \in {req[h].job, NoJob}
         \/ \A g \in Handlers : req[g].job # req'[h].job
  PROVE  RequestsInv' /\ OwnIds' /\ TasksInv' /\ OneTask'
<1>1. RequestsInv'
  BY DEF PdfInv, RequestsInv
<1>2. OwnIds'
  BY DEF PdfInv, OwnIds
<1>3. TasksInv' /\ OneTask'
  BY DEF PdfInv, TasksInv, OneTask, InArq, Running
<1> QED BY <1>1, <1>2, <1>3

(* A task steps: it was in arq's hands, and requests stay. *)
LEMMA TaskSteps ==
  ASSUME PdfInv, NEW j \in Jobs, InArq(j), req' = req,
         \A i \in Jobs \ {j} : task'[i] = task[i] /\ status'[i] = status[i],
         task'[j].at # "queued",
         Running(j)' => status'[j] = "processing",
         task'[j].at \in {"read", "generate", "cache", "publish"} => task'[j].seen \in Versions
  PROVE  RequestsInv' /\ OwnIds' /\ TasksInv' /\ OneTask'
<1>1. RequestsInv'
  <2>1. \A h \in Handlers : req[h].at \in {"queued", "enqueue"} => req[h].job \in Jobs \ {j}
    BY DEF PdfInv, RequestsInv, InArq
  <2> QED BY <2>1 DEF PdfInv, RequestsInv
<1>2. OwnIds'
  BY DEF PdfInv, OwnIds
<1>3. TasksInv'
  BY DEF PdfInv, TasksInv, Running
<1>4. OneTask'
  BY DEF PdfInv, OneTask, InArq
<1> QED BY <1>1, <1>2, <1>3, <1>4

-----------------------------------------------------------------------------
(* Every action keeps PdfInv *)

LEMMA HandlerStep ==
  ASSUME PdfInv, NEW h \in Handlers,
         \/ \E kind \in {"start", "page", "ready", "edit"} : Load(h, kind)
         \/ Proceed(h)
         \/ HandlerDies(h)
  PROVE  PdfInv'
<1> USE PdfJobsAssumption
<1>t. /\ TypeOK
      /\ chart \in Versions /\ stored \in Readings \cup {NoReading} /\ cached \in Readings \cup {NoReading}
      /\ lock \in [job: Jobs, ttl: 1..LockTTL] \cup {Unlocked}
      /\ status \in [Jobs -> Statuses] /\ task \in [Jobs -> Tasks] /\ req \in [Handlers -> Requests]
      /\ asked \subseteq Jobs /\ served \in Versions \X Versions /\ faults \in 0..MaxFaults
  BY TypeParts DEF PdfInv
<1>s. req[h].at # "idle" => req[h].seen \in Versions
  BY DEF PdfInv, RequestsInv
<1>i. PdfInv' <=> TypeOK' /\ (RequestsInv' /\ OwnIds' /\ TasksInv' /\ OneTask')
  BY DEF PdfInv
<1>1. ASSUME NEW kind \in {"start", "page", "ready", "edit"}, Load(h, kind)
      PROVE  PdfInv'
  <2> DEFINE q == [kind |-> kind, at |-> "read", seen |-> chart, snap |-> stored, job |-> NoJob]
  <2>1. req' = [req EXCEPT ![h] = q] /\ UNCHANGED <<store, queue, asked, served, faults>>
    BY <1>1 DEF Load
  <2>2. q \in Requests /\ q.at = "read" /\ q.seen = chart /\ q.job = NoJob
    BY <1>t DEF Requests, Places
  <2> HIDE DEF q
  <2>3. TypeOK'
    BY <2>1, <2>2, <1>t, TypeNext DEF store, queue
  <2> QED BY <2>1, <2>2, <2>3, <1>i, <1>t, RequestSteps DEF store, queue
<1>g. ASSUME NEW at \in Places \ {"idle", "existing", "queued", "enqueue"}, Goto(h, at),
             req[h].at # "idle", UNCHANGED <<lock, status, task, asked, faults>>,
             chart' \in Versions, stored' \in Readings \cup {NoReading},
             cached' \in Readings \cup {NoReading}, served' \in Versions \X Versions
      PROVE  PdfInv'
  <2>1. /\ req' \in [Handlers -> Requests]
        /\ req'[h].at = at /\ req'[h].seen = req[h].seen /\ req'[h].job = req[h].job
        /\ \A g \in Handlers \ {h} : req'[g] = req[g]
    BY <1>g, <1>t, GotoMoves
  <2>2. TypeOK'
    BY <2>1, <1>g, <1>t, TypeNext
  <2>3. RequestsInv' /\ OwnIds' /\ TasksInv' /\ OneTask'
    BY <2>1, <1>g, <1>s, RequestSteps
  <2> QED BY <2>2, <2>3, <1>i
<1>d. ASSUME Done(h), UNCHANGED <<lock, status, task>>,
             chart' \in Versions, stored' \in Readings \cup {NoReading},
             cached' \in Readings \cup {NoReading}, served' \in Versions \X Versions,
             asked' \subseteq Jobs, faults' \in 0..MaxFaults
      PROVE  PdfInv'
  <2>1. /\ req' \in [Handlers -> Requests]
        /\ req'[h].at = "idle" /\ req'[h].job = NoJob
        /\ \A g \in Handlers \ {h} : req'[g] = req[g]
    BY <1>d, <1>t, DoneMoves
  <2>2. TypeOK'
    BY <2>1, <1>d, <1>t, TypeNext
  <2>3. RequestsInv' /\ OwnIds' /\ TasksInv' /\ OneTask'
    BY <2>1, <1>d, RequestSteps
  <2> QED BY <2>2, <2>3, <1>i
<1>p. ASSUME Ready(req[h]), Serve(h, Text(req[h])), req[h].at # "idle"
      PROVE  served' \in Versions \X Versions /\ Done(h)
  <2>1. Text(req[h]) \in Versions
    <3>1. req[h].snap \in Readings \cup {NoReading} /\ req[h].seen \in Versions
      BY <1>p, <1>s, <1>t DEF Requests
    <3>2. PICK x \in {req[h].snap, cached} : x.hash = req[h].seen /\ Text(req[h]) = x.for
      BY <1>p DEF Ready, Text, Fresh
    <3>3. x.hash # None
      BY <3>1, <3>2 DEF Versions, None
    <3>4. x # NoReading
      BY <3>3 DEF NoReading
    <3>5. x \in Readings
      BY <3>1, <3>2, <3>4, <1>t
    <3> QED BY <3>2, <3>5 DEF Readings
  <2> QED BY <2>1, <1>p, <1>s DEF Serve
<1>m. ASSUME Migrate(req[h]) PROVE stored' \in Readings \cup {NoReading}
  BY <1>m, <1>t, MigrateType
<1>2. CASE StartCheck(h)
  BY <1>2, <1>g, <1>d, <1>m, <1>t DEF StartCheck, At, Places, queue
<1>3. ASSUME NEW j \in Jobs, AcquireLock(h, j) \/ LockTaken(h, j)
      PROVE  PdfInv'
  <2> PICK at \in {"queued", "existing"} : req' = [req EXCEPT ![h].job = j, ![h].at = at]
    BY <1>3 DEF AcquireLock, LockTaken
  <2>1. /\ UNCHANGED <<store, status, task, asked, served, faults>>
        /\ lock' \in {lock, [job |-> j, ttl |-> LockTTL]}
        /\ j \in Unused /\ req[h].at = "lock"
    BY <1>3 DEF AcquireLock, LockTaken, At, queue
  <2>2. /\ status[j] = "none" /\ task[j].at = "none"
        /\ \A g \in Handlers : req[g].job # j
    BY <2>1 DEF Unused
  <2>3. [req[h] EXCEPT !.job = j, !.at = at] \in Requests
    <3>1. req[h] \in Requests /\ at \in Places
      BY <1>t DEF Places
    <3> HIDE DEF Places
    <3> QED BY <3>1 DEF Requests
  <2>4. req' = [req EXCEPT ![h] = [req[h] EXCEPT !.job = j, !.at = at]]
    OBVIOUS
  <2>5. /\ req' \in [Handlers -> Requests]
        /\ req'[h].at = at /\ req'[h].seen = req[h].seen /\ req'[h].job = j
        /\ \A g \in Handlers \ {h} : req'[g] = req[g]
    BY <2>3, <2>4, <1>t DEF Requests
  <2>6. TypeOK'
    BY <2>1, <2>5, <1>t, TypeNext DEF store
  <2>7. RequestsInv' /\ OwnIds' /\ TasksInv' /\ OneTask'
    BY <2>1, <2>2, <2>5, <1>s, RequestSteps
  <2> QED BY <2>6, <2>7, <1>i
<1>4. CASE Existing(h)
  <2>1. req[h].job \in Jobs
    BY <1>4 DEF Existing, At, PdfInv, RequestsInv
  <2>2. lock.job # NoJob => lock.job \in Jobs
    BY <1>t DEF Unlocked
  <2>3. asked' \subseteq Jobs
    BY <1>4, <2>1, <2>2, <1>t DEF Existing
  <2> QED BY <1>4, <2>3, <1>d, <1>t DEF Existing, store, queue
<1>5. CASE SetQueued(h)
  <2> DEFINE j == req[h].job
  <2>1. /\ j \in Jobs /\ status[j] = "none" /\ task[j].at = "none" /\ req[h].at = "queued"
    BY <1>5 DEF SetQueued, At, PdfInv, RequestsInv
  <2>2. /\ status' = [status EXCEPT ![j] = "queued"] /\ Goto(h, "enqueue")
        /\ UNCHANGED <<store, lock, task, asked, served, faults>>
    BY <1>5 DEF SetQueued
  <2> HIDE DEF j
  <2>3. /\ req' \in [Handlers -> Requests]
        /\ req'[h].at = "enqueue" /\ req'[h].seen = req[h].seen /\ req'[h].job = j
        /\ \A g \in Handlers \ {h} : req'[g] = req[g]
    BY <2>2, <1>t, GotoMoves DEF Places, j
  <2>4. status' \in [Jobs -> Statuses] /\ status'[j] = "queued"
        /\ \A i \in Jobs \ {j} : status'[i] = status[i]
    BY <2>1, <2>2, <1>t DEF Statuses
  <2>5. TypeOK'
    BY <2>2, <2>3, <2>4, <1>t, TypeNext DEF store
  <2>6. \A g \in Handlers \ {h} : req[g].job # j
    BY <2>1, PdfJobsAssumption DEF PdfInv, OwnIds, j
  <2>7. RequestsInv'
    BY <2>1, <2>2, <2>3, <2>4, <2>6, <1>s DEF PdfInv, RequestsInv
  <2>8. OwnIds'
    BY <2>3 DEF PdfInv, OwnIds, j
  <2>9. TasksInv'
    BY <2>1, <2>2, <2>4 DEF PdfInv, TasksInv, Running
  <2>10. OneTask'
    BY <2>2 DEF PdfInv, OneTask, InArq
  <2> QED BY <2>5, <2>7, <2>8, <2>9, <2>10, <1>i
<1>6. CASE Enqueue(h)
  <2> DEFINE j == req[h].job
  <2>1. /\ j \in Jobs /\ status[j] = "queued" /\ task[j].at = "none" /\ req[h].at = "enqueue"
    BY <1>6 DEF Enqueue, At, PdfInv, RequestsInv
  <2>2. /\ \/ ArqAccepts /\ task' = [task EXCEPT ![j].at = "queued"]
           \/ task' = task
        /\ Done(h) /\ asked' = asked \cup {j}
        /\ UNCHANGED <<store, lock, status, served, faults>>
    BY <1>6 DEF Enqueue
  <2>3. /\ req' \in [Handlers -> Requests]
        /\ req'[h].at = "idle" /\ req'[h].job = NoJob
        /\ \A g \in Handlers \ {h} : req'[g] = req[g]
    BY <2>2, <1>t, DoneMoves
  <2>4. CASE task' = task
    <3>1. asked' \subseteq Jobs
      BY <2>1, <2>2, <1>t
    <3> QED BY <2>2, <2>4, <3>1, <1>d, <1>t DEF store
  <2>5. CASE ArqAccepts /\ TaskGoto(j, "queued")
    <3> HIDE DEF j
    <3>1. /\ task' \in [Jobs -> Tasks]
          /\ task'[j].at = "queued" /\ task'[j].seen = task[j].seen
          /\ \A i \in Jobs \ {j} : task'[i] = task[i]
      BY <2>1, <2>5, <1>t, TaskMoves DEF Stages
    <3>2. TypeOK'
      BY <2>1, <2>2, <2>3, <3>1, <1>t, TypeNext DEF store
    <3>3. \A g \in Handlers \ {h} : req[g].job # j
      BY <2>1, PdfJobsAssumption DEF PdfInv, OwnIds, j
    <3>4. RequestsInv'
      BY <2>2, <2>3, <3>1, <3>3 DEF PdfInv, RequestsInv
    <3>5. OwnIds'
      BY <2>3 DEF PdfInv, OwnIds
    <3>6. TasksInv'
      BY <2>1, <2>2, <3>1 DEF PdfInv, TasksInv, Running
    <3>7. OneTask'
      BY <2>5, <3>1 DEF ArqAccepts, OneTask, InArq
    <3> QED BY <3>2, <3>4, <3>5, <3>6, <3>7, <1>i
  <2> QED BY <2>2, <2>4, <2>5 DEF TaskGoto
<1>7. CASE PageRead(h)
  <2>1. /\ Migrate(req[h]) /\ req[h].at = "read"
        /\ UNCHANGED <<chart, cached, queue, asked, faults>>
        /\ \/ Ready(req[h]) /\ Serve(h, Text(req[h]))
           \/ Goto(h, "again") /\ UNCHANGED served
           \/ Done(h) /\ UNCHANGED served
    BY <1>7 DEF PageRead
  <2>2. CASE Ready(req[h]) /\ Serve(h, Text(req[h]))
    <3>1. served' \in Versions \X Versions /\ Done(h)
      BY <2>1, <2>2, <1>p
    <3> QED BY <2>1, <3>1, <1>d, <1>m, <1>t DEF queue
  <2>3. CASE Goto(h, "again") /\ UNCHANGED served
    BY <2>1, <2>3, <1>g, <1>m, <1>t DEF queue, Places
  <2>4. CASE Done(h) /\ UNCHANGED served
    BY <2>1, <2>4, <1>d, <1>m, <1>t DEF queue
  <2> QED BY <2>1, <2>2, <2>3, <2>4
<1>15. CASE PageAgain(h)
  <2>1. /\ Migrate(req[h]) /\ req[h].at = "again"
        /\ UNCHANGED <<chart, cached, queue, asked, faults>>
        /\ \/ Ready(req[h]) /\ Serve(h, Text(req[h]))
           \/ Goto(h, "generate") /\ UNCHANGED served
    BY <1>15 DEF PageAgain, At
  <2>2. CASE Ready(req[h]) /\ Serve(h, Text(req[h]))
    <3>1. served' \in Versions \X Versions /\ Done(h)
      BY <2>1, <2>2, <1>p
    <3> QED BY <2>1, <3>1, <1>d, <1>m, <1>t DEF queue
  <2>3. CASE Goto(h, "generate") /\ UNCHANGED served
    BY <2>1, <2>3, <1>g, <1>m, <1>t DEF queue, Places
  <2> QED BY <2>1, <2>2, <2>3
<1>8. CASE PageSave(h)
  <2>1. req[h].seen \in Versions /\ stored' = FromInline(req[h].seen)
    BY <1>8, <1>s DEF PageSave, At, Persist
  <2>2. stored' \in Readings
    BY <2>1, WrittenType
  <2> QED BY <1>8, <2>2, <1>g, <1>t DEF PageSave, At, queue, Places
<1>9. CASE PageCache(h)
  <2>1. /\ req[h].seen \in Versions /\ cached' = FromInline(req[h].seen) /\ Done(h)
        /\ served' = <<req[h].seen, req[h].seen>>
        /\ UNCHANGED <<chart, stored, queue, asked, faults>>
    BY <1>9, <1>s DEF PageCache, At, Serve
  <2>2. cached' \in Readings
    BY <2>1, WrittenType
  <2> QED BY <2>1, <2>2, <1>d, <1>t DEF queue
<1>10. CASE PageFails(h)
  BY <1>10, <1>d, <1>t DEF PageFails, store, queue
<1>11. CASE EditFlush(h)
  BY <1>11, <1>g, <1>t DEF EditFlush, At, Places, store, queue
<1>12. CASE EditUncache(h)
  BY <1>12, <1>g, <1>t DEF EditUncache, At, Places, queue
<1>13. CASE EditCommit(h)
  BY <1>13, <1>d, <1>t DEF EditCommit, queue
<1>14. CASE HandlerDies(h)
  BY <1>14, <1>d, <1>t DEF HandlerDies, store, queue
<1> QED
  BY <1>1, <1>2, <1>3, <1>4, <1>5, <1>6, <1>7, <1>8, <1>9, <1>10, <1>11, <1>12, <1>13, <1>14,
     <1>15
  DEF Proceed

LEMMA WorkerStep ==
  ASSUME PdfInv, NEW j \in Jobs, Work(j) \/ WorkerDies(j)
  PROVE  PdfInv'
<1> USE PdfJobsAssumption
<1>t. /\ TypeOK
      /\ chart \in Versions /\ stored \in Readings \cup {NoReading} /\ cached \in Readings \cup {NoReading}
      /\ lock \in [job: Jobs, ttl: 1..LockTTL] \cup {Unlocked}
      /\ status \in [Jobs -> Statuses] /\ task \in [Jobs -> Tasks] /\ req \in [Handlers -> Requests]
      /\ asked \subseteq Jobs /\ served \in Versions \X Versions /\ faults \in 0..MaxFaults
  BY TypeParts DEF PdfInv
<1>s. /\ task[j].at = "queued" => status[j] = "queued"
      /\ Running(j) => status[j] = "processing"
      /\ task[j].at \in {"read", "generate", "cache", "publish"} => task[j].seen \in Versions
  BY DEF PdfInv, TasksInv
<1>i. PdfInv' <=> TypeOK' /\ (RequestsInv' /\ OwnIds' /\ TasksInv' /\ OneTask')
  BY DEF PdfInv
<1>g. ASSUME NEW at \in Stages \ {"queued"}, TaskGoto(j, at), InArq(j),
             at \in {"load", "read", "generate", "cache", "publish"} => status'[j] = "processing",
             at \in {"read", "generate", "cache", "publish"} => task[j].seen \in Versions,
             stored' \in Readings \cup {NoReading}, cached' \in Readings \cup {NoReading},
             lock' \in {lock, Unlocked}, status' \in [Jobs -> Statuses],
             \A i \in Jobs \ {j} : status'[i] = status[i],
             UNCHANGED <<chart, req, asked, served>>, faults' \in 0..MaxFaults
      PROVE  PdfInv'
  <2>1. /\ task' \in [Jobs -> Tasks]
        /\ task'[j].at = at /\ task'[j].seen = task[j].seen
        /\ \A i \in Jobs \ {j} : task'[i] = task[i]
    BY <1>g, <1>t, TaskMoves
  <2>2. TypeOK'
    BY <2>1, <1>g, <1>t, TypeNext
  <2>3. RequestsInv' /\ OwnIds' /\ TasksInv' /\ OneTask'
    BY <2>1, <1>g, TaskSteps DEF Running
  <2> QED BY <2>2, <2>3, <1>i
<1>1. ASSUME NEW s \in {"processing", "ready", "failed"}, status' = [status EXCEPT ![j] = s]
      PROVE  /\ status' \in [Jobs -> Statuses] /\ status'[j] = s
             /\ \A i \in Jobs \ {j} : status'[i] = status[i]
  BY <1>1, <1>t DEF Statuses
<1>2. CASE TaskStart(j)
  BY <1>1, <1>2, <1>g, <1>t DEF TaskStart, TaskAt, InArq, Stages, store
<1>3. CASE TaskLoad(j)
  <2> DEFINE q == [task[j] EXCEPT !.at = "read", !.seen = chart, !.snap = stored]
  <2>1. /\ task[j].at = "load" /\ task' = [task EXCEPT ![j] = q]
        /\ UNCHANGED <<store, lock, status, req, asked, served, faults>>
    BY <1>3 DEF TaskLoad, TaskAt
  <2>2. task[j] \in Tasks
    BY <1>t
  <2>3. q \in Tasks /\ q.at = "read" /\ q.seen = chart
    BY <2>2, <1>t DEF Tasks, Stages
  <2> HIDE DEF q
  <2>4. /\ task' \in [Jobs -> Tasks] /\ task'[j] = q
        /\ \A i \in Jobs \ {j} : task'[i] = task[i]
    BY <2>1, <2>3, <1>t
  <2>5. TypeOK'
    BY <2>1, <2>4, <1>t, TypeNext DEF store
  <2>6. status[j] = "processing" /\ InArq(j)
    BY <2>1, <1>s DEF Running, InArq
  <2>7. RequestsInv' /\ OwnIds' /\ TasksInv' /\ OneTask'
    BY <2>1, <2>3, <2>4, <2>6, <1>t, TaskSteps
  <2> QED BY <2>5, <2>7, <1>i
<1>4. CASE TaskRead(j)
  <2>1. stored' \in Readings \cup {NoReading}
    BY <1>4, <1>t, MigrateType DEF TaskRead
  <2>2. /\ task[j].at = "read" /\ status[j] = "processing" /\ InArq(j)
        /\ task[j].seen \in Versions
    BY <1>4, <1>s DEF TaskRead, TaskAt, Running, InArq
  <2> DEFINE at == IF Ready(task[j]) THEN "publish" ELSE "generate"
  <2>3. at \in {"publish", "generate"} /\ TaskGoto(j, at)
        /\ UNCHANGED <<chart, cached, lock, status, req, asked, served, faults>>
    BY <1>4 DEF TaskRead
  <2> HIDE DEF at
  <2> QED BY <2>1, <2>2, <2>3, <1>g, <1>t DEF Stages
<1>5. CASE TaskSave(j)
  <2>1. stored' \in Readings
    BY <1>5, <1>s, WrittenType DEF TaskSave, TaskAt, Persist
  <2> QED BY <1>5, <2>1, <1>g, <1>s, <1>t DEF TaskSave, TaskAt, Running, InArq, Stages
<1>6. CASE TaskCache(j)
  <2>1. cached' \in Readings
    BY <1>6, <1>s, WrittenType DEF TaskCache, TaskAt
  <2> QED BY <1>6, <2>1, <1>g, <1>s, <1>t DEF TaskCache, TaskAt, Running, InArq, Stages
<1>7. CASE TaskPublish(j)
  BY <1>7, <1>1, <1>g, <1>t DEF TaskPublish, TaskAt, InArq, Stages, store
<1>8. CASE TaskFail(j)
  BY <1>8, <1>1, <1>g, <1>t DEF TaskFail, InArq, Stages, store
<1>9. CASE TaskTimeout(j)
  BY <1>9, <1>g, <1>t DEF TaskTimeout, Running, InArq, Stages, store
<1>10. CASE TaskRelease(j)
  BY <1>10, <1>g, <1>t DEF TaskRelease, TaskAt, InArq, Stages, store
<1>11. CASE ArqFinish(j)
  <2>1. NoTask \in Tasks /\ NoTask.at = "none"
    BY DEF NoTask, Tasks, Stages
  <2>2. /\ task' \in [Jobs -> Tasks] /\ task'[j].at = "none"
        /\ \A i \in Jobs \ {j} : task'[i] = task[i]
    BY <1>11, <2>1, <1>t DEF ArqFinish
  <2>3. TypeOK'
    BY <1>11, <2>2, <1>t, TypeNext DEF ArqFinish, store
  <2>4. RequestsInv' /\ OwnIds' /\ TasksInv' /\ OneTask'
    BY <1>11, <2>2, TaskSteps DEF ArqFinish, InArq, Running
  <2> QED BY <2>3, <2>4, <1>i
<1>12. CASE WorkerDies(j)
  BY <1>12, <1>g, <1>t DEF WorkerDies, Running, InArq, Stages, store
<1> QED
  BY <1>2, <1>3, <1>4, <1>5, <1>6, <1>7, <1>8, <1>9, <1>10, <1>11, <1>12 DEF Work

LEMMA TimeStep ==
  ASSUME PdfInv, Tick \/ CacheExpires \/ UNCHANGED vars
  PROVE  PdfInv'
<1> USE PdfJobsAssumption
<1>t. /\ chart \in Versions /\ stored \in Readings \cup {NoReading} /\ cached \in Readings \cup {NoReading}
      /\ lock \in [job: Jobs, ttl: 1..LockTTL] \cup {Unlocked}
      /\ status \in [Jobs -> Statuses] /\ task \in [Jobs -> Tasks] /\ req \in [Handlers -> Requests]
      /\ asked \subseteq Jobs /\ served \in Versions \X Versions /\ faults \in 0..MaxFaults
  BY TypeParts DEF PdfInv
<1>1. CASE Tick
  <2>1. /\ \A j \in Jobs : Running(j) => task[j].age < JobTimeout
        /\ lock' = Expire(lock)
        /\ task' = [j \in Jobs |-> IF Running(j) THEN [task[j] EXCEPT !.age = @ + 1] ELSE task[j]]
        /\ UNCHANGED <<store, status, req, asked, served, faults>>
    BY <1>1 DEF Tick
  <2>2. ASSUME NEW j \in Jobs
        PROVE  /\ task'[j] \in Tasks
               /\ task'[j].at = task[j].at /\ task'[j].seen = task[j].seen
    <3>1. task[j] \in Tasks
      BY <1>t
    <3>2. CASE Running(j)
      <4>1. task[j].age + 1 \in 0..JobTimeout
        BY <2>1, <3>1, <3>2 DEF Tasks
      <4>2. task'[j] = [task[j] EXCEPT !.age = @ + 1]
        BY <2>1, <3>2
      <4> QED BY <3>1, <4>1, <4>2 DEF Tasks
    <3>3. CASE ~Running(j)
      BY <2>1, <3>1, <3>3
    <3> QED BY <3>2, <3>3
  <2>3. task' \in [Jobs -> Tasks]
    BY <2>1, <2>2
  <2>4. lock' \in [job: Jobs, ttl: 1..LockTTL] \cup {Unlocked}
    <3>1. CASE lock = Unlocked
      BY <2>1, <3>1 DEF Expire, Unlocked
    <3>2. CASE lock \in [job: Jobs, ttl: 1..LockTTL] /\ lock.ttl <= 1
      BY <2>1, <3>2 DEF Expire
    <3>3. CASE lock \in [job: Jobs, ttl: 1..LockTTL] /\ ~(lock.ttl <= 1)
      BY <2>1, <3>3 DEF Expire
    <3> QED BY <3>1, <3>2, <3>3, <1>t
  <2>5. TypeOK'
    BY <2>1, <2>3, <2>4, <1>t, TypeNext DEF store
  <2>6. RequestsInv' /\ OwnIds'
    BY <2>1, <2>2 DEF PdfInv, RequestsInv, OwnIds
  <2>7. TasksInv' /\ OneTask'
    BY <2>1, <2>2 DEF PdfInv, TasksInv, OneTask, InArq, Running
  <2> QED BY <2>5, <2>6, <2>7 DEF PdfInv
<1>2. CASE CacheExpires \/ UNCHANGED vars
  <2>1. cached' \in {cached, NoReading}
        /\ UNCHANGED <<chart, stored, lock, status, task, req, asked, served, faults>>
    BY <1>2 DEF CacheExpires, queue, store, vars
  <2>2. TypeOK'
    BY <2>1, <1>t, TypeNext
  <2> QED BY <2>1, <2>2 DEF PdfInv, RequestsInv, OwnIds, TasksInv, OneTask, InArq, Running
<1> QED BY <1>1, <1>2

LEMMA PdfStep == PdfInv /\ [Next]_vars => PdfInv'
BY HandlerStep, WorkerStep, TimeStep DEF Next

THEOREM PdfInvariance == Spec => []PdfInv
BY PdfInit, PdfStep, PTL DEF Spec

(* Every variable of the report jobs keeps its type. *)
THEOREM TypeCorrect == Spec => []TypeOK
<1>1. PdfInv => TypeOK
  BY DEF PdfInv
<1> QED BY <1>1, PdfInvariance, PTL

(* However many requests race for the lock, and although it may expire under
   a waiting task, arq holds one task of a user at a time. *)
THEOREM OneTaskAtATime == Spec => []OneTask
<1>1. PdfInv => OneTask
  BY DEF PdfInv
<1> QED BY <1>1, PdfInvariance, PTL

-----------------------------------------------------------------------------
(* Who writes a status, and when *)

LEMMA StatusStep ==
  ASSUME PdfInv, [Next]_vars, NEW j \in Jobs, status'[j] # status[j]
  PROVE  StepOf(status'[j]) = StepOf(status[j]) + 1
<1>t. status \in [Jobs -> Statuses]
  BY TypeParts DEF PdfInv
<1>1. ASSUME NEW h \in Handlers, SetQueued(h)
      PROVE  status'[j] = "queued" /\ status[j] = "none"
  BY <1>1, <1>t DEF SetQueued, At, PdfInv, RequestsInv
<1>2. ASSUME NEW i \in Jobs, TaskStart(i)
      PROVE  status'[j] = "processing" /\ status[j] = "queued"
  BY <1>2, <1>t DEF TaskStart, TaskAt, PdfInv, TasksInv
<1>3. ASSUME NEW i \in Jobs, TaskPublish(i) \/ TaskFail(i)
      PROVE  status'[j] \in {"ready", "failed"} /\ status[j] = "processing"
  BY <1>3, <1>t DEF TaskPublish, TaskFail, TaskAt, Running, PdfInv, TasksInv
<1>4. ASSUME NEW h \in Handlers,
             \/ \E kind \in {"start", "page", "ready", "edit"} : Load(h, kind)
             \/ Proceed(h)
             \/ HandlerDies(h)
      PROVE  status' = status \/ SetQueued(h)
  BY <1>4 DEF Load, Proceed, HandlerDies, StartCheck, Existing, Enqueue, AcquireLock, LockTaken,
       PageRead, PageAgain, PageSave, PageCache, PageFails, EditFlush, EditUncache, EditCommit, queue
<1>5. ASSUME NEW i \in Jobs, Work(i) \/ WorkerDies(i)
      PROVE  status' = status \/ TaskStart(i) \/ TaskPublish(i) \/ TaskFail(i)
  BY <1>5 DEF Work, WorkerDies, TaskLoad, TaskRead, TaskSave, TaskCache, TaskTimeout,
       TaskRelease, ArqFinish
<1>6. ASSUME Tick \/ CacheExpires \/ UNCHANGED vars
      PROVE  status' = status
  BY <1>6 DEF Tick, CacheExpires, queue, vars
<1>7. \/ status'[j] = "queued" /\ status[j] = "none"
      \/ status'[j] = "processing" /\ status[j] = "queued"
      \/ status'[j] \in {"ready", "failed"} /\ status[j] = "processing"
  BY <1>1, <1>2, <1>3, <1>4, <1>5, <1>6 DEF Next
<1> QED BY <1>7 DEF StepOf

(* The status a client polls goes from queued to processing to an outcome and
   never back, whatever the handlers and the tasks of other jobs do. *)
THEOREM StatusGoesForward == Spec => StatusForward
<1>1. PdfInv /\ [Next]_vars =>
        [\A j \in Jobs : status'[j] # status[j] => StepOf(status'[j]) = StepOf(status[j]) + 1]_vars
  BY StatusStep
<1> QED BY <1>1, PdfInvariance, PTL DEF Spec, StatusForward

-----------------------------------------------------------------------------
(* What is printed: a reading whose hash names a chart was written for it *)

Sound == {x \in Readings \cup {NoReading} : x.hash \in Versions => x.for = x.hash}

ReadingsSound ==
  /\ stored \in Sound /\ cached \in Sound
  /\ \A h \in Handlers : req[h].snap \in Sound
  /\ \A j \in Jobs : task[j].snap \in Sound

LEMMA WrittenSound ==
  /\ NoReading \in Sound
  /\ \A v \in Versions : {FromTask(v), FromInline(v)} \subseteq Sound
<1>1. NoReading \in Sound
  BY PdfJobsAssumption DEF NoReading, Sound, None, Versions
<1>2. ASSUME NEW v \in Versions PROVE FromTask(v) \in Sound /\ FromInline(v) \in Sound
  <2>1. FromTask(v) \in Readings /\ FromInline(v) \in Readings
    BY WrittenType
  <2>2. Reduced \notin Versions
    BY PdfJobsAssumption DEF Reduced, Versions
  <2> QED BY <2>1, <2>2 DEF FromTask, FromInline, Sound
<1> QED BY <1>1, <1>2

(* A fresh reading is of the chart that the session loaded. *)
LEMMA PrintedIsSeen ==
  ASSUME PdfInv, ReadingsSound, NEW h \in Handlers, req[h].at # "idle", Ready(req[h])
  PROVE  Text(req[h]) = req[h].seen
<1>1. req[h].seen \in Versions
  BY DEF PdfInv, RequestsInv
<1>2. req[h].snap \in Sound /\ cached \in Sound
  BY DEF ReadingsSound
<1> QED BY <1>1, <1>2 DEF Ready, Text, Fresh, Sound

LEMMA MigrateSound ==
  ASSUME ReadingsSound, NEW r, Migrate(r)
  PROVE  stored' \in Sound
BY DEF ReadingsSound, Migrate, Persist

LEMMA SoundStep ==
  ASSUME PdfInv, ReadingsSound, [Next]_vars
  PROVE  ReadingsSound'
<1>s. stored \in Sound /\ cached \in Sound
  BY DEF ReadingsSound
<1>m. ASSUME NEW r, Migrate(r) PROVE stored' \in Sound
  BY <1>m, MigrateSound
<1>1. ASSUME NEW h \in Handlers,
             \/ \E kind \in {"start", "page", "ready", "edit"} : Load(h, kind)
             \/ Proceed(h)
             \/ HandlerDies(h)
      PROVE  ReadingsSound'
  <2>t. /\ req[h] \in Requests /\ req \in [Handlers -> Requests]
        /\ req[h].at # "idle" => req[h].seen \in Versions
    BY TypeParts DEF PdfInv, RequestsInv
  <2>d. Idle.snap = NoReading
    BY DEF Idle
  <2>1. stored' \in Sound /\ cached' \in Sound
    <3>1. CASE StartCheck(h) \/ PageRead(h) \/ PageAgain(h)
      BY <3>1, <1>m, <1>s DEF StartCheck, PageRead, PageAgain
    <3>2. CASE PageSave(h)
      BY <3>2, <2>t, <1>s, WrittenSound DEF PageSave, At, Persist
    <3>3. CASE PageCache(h)
      BY <3>3, <2>t, <1>s, WrittenSound DEF PageCache, At
    <3>4. CASE EditUncache(h) \/ EditCommit(h)
      BY <3>4, <1>s, WrittenSound DEF EditUncache, EditCommit
    <3>5. CASE UNCHANGED store
      BY <3>5, <1>s DEF store
    <3> QED BY <1>1, <3>1, <3>2, <3>3, <3>4, <3>5
        DEF Load, Proceed, HandlerDies, Existing, SetQueued, Enqueue, AcquireLock, LockTaken,
            PageFails, EditFlush
  <2>2. \A g \in Handlers : req'[g].snap \in {req[g].snap, stored, NoReading}
    <3>1. CASE \E kind \in {"start", "page", "ready", "edit"} : Load(h, kind)
      BY <3>1, <2>t DEF Load
    <3>2. CASE Done(h)
      BY <3>2, <2>t, <2>d DEF Done
    <3>3. CASE \E at \in Places : Goto(h, at)
      BY <3>3, <2>t DEF Goto, Requests
    <3>4. CASE \E j \in Jobs : AcquireLock(h, j) \/ LockTaken(h, j)
      <4>1. PICK j \in Jobs, at \in {"queued", "existing"} :
              req' = [req EXCEPT ![h] = [req[h] EXCEPT !.job = j, !.at = at]]
        BY <3>4 DEF AcquireLock, LockTaken
      <4> QED BY <4>1, <2>t DEF Requests
    <3> QED BY <1>1, <3>1, <3>2, <3>3, <3>4
        DEF Proceed, HandlerDies, StartCheck, Existing, SetQueued, Enqueue, PageRead, PageAgain,
            Serve, PageSave, PageCache, PageFails, EditFlush, EditUncache, EditCommit, Places
  <2>3. task' = task \/ \E j \in Jobs, at \in Stages : TaskGoto(j, at)
    <3>1. CASE Enqueue(h)
      <4>1. req[h].job \in Jobs
        BY <3>1 DEF Enqueue, At, PdfInv, RequestsInv
      <4> QED BY <3>1, <4>1 DEF Enqueue, TaskGoto, Stages
    <3>2. CASE ~Enqueue(h)
      BY <1>1, <3>2 DEF Load, Proceed, HandlerDies, StartCheck, Existing, SetQueued, AcquireLock,
         LockTaken, PageRead, PageAgain, PageSave, PageCache, PageFails, EditFlush, EditUncache,
         EditCommit, queue
    <3> QED BY <3>1, <3>2
  <2>4. \A j \in Jobs : task'[j].snap = task[j].snap
    <3>1. task \in [Jobs -> Tasks]
      BY TypeParts DEF PdfInv
    <3> QED BY <2>3, <3>1 DEF TaskGoto, Tasks
  <2> QED BY <2>1, <2>2, <2>4, <1>s, WrittenSound DEF ReadingsSound
<1>2. ASSUME NEW j \in Jobs, Work(j) \/ WorkerDies(j)
      PROVE  ReadingsSound'
  <2>t. /\ task \in [Jobs -> Tasks]
        /\ task[j].at \in {"generate", "cache"} => task[j].seen \in Versions
    BY TypeParts DEF PdfInv, TasksInv
  <2>1. stored' \in Sound /\ cached' \in Sound
    <3>1. CASE TaskRead(j)
      BY <3>1, <1>m, <1>s DEF TaskRead
    <3>2. CASE TaskSave(j)
      BY <3>2, <2>t, <1>s, WrittenSound DEF TaskSave, TaskAt, Persist
    <3>3. CASE TaskCache(j)
      BY <3>3, <2>t, <1>s, WrittenSound DEF TaskCache, TaskAt
    <3>4. CASE UNCHANGED store
      BY <3>4, <1>s DEF store
    <3> QED BY <1>2, <3>1, <3>2, <3>3, <3>4
        DEF Work, WorkerDies, TaskStart, TaskLoad, TaskPublish, TaskFail, TaskTimeout,
            TaskRelease, ArqFinish
  <2>2. \A i \in Jobs : task'[i].snap \in {task[i].snap, stored, NoReading}
    <3>1. CASE TaskLoad(j)
      <4>1. task' = [task EXCEPT ![j] = [task[j] EXCEPT !.at = "read", !.seen = chart, !.snap = stored]]
        BY <3>1 DEF TaskLoad
      <4> QED BY <4>1, <2>t DEF Tasks
    <3>2. CASE ArqFinish(j)
      BY <3>2, <2>t DEF ArqFinish, NoTask
    <3>3. CASE \E at \in Stages : TaskGoto(j, at)
      BY <3>3, <2>t DEF TaskGoto, Tasks
    <3> QED BY <1>2, <3>1, <3>2, <3>3
        DEF Work, WorkerDies, TaskStart, TaskRead, TaskSave, TaskCache, TaskPublish, TaskFail,
            TaskTimeout, TaskRelease, Stages
  <2>3. req' = req
    BY <1>2 DEF Work, WorkerDies, TaskStart, TaskLoad, TaskRead, TaskSave, TaskCache, TaskPublish,
       TaskFail, TaskTimeout, TaskRelease, ArqFinish
  <2> QED BY <2>1, <2>2, <2>3, <1>s, WrittenSound DEF ReadingsSound
<1>3. CASE Tick
  <2>1. \A j \in Jobs : task'[j].snap = task[j].snap
    <3>1. task \in [Jobs -> Tasks]
      BY TypeParts DEF PdfInv
    <3> QED BY <1>3, <3>1 DEF Tick, Tasks
  <2> QED BY <1>3, <2>1 DEF Tick, ReadingsSound, store
<1>4. CASE CacheExpires \/ UNCHANGED vars
  BY <1>4, WrittenSound DEF CacheExpires, queue, store, vars, ReadingsSound
<1> QED BY <1>1, <1>2, <1>3, <1>4 DEF Next

LEMMA ServedStep ==
  ASSUME PdfInv, ReadingsSound, ServedIsCurrent, [Next]_vars
  PROVE  ServedIsCurrent'
<1>1. ASSUME NEW h \in Handlers, PageRead(h) \/ PageAgain(h)
      PROVE  ServedIsCurrent'
  <2>1. CASE Ready(req[h]) /\ Serve(h, Text(req[h]))
    <3>1. Text(req[h]) = req[h].seen
      BY <1>1, <2>1, PrintedIsSeen DEF PageRead, PageAgain, At
    <3> QED BY <2>1, <3>1 DEF Serve, ServedIsCurrent
  <2>2. CASE UNCHANGED served
    BY <2>2 DEF ServedIsCurrent
  <2> QED BY <1>1, <2>1, <2>2 DEF PageRead, PageAgain
<1>2. ASSUME NEW h \in Handlers, PageCache(h)
      PROVE  ServedIsCurrent'
  BY <1>2 DEF PageCache, Serve, ServedIsCurrent
<1>3. ASSUME NEW h \in Handlers,
             \/ \E kind \in {"start", "page", "ready", "edit"} : Load(h, kind)
             \/ Proceed(h)
             \/ HandlerDies(h)
      PROVE  served' = served \/ PageRead(h) \/ PageAgain(h) \/ PageCache(h)
  BY <1>3 DEF Load, Proceed, HandlerDies, StartCheck, Existing, SetQueued, Enqueue, AcquireLock,
       LockTaken, PageSave, PageFails, EditFlush, EditUncache, EditCommit
<1>4. ASSUME NEW j \in Jobs, Work(j) \/ WorkerDies(j)
      PROVE  served' = served
  BY <1>4 DEF Work, WorkerDies, TaskStart, TaskLoad, TaskRead, TaskSave, TaskCache, TaskPublish,
       TaskFail, TaskTimeout, TaskRelease, ArqFinish
<1>5. ASSUME Tick \/ CacheExpires \/ UNCHANGED vars
      PROVE  served' = served
  BY <1>5 DEF Tick, CacheExpires, vars
<1> QED BY <1>1, <1>2, <1>3, <1>4, <1>5 DEF Next, ServedIsCurrent

(* No PDF prints the reading of another chart than the one whose tables it
   prints, however edits, generations and cache expiries interleave with the
   request, and although a reading saved inline has a hash of its own. *)
THEOREM PrintsItsChart == Spec => []ServedIsCurrent
<1>1. Init => ReadingsSound /\ ServedIsCurrent
  BY WrittenSound DEF Init, ReadingsSound, ServedIsCurrent, Idle, NoTask
<1>2. PdfInv /\ ReadingsSound /\ ServedIsCurrent /\ [Next]_vars
        => ReadingsSound' /\ ServedIsCurrent'
  BY SoundStep, ServedStep
<1>3. Spec => [](ReadingsSound /\ ServedIsCurrent)
  BY <1>1, <1>2, PdfInvariance, PTL DEF Spec
<1> QED BY <1>3, PTL
=============================================================================
