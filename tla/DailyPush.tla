----------------------------- MODULE DailyPush -----------------------------
(***************************************************************************)
(* The hourly push of the daily horoscope.  Every uvicorn worker runs its  *)
(* own scheduler, so each tick fires in all of them; a Redis lock          *)
(* (core/scheduler_lock.py) lets one of them run the job                   *)
(* (services/notifications/scheduler.py), which sends a message to each    *)
(* user whose local time is the push hour (push.py) and records it in the  *)
(* notification log.  The whole loop is one transaction: its log rows are  *)
(* seen by others only after the last message.                             *)
(*                                                                         *)
(* One UTC day, in ticks.  A scheduler that is more than a second late for *)
(* a tick skips it (APScheduler's misfire_grace_time), and never runs the  *)
(* job twice at a time (max_instances).                                    *)
(***************************************************************************)
EXTENDS Integers, FiniteSets

CONSTANTS
  Users,       \* users with a sun sign
  Workers,     \* uvicorn workers
  NoUser,
  LastTick,    \* bound: ticks of the day that are looked at
  MaxMoves, MaxFaults, MaxOverruns   \* bounds on changes users make, on
               \* failures, on jobs that last longer than the hour

Ticks == 1..LastTick

ASSUME DailyPushAssumption ==
  /\ NoUser \notin Users /\ IsFiniteSet(Workers)
  /\ LastTick \in Nat \ {0} /\ MaxMoves \in Nat /\ MaxFaults \in Nat
  /\ MaxOverruns \in Nat

VARIABLES
  tick, phase,   \* the current tick, and whether it still fires ("due") or
                 \* its grace time is over ("past")
  fired,         \* workers that have handled this tick
  lock,          \* is scheduler:lock:daily_pushes set
  at, began,     \* worker -> where its job is, the tick it runs for (now_utc)
  todo, now,     \* worker -> users selected and not yet handled, the one at hand
  pending,       \* worker -> log rows of its open transaction
  barred,        \* worker -> users whose push_enabled it has cleared
  due,           \* user -> the tick that is the push hour at their birth place
  enabled,       \* users with push_enabled
  log,           \* users with a committed SENT row of today
  sent,          \* user -> messages that reached them today
  moves, faults, overruns   \* bounded counters

clockv == <<tick, phase, fired>>
job    == <<began, todo, now, pending, barred>>
db     == <<due, enabled, log>>
vars   == <<tick, phase, fired, lock, at, began, todo, now, pending, barred, due,
            enabled, log, sent, moves, faults, overruns>>

Init ==
  /\ tick = 1 /\ phase = "due" /\ fired = {}
  /\ lock = FALSE
  /\ at = [w \in Workers |-> "idle"]
  /\ began = [w \in Workers |-> 1]
  /\ todo = [w \in Workers |-> {}]
  /\ now = [w \in Workers |-> NoUser]
  /\ pending = [w \in Workers |-> {}]
  /\ barred = [w \in Workers |-> {}]
  /\ due \in [Users -> Ticks]
  /\ enabled = Users
  /\ log = {}
  /\ sent = [u \in Users |-> 0]
  /\ moves = 0 /\ faults = 0 /\ overruns = 0

Running(w) == at[w] # "idle"
Fault == faults < MaxFaults /\ faults' = faults + 1 /\ UNCHANGED overruns
Goto(w, p) == at' = [at EXCEPT ![w] = p]

-----------------------------------------------------------------------------
(* with_leader_lock *)

(* SET NX EX; whoever does not get the lock skips the tick. *)
Free_NoNX == TRUE
Free == ~lock

Fire(w) ==
  /\ phase = "due"
  /\ w \notin fired
  /\ fired' = fired \cup {w}
  /\ \/ /\ Free /\ ~Running(w)
        /\ lock' = TRUE
        /\ began' = [began EXCEPT ![w] = tick]
        /\ Goto(w, "select")
     \/ /\ ~Free \/ Running(w)
        /\ UNCHANGED <<lock, at, began>>
  /\ UNCHANGED <<tick, phase, todo, now, pending, barred, db, sent, moves, faults, overruns>>

(* finally: delete the key, whoever set it. *)
Release(w) ==
  /\ at[w] = "release"
  /\ lock' = FALSE
  /\ Goto(w, "idle")
  /\ UNCHANGED <<clockv, job, db, sent, moves, faults, overruns>>

-----------------------------------------------------------------------------
(* send_daily_pushes *)

Select(w) ==
  /\ at[w] = "select"
  /\ todo' = [todo EXCEPT ![w] = {u \in enabled : due[u] = began[w]}]
  /\ Goto(w, "next")
  /\ UNCHANGED <<clockv, lock, began, now, pending, barred, db, sent, moves, faults, overruns>>

(* _already_sent_today reads the committed rows and the session's own. *)
AlreadySent_OwnOnly(w, u) == u \in pending[w]
AlreadySent(w, u) == u \in log \cup pending[w]

(* One user of the loop: done already or no horoscope in the cache, else on
   to the message. *)
NextUser(w, u) ==
  /\ at[w] = "next"
  /\ u \in todo[w]
  /\ todo' = [todo EXCEPT ![w] = @ \ {u}]
  /\ \/ UNCHANGED <<at, now>>
     \/ /\ ~AlreadySent(w, u)
        /\ now' = [now EXCEPT ![w] = u]
        /\ Goto(w, "send")
  /\ UNCHANGED <<clockv, lock, began, pending, barred, db, sent, moves, faults, overruns>>

Answered(w) ==
  /\ now' = [now EXCEPT ![w] = NoUser]
  /\ Goto(w, "next")

(* Telegram takes the message. *)
Send(w) ==
  /\ at[w] = "send"
  /\ sent' = [sent EXCEPT ![now[w]] = @ + 1]
  /\ pending' = [pending EXCEPT ![w] = @ \cup {now[w]}]
  /\ Answered(w)
  /\ UNCHANGED <<clockv, lock, began, todo, barred, db, moves, faults, overruns>>

(* Telegram takes it and the answer is lost: logged as FAILED. *)
SendUnanswered(w) ==
  /\ at[w] = "send"
  /\ Fault
  /\ sent' = [sent EXCEPT ![now[w]] = @ + 1]
  /\ Answered(w)
  /\ UNCHANGED <<clockv, lock, began, todo, pending, barred, db, moves>>

(* Telegram refuses; a 403 also switches the pushes of the user off. *)
SendRefused(w) ==
  /\ at[w] = "send"
  /\ \/ barred' = [barred EXCEPT ![w] = @ \cup {now[w]}]
     \/ UNCHANGED barred
  /\ Answered(w)
  /\ UNCHANGED <<clockv, lock, began, todo, pending, db, sent, moves, faults, overruns>>

EndJob(w) ==
  /\ todo' = [todo EXCEPT ![w] = {}]
  /\ now' = [now EXCEPT ![w] = NoUser]
  /\ pending' = [pending EXCEPT ![w] = {}]
  /\ barred' = [barred EXCEPT ![w] = {}]

Commit_Missing(w) ==
  /\ at[w] = "next"
  /\ todo[w] = {}
  /\ EndJob(w)
  /\ Goto(w, "release")
  /\ UNCHANGED <<clockv, lock, began, db, sent, moves, faults, overruns>>
Commit(w) ==
  /\ at[w] = "next"
  /\ todo[w] = {}
  /\ log' = log \cup pending[w]
  /\ enabled' = enabled \ barred[w]
  /\ EndJob(w)
  /\ Goto(w, "release")
  /\ UNCHANGED <<clockv, lock, began, due, sent, moves, faults, overruns>>

(* An exception in the loop or the commit: the log rows are rolled back. *)
Abort(w) ==
  /\ at[w] \in {"select", "next", "send"}
  /\ Fault
  /\ EndJob(w)
  /\ Goto(w, "release")
  /\ UNCHANGED <<clockv, lock, began, db, sent, moves>>

(* The process dies and is replaced; its lock stays. *)
WorkerDies(w) ==
  /\ Running(w)
  /\ Fault
  /\ EndJob(w)
  /\ Goto(w, "idle")
  /\ UNCHANGED <<clockv, lock, began, db, sent, moves>>

-----------------------------------------------------------------------------
(* Time and users *)

GraceOver ==
  /\ phase = "due"
  /\ phase' = "past"
  /\ UNCHANGED <<tick, fired, lock, at, job, db, sent, moves, faults, overruns>>

(* 300 seconds: longer than the grace time, shorter than the hour. *)
Expires_Never == FALSE
Expires == phase = "past" /\ lock

LockExpires ==
  /\ Expires
  /\ lock' = FALSE
  /\ UNCHANGED <<clockv, at, job, db, sent, moves, faults, overruns>>

(* A job may still run when the next tick comes. *)
NextTick ==
  /\ phase = "past" /\ ~lock
  /\ tick < LastTick
  /\ tick' = tick + 1 /\ phase' = "due" /\ fired' = {}
  /\ IF \E w \in Workers : Running(w)
     THEN overruns < MaxOverruns /\ overruns' = overruns + 1
     ELSE UNCHANGED overruns
  /\ UNCHANGED <<lock, at, job, db, sent, moves, faults>>

(* The loop has flushed push_enabled of these users: their row is locked. *)
RowFree(u) == \A w \in Workers : u \notin barred[w]

(* POST /users/me/birth with another city: birth_tz changes. *)
Move(u, t) ==
  /\ moves < MaxMoves
  /\ moves' = moves + 1
  /\ due[u] # t /\ RowFree(u)
  /\ due' = [due EXCEPT ![u] = t]
  /\ UNCHANGED <<clockv, lock, at, job, enabled, log, sent, faults, overruns>>

(* POST /users/me/push *)
SetPush(u, on) ==
  /\ moves < MaxMoves
  /\ moves' = moves + 1
  /\ RowFree(u)
  /\ enabled' = IF on THEN enabled \cup {u} ELSE enabled \ {u}
  /\ UNCHANGED <<clockv, lock, at, job, due, log, sent, faults, overruns>>

-----------------------------------------------------------------------------

Work(w) ==
  \/ Select(w) \/ Send(w) \/ SendRefused(w) \/ Commit(w) \/ Release(w)
  \/ \E u \in Users : NextUser(w, u)

Next ==
  \/ \E w \in Workers : Fire(w) \/ Work(w) \/ SendUnanswered(w) \/ Abort(w) \/ WorkerDies(w)
  \/ GraceOver \/ LockExpires \/ NextTick
  \/ \E u \in Users : (\E t \in Ticks : Move(u, t)) \/ \E on \in BOOLEAN : SetPush(u, on)

Spec == Init /\ [][Next]_vars

(* Jobs keep running and time passes.  Nothing forces a scheduler to be in
   time for a tick. *)
Fairness ==
  /\ \A w \in Workers : WF_vars(Work(w))
  /\ WF_vars(GraceOver) /\ WF_vars(LockExpires) /\ WF_vars(NextTick)

FairSpec == Spec /\ Fairness

-----------------------------------------------------------------------------
(* Properties *)

(* Every variable has its type. *)
TypeOK ==
  /\ tick \in Ticks /\ phase \in {"due", "past"} /\ fired \subseteq Workers
  /\ lock \in BOOLEAN
  /\ at \in [Workers -> {"idle", "select", "next", "send", "release"}]
  /\ began \in [Workers -> Ticks]
  /\ todo \in [Workers -> SUBSET Users]
  /\ now \in [Workers -> Users \cup {NoUser}]
  /\ pending \in [Workers -> SUBSET Users]
  /\ barred \in [Workers -> SUBSET Users]
  /\ due \in [Users -> Ticks]
  /\ enabled \subseteq Users /\ log \subseteq Users
  /\ sent \in [Users -> Nat]
  /\ moves \in 0..MaxMoves /\ faults \in 0..MaxFaults
  /\ overruns \in 0..MaxOverruns

(* "users got two identical daily horoscope pushes": a user gets one push a
   day however the ticks of the workers interleave, a worker that is late
   reruns the tick and the user moves from one time zone to another; each
   further one costs a failure or a job that outlasts the hour. *)
OncePerDay == \A u \in Users : sent[u] <= 1 + faults + overruns

(* "Exactly one worker actually runs the job each tick": although the lock
   lapses while a long job runs and leaders crash, no two workers are at the
   same tick's job at a time, as long as no job outlasts the hour and then
   deletes the lock of the next. *)
OneLeader ==
  overruns = 0 => \A v, w \in Workers :
    Running(v) /\ Running(w) /\ began[v] = began[w] => v = w

(* A message is on record as sent when its job is over, unless a failure lost
   the record. *)
SentIsLogged ==
  faults = 0 =>
    \A u \in Users : sent[u] > 0 => u \in log \/ \E w \in Workers : u \in pending[w]

(* A dead leader does not keep the lock: it ends, and the next ticks are
   free to run. *)
LockEnds == lock ~> ~lock
=============================================================================
