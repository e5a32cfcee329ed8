--------------------------- MODULE DailyPush_proofs ---------------------------
(***************************************************************************)
(* Proofs about the leader lock and the log of the daily push, for any     *)
(* number of workers, users, ticks, failures and jobs that last too long.  *)
(***************************************************************************)
EXTENDS DailyPush, FiniteSetTheorems, TLAPS

(* A message is on its way to somebody. *)
SendInv == \A w \in Workers : at[w] = "send" => now[w] \in Users

(* Without a job that outlasts its hour there is one runner at most, it runs
   for the current tick, and while the tick fires it is behind the lock. *)
LeaderInv ==
  overruns = 0 =>
    /\ \A w \in Workers : Running(w) => began[w] = tick
    /\ \A w \in Workers : Running(w) /\ phase = "due" => lock
    /\ \A v, w \in Workers : Running(v) /\ Running(w) => v = w

IInv == TypeOK /\ SendInv /\ LeaderInv /\ SentIsLogged

THEOREM InitOK == Init => IInv
<1> SUFFICES ASSUME Init PROVE IInv
  OBVIOUS
<1>1. TypeOK
  <2>1. tick \in Ticks /\ 1 \in Ticks
    BY DailyPushAssumption DEF Init, Ticks, DailyPushAssumption
  <2>2. /\ phase \in {"due", "past"} /\ fired \subseteq Workers /\ lock \in BOOLEAN
        /\ at \in [Workers -> {"idle", "select", "next", "send", "release"}]
        /\ began \in [Workers -> Ticks]
        /\ now \in [Workers -> Users \cup {NoUser}]
    BY <2>1 DEF Init
  <2>3. /\ todo \in [Workers -> SUBSET Users] /\ pending \in [Workers -> SUBSET Users]
        /\ barred \in [Workers -> SUBSET Users]
    BY DEF Init
  <2>4. /\ due \in [Users -> Ticks] /\ enabled \subseteq Users /\ log \subseteq Users
        /\ sent \in [Users -> Nat]
        /\ moves \in 0..MaxMoves /\ faults \in 0..MaxFaults /\ overruns \in 0..MaxOverruns
    BY DailyPushAssumption DEF Init, DailyPushAssumption
  <2>5. QED
    BY <2>1, <2>2, <2>3, <2>4 DEF TypeOK
<1>2. SendInv /\ LeaderInv /\ SentIsLogged
  BY DEF Init, SendInv, LeaderInv, SentIsLogged, Running
<1>3. QED
  BY <1>1, <1>2 DEF IInv

THEOREM NextOK == IInv /\ [Next]_vars => IInv'
<1> SUFFICES ASSUME IInv, [Next]_vars PROVE IInv'
  OBVIOUS
<1>a. TypeOK
  BY DEF IInv
<1>b. SendInv
  BY DEF IInv
<1>c. LeaderInv
  BY DEF IInv
<1>d. SentIsLogged
  BY DEF IInv
<1>1. ASSUME NEW w \in Workers, Fire(w) PROVE IInv'
  <2>1. TypeOK'
    <3>1. /\ fired' \subseteq Workers /\ lock' \in BOOLEAN
          /\ began' \in [Workers -> Ticks]
          /\ at' \in [Workers -> {"idle", "select", "next", "send", "release"}]
      BY <1>a, <1>1 DEF Fire, Goto, TypeOK
    <3>2. UNCHANGED <<tick, phase, todo, now, pending, barred, db, sent, moves, faults, overruns>>
      BY <1>1 DEF Fire
    <3>3. QED
      BY <1>a, <3>1, <3>2 DEF db, TypeOK
  <2>2. SendInv'
    BY <1>a, <1>b, <1>1 DEF Fire, Free, Goto, clockv, job, db, SendInv, TypeOK
  <2>3. LeaderInv'
    BY <1>a, <1>c, <1>1 DEF Fire, Free, Goto, clockv, job, db, LeaderInv, Running, TypeOK
  <2>4. SentIsLogged'
    BY <1>a, <1>d, <1>1 DEF Fire, Free, Goto, clockv, job, db, SentIsLogged, TypeOK
  <2>5. QED
    BY <2>1, <2>2, <2>3, <2>4 DEF IInv
<1>2. ASSUME NEW w \in Workers, Release(w) PROVE IInv'
  <2>1. TypeOK'
    BY <1>a, <1>2, DailyPushAssumption DEF Release, Goto, clockv, job, db, TypeOK, DailyPushAssumption
  <2>2. SendInv'
    BY <1>a, <1>b, <1>2 DEF Release, Goto, clockv, job, db, SendInv, TypeOK
  <2>3. LeaderInv'
    BY <1>a, <1>c, <1>2 DEF Release, Goto, clockv, job, db, LeaderInv, Running, TypeOK
  <2>4. SentIsLogged'
    BY <1>a, <1>d, <1>2 DEF Release, Goto, clockv, job, db, SentIsLogged, TypeOK
  <2>5. QED
    BY <2>1, <2>2, <2>3, <2>4 DEF IInv
<1>3. ASSUME NEW w \in Workers, Select(w) PROVE IInv'
  <2>1. TypeOK'
    BY <1>a, <1>3, DailyPushAssumption DEF Select, Goto, clockv, job, db, TypeOK, DailyPushAssumption
  <2>2. SendInv'
    BY <1>a, <1>b, <1>3 DEF Select, Goto, clockv, job, db, SendInv, TypeOK
  <2>3. LeaderInv'
    BY <1>a, <1>c, <1>3 DEF Select, Goto, clockv, job, db, LeaderInv, Running, TypeOK
  <2>4. SentIsLogged'
    BY <1>a, <1>d, <1>3 DEF Select, Goto, clockv, job, db, SentIsLogged, TypeOK
  <2>5. QED
    BY <2>1, <2>2, <2>3, <2>4 DEF IInv
<1>4. ASSUME NEW w \in Workers, NEW u \in Users, NextUser(w, u) PROVE IInv'
  <2>1. TypeOK'
    BY <1>a, <1>4, DailyPushAssumption DEF NextUser, Goto, clockv, job, db, TypeOK, DailyPushAssumption
  <2>2. SendInv'
    BY <1>a, <1>b, <1>4 DEF NextUser, Goto, clockv, job, db, SendInv, TypeOK
  <2>3. LeaderInv'
    BY <1>a, <1>c, <1>4 DEF NextUser, Goto, clockv, job, db, LeaderInv, Running, TypeOK
  <2>4. SentIsLogged'
    BY <1>a, <1>d, <1>4 DEF NextUser, Goto, clockv, job, db, SentIsLogged, TypeOK
  <2>5. QED
    BY <2>1, <2>2, <2>3, <2>4 DEF IInv
<1>5. ASSUME NEW w \in Workers, Send(w) PROVE IInv'
  <2>1. TypeOK'
    <3>1. now[w] \in Users
      BY <1>b, <1>5 DEF Send, SendInv
    <3>2. /\ at' \in [Workers -> {"idle", "select", "next", "send", "release"}]
          /\ now' \in [Workers -> Users \cup {NoUser}]
      BY <1>a, <1>5 DEF Send, Answered, Goto, TypeOK
    <3>3. sent' \in [Users -> Nat]
      BY <1>a, <1>5, <3>1 DEF Send, TypeOK
    <3>4. pending' \in [Workers -> SUBSET Users] /\ barred' \in [Workers -> SUBSET Users]
      BY <1>a, <1>5, <3>1 DEF Send, TypeOK
    <3>5. /\ faults' \in 0..MaxFaults
          /\ UNCHANGED <<clockv, lock, began, todo, db, moves, overruns>>
      BY <1>a, <1>5, DailyPushAssumption DEF Send, TypeOK, DailyPushAssumption
    <3>6. QED
      BY <1>a, <3>2, <3>3, <3>4, <3>5 DEF clockv, db, TypeOK
  <2>2. SendInv'
    BY <1>a, <1>b, <1>5 DEF Send, Answered, Goto, clockv, job, db, SendInv, TypeOK
  <2>3. LeaderInv'
    BY <1>a, <1>c, <1>5 DEF Send, Answered, Goto, clockv, job, db, LeaderInv, Running, TypeOK
  <2>4. SentIsLogged'
    BY <1>a, <1>d, <1>5 DEF Send, Answered, Goto, clockv, job, db, SentIsLogged, TypeOK
  <2>5. QED
    BY <2>1, <2>2, <2>3, <2>4 DEF IInv
<1>6. ASSUME NEW w \in Workers, SendUnanswered(w) PROVE IInv'
  <2>1. TypeOK'
    <3>1. now[w] \in Users
      BY <1>b, <1>6 DEF SendUnanswered, SendInv
    <3>2. /\ at' \in [Workers -> {"idle", "select", "next", "send", "release"}]
          /\ now' \in [Workers -> Users \cup {NoUser}]
      BY <1>a, <1>6 DEF SendUnanswered, Answered, Goto, TypeOK
    <3>3. sent' \in [Users -> Nat]
      BY <1>a, <1>6, <3>1 DEF SendUnanswered, TypeOK
    <3>4. pending' \in [Workers -> SUBSET Users] /\ barred' \in [Workers -> SUBSET Users]
      BY <1>a, <1>6, <3>1 DEF SendUnanswered, TypeOK
    <3>5. /\ faults' \in 0..MaxFaults
          /\ UNCHANGED <<clockv, lock, began, todo, db, moves, overruns>>
      BY <1>a, <1>6, DailyPushAssumption DEF SendUnanswered, Fault, TypeOK, DailyPushAssumption
    <3>6. QED
      BY <1>a, <3>2, <3>3, <3>4, <3>5 DEF clockv, db, TypeOK
  <2>2. SendInv'
    BY <1>a, <1>b, <1>6 DEF SendUnanswered, Answered, Goto, Fault, clockv, job, db, SendInv, TypeOK
  <2>3. LeaderInv'
    BY <1>a, <1>c, <1>6 DEF SendUnanswered, Answered, Goto, Fault, clockv, job, db, LeaderInv, Running, TypeOK
  <2>4. SentIsLogged'
    BY <1>a, <1>d, <1>6 DEF SendUnanswered, Answered, Goto, Fault, clockv, job, db, SentIsLogged, TypeOK
  <2>5. QED
    BY <2>1, <2>2, <2>3, <2>4 DEF IInv
<1>7. ASSUME NEW w \in Workers, SendRefused(w) PROVE IInv'
  <2>1. TypeOK'
    <3>1. now[w] \in Users
      BY <1>b, <1>7 DEF SendRefused, SendInv
    <3>2. /\ at' \in [Workers -> {"idle", "select", "next", "send", "release"}]
          /\ now' \in [Workers -> Users \cup {NoUser}]
      BY <1>a, <1>7 DEF SendRefused, Answered, Goto, TypeOK
    <3>3. sent' \in [Users -> Nat]
      BY <1>a, <1>7, <3>1 DEF SendRefused, TypeOK
    <3>4. pending' \in [Workers -> SUBSET Users] /\ barred' \in [Workers -> SUBSET Users]
      BY <1>a, <1>7, <3>1 DEF SendRefused, TypeOK
    <3>5. /\ faults' \in 0..MaxFaults
          /\ UNCHANGED <<clockv, lock, began, todo, db, moves, overruns>>
      BY <1>a, <1>7, DailyPushAssumption DEF SendRefused, TypeOK, DailyPushAssumption
    <3>6. QED
      BY <1>a, <3>2, <3>3, <3>4, <3>5 DEF clockv, db, TypeOK
  <2>2. SendInv'
    BY <1>a, <1>b, <1>7 DEF SendRefused, Answered, Goto, clockv, job, db, SendInv, TypeOK
  <2>3. LeaderInv'
    BY <1>a, <1>c, <1>7 DEF SendRefused, Answered, Goto, clockv, job, db, LeaderInv, Running, TypeOK
  <2>4. SentIsLogged'
    BY <1>a, <1>d, <1>7 DEF SendRefused, Answered, Goto, clockv, job, db, SentIsLogged, TypeOK
  <2>5. QED
    BY <2>1, <2>2, <2>3, <2>4 DEF IInv
<1>8. ASSUME NEW w \in Workers, Commit(w) PROVE IInv'
  <2>1. TypeOK'
    BY <1>a, <1>8, DailyPushAssumption DEF Commit, EndJob, Goto, clockv, job, db, TypeOK, DailyPushAssumption
  <2>2. SendInv'
    BY <1>a, <1>b, <1>8 DEF Commit, EndJob, Goto, clockv, job, db, SendInv, TypeOK
  <2>3. LeaderInv'
    BY <1>a, <1>c, <1>8 DEF Commit, EndJob, Goto, clockv, job, db, LeaderInv, Running, TypeOK
  <2>4. SentIsLogged'
    BY <1>a, <1>d, <1>8 DEF Commit, EndJob, Goto, clockv, job, db, SentIsLogged, TypeOK
  <2>5. QED
    BY <2>1, <2>2, <2>3, <2>4 DEF IInv
<1>9. ASSUME NEW w \in Workers, Abort(w) PROVE IInv'
  <2>1. TypeOK'
    BY <1>a, <1>9, DailyPushAssumption DEF Abort, EndJob, Goto, Fault, clockv, job, db, TypeOK, DailyPushAssumption
  <2>2. SendInv'
    BY <1>a, <1>b, <1>9 DEF Abort, EndJob, Goto, Fault, clockv, job, db, SendInv, TypeOK
  <2>3. LeaderInv'
    BY <1>a, <1>c, <1>9 DEF Abort, EndJob, Goto, Fault, clockv, job, db, LeaderInv, Running, TypeOK
  <2>4. SentIsLogged'
    BY <1>a, <1>d, <1>9 DEF Abort, EndJob, Goto, Fault, clockv, job, db, SentIsLogged, TypeOK
  <2>5. QED
    BY <2>1, <2>2, <2>3, <2>4 DEF IInv
<1>10. ASSUME NEW w \in Workers, WorkerDies(w) PROVE IInv'
  <2>1. TypeOK'
    BY <1>a, <1>10, DailyPushAssumption DEF WorkerDies, EndJob, Goto, Fault, clockv, job, db, TypeOK, DailyPushAssumption
  <2>2. SendInv'
    BY <1>a, <1>b, <1>10 DEF WorkerDies, EndJob, Goto, Fault, clockv, job, db, SendInv, TypeOK
  <2>3. LeaderInv'
    BY <1>a, <1>c, <1>10 DEF WorkerDies, EndJob, Goto, Fault, clockv, job, db, LeaderInv, Running, TypeOK
  <2>4. SentIsLogged'
    BY <1>a, <1>d, <1>10 DEF WorkerDies, EndJob, Goto, Fault, clockv, job, db, SentIsLogged, TypeOK
  <2>5. QED
    BY <2>1, <2>2, <2>3, <2>4 DEF IInv
<1>11. ASSUME GraceOver PROVE IInv'
  <2>1. TypeOK'
    BY <1>a, <1>11, DailyPushAssumption DEF GraceOver, clockv, job, db, TypeOK, DailyPushAssumption
  <2>2. SendInv'
    BY <1>a, <1>b, <1>11 DEF GraceOver, clockv, job, db, SendInv, TypeOK
  <2>3. LeaderInv'
    BY <1>a, <1>c, <1>11 DEF GraceOver, clockv, job, db, LeaderInv, Running, TypeOK
  <2>4. SentIsLogged'
    BY <1>a, <1>d, <1>11 DEF GraceOver, clockv, job, db, SentIsLogged, TypeOK
  <2>5. QED
    BY <2>1, <2>2, <2>3, <2>4 DEF IInv
<1>12. ASSUME LockExpires PROVE IInv'
  <2>1. TypeOK'
    BY <1>a, <1>12, DailyPushAssumption DEF LockExpires, Expires, clockv, job, db, TypeOK, DailyPushAssumption
  <2>2. SendInv'
    BY <1>a, <1>b, <1>12 DEF LockExpires, Expires, clockv, job, db, SendInv, TypeOK
  <2>3. LeaderInv'
    BY <1>a, <1>c, <1>12 DEF LockExpires, Expires, clockv, job, db, LeaderInv, Running, TypeOK
  <2>4. SentIsLogged'
    BY <1>a, <1>d, <1>12 DEF LockExpires, Expires, clockv, job, db, SentIsLogged, TypeOK
  <2>5. QED
    BY <2>1, <2>2, <2>3, <2>4 DEF IInv
<1>13. ASSUME NextTick PROVE IInv'
  <2>1. TypeOK'
    <3>1. tick' \in Ticks /\ phase' = "due" /\ fired' = {}
      BY <1>a, <1>13, DailyPushAssumption DEF NextTick, Ticks, TypeOK, DailyPushAssumption
    <3>2. overruns' \in 0..MaxOverruns
      BY <1>a, <1>13, DailyPushAssumption DEF NextTick, TypeOK, DailyPushAssumption
    <3>3. UNCHANGED <<lock, at, job, db, sent, moves, faults>>
      BY <1>13 DEF NextTick
    <3>4. QED
      BY <1>a, <3>1, <3>2, <3>3 DEF job, db, TypeOK
  <2>2. SendInv'
    BY <1>a, <1>b, <1>13 DEF NextTick, clockv, job, db, SendInv, TypeOK
  <2>3. LeaderInv'
    BY <1>a, <1>c, <1>13 DEF NextTick, clockv, job, db, LeaderInv, Running, TypeOK
  <2>4. SentIsLogged'
    BY <1>a, <1>d, <1>13 DEF NextTick, clockv, job, db, SentIsLogged, TypeOK
  <2>5. QED
    BY <2>1, <2>2, <2>3, <2>4 DEF IInv
<1>14. ASSUME NEW u \in Users, NEW t \in Ticks, Move(u, t) PROVE IInv'
  <2>1. TypeOK'
    BY <1>a, <1>14, DailyPushAssumption DEF Move, clockv, job, db, TypeOK, DailyPushAssumption
  <2>2. SendInv'
    BY <1>a, <1>b, <1>14 DEF Move, clockv, job, db, SendInv, TypeOK
  <2>3. LeaderInv'
    BY <1>a, <1>c, <1>14 DEF Move, clockv, job, db, LeaderInv, Running, TypeOK
  <2>4. SentIsLogged'
    BY <1>a, <1>d, <1>14 DEF Move, clockv, job, db, SentIsLogged, TypeOK
  <2>5. QED
    BY <2>1, <2>2, <2>3, <2>4 DEF IInv
<1>15. ASSUME NEW u \in Users, NEW on \in BOOLEAN, SetPush(u, on) PROVE IInv'
  <2>1. TypeOK'
    BY <1>a, <1>15, DailyPushAssumption DEF SetPush, clockv, job, db, TypeOK, DailyPushAssumption
  <2>2. SendInv'
    BY <1>a, <1>b, <1>15 DEF SetPush, clockv, job, db, SendInv, TypeOK
  <2>3. LeaderInv'
    BY <1>a, <1>c, <1>15 DEF SetPush, clockv, job, db, LeaderInv, Running, TypeOK
  <2>4. SentIsLogged'
    BY <1>a, <1>d, <1>15 DEF SetPush, clockv, job, db, SentIsLogged, TypeOK
  <2>5. QED
    BY <2>1, <2>2, <2>3, <2>4 DEF IInv
<1>16. CASE UNCHANGED vars
  BY <1>16 DEF vars, IInv, TypeOK, SendInv, LeaderInv, Running, SentIsLogged
<1>17. QED
  BY <1>1, <1>2, <1>3, <1>4, <1>5, <1>6, <1>7, <1>8, <1>9, <1>10, <1>11, <1>12, <1>13, <1>14, <1>15, <1>16 DEF Next, Work
-----------------------------------------------------------------------------
(* How many messages of one day a user can get.  The workers are counted by *)
(* what they are doing: a set of them only grows by a step that needs the   *)
(* lock, or a user who is in no log yet, or a message sent.                 *)

Runners == {w \in Workers : Running(w)}
Logging(u) == {w \in Workers : u \in pending[w]}
Sending(u) == {w \in Workers : at[w] = "send" /\ now[w] = u}

(* There are no more runners than jobs that outlasted their hour, and one
   more behind the lock or past the grace time. *)
RunnersInv ==
  Cardinality(Runners) <= overruns + (IF phase = "due" /\ ~lock THEN 0 ELSE 1)

(* An open transaction belongs to a running loop, and the user at hand is not
   in it. *)
PendingInv ==
  \A w \in Workers :
    /\ pending[w] # {} => at[w] \in {"next", "send"}
    /\ at[w] = "send" => now[w] \notin pending[w]

CountInv ==
  \A u \in Users :
    /\ u \notin log => sent[u] <= Cardinality(Logging(u)) + faults
    /\ sent[u] + Cardinality(Sending(u)) <= 1 + overruns + faults

OnceInv == RunnersInv /\ PendingInv /\ CountInv

(* A set of workers is finite; adding or taking away one changes its size by
   one. *)
LEMMA CountWorkers ==
  ASSUME NEW S \in SUBSET Workers
  PROVE  /\ Cardinality(S) \in Nat
         /\ \A T \in SUBSET S : Cardinality(T) <= Cardinality(S)
         /\ \A w : w \notin S => Cardinality(S \cup {w}) = Cardinality(S) + 1
         /\ \A w \in S : Cardinality(S \ {w}) = Cardinality(S) - 1
<1>1. IsFiniteSet(S)
  BY DailyPushAssumption, FS_Subset DEF DailyPushAssumption
<1>2. Cardinality(S) \in Nat
  BY <1>1, FS_CardinalityType
<1>3. \A T \in SUBSET S : Cardinality(T) <= Cardinality(S)
  BY <1>1, FS_Subset
<1>4. ASSUME NEW w, w \notin S PROVE Cardinality(S \cup {w}) = Cardinality(S) + 1
  BY <1>1, <1>4, FS_AddElement
<1>5. ASSUME NEW w \in S PROVE Cardinality(S \ {w}) = Cardinality(S) - 1
  BY <1>1, FS_RemoveElement
<1>6. QED
  BY <1>2, <1>3, <1>4, <1>5

LEMMA CountUnion ==
  ASSUME NEW S \in SUBSET Workers, NEW T \in SUBSET Workers, S \cap T = {}
  PROVE  Cardinality(S \cup T) = Cardinality(S) + Cardinality(T)
<1>1. IsFiniteSet(S) /\ IsFiniteSet(T)
  BY DailyPushAssumption, FS_Subset DEF DailyPushAssumption
<1>2. Cardinality(S) \in Nat /\ Cardinality(T) \in Nat
  BY CountWorkers
<1>3. Cardinality(S \cup T) = Cardinality(S) + Cardinality(T) - Cardinality({})
  BY <1>1, FS_Union
<1>4. QED
  BY <1>2, <1>3, FS_EmptySet

(* The counters are numbers. *)
LEMMA Counters ==
  ASSUME TypeOK
  PROVE  overruns \in Nat /\ faults \in Nat /\ \A u \in Users : sent[u] \in Nat
BY DailyPushAssumption DEF TypeOK, DailyPushAssumption

(* Only winning the lock makes a runner, and it makes one. *)
LEMMA RunnersStep ==
  ASSUME TypeOK, TypeOK', RunnersInv, [Next]_vars
  PROVE  RunnersInv'
<1> DEFINE n == Cardinality(Runners)
<1>a. Runners \in SUBSET Workers /\ n \in Nat
  BY CountWorkers DEF Runners
<1>b. overruns \in Nat /\ overruns' \in Nat
  <2>1. \A m \in 0..MaxOverruns : m \in Nat
    BY DailyPushAssumption DEF DailyPushAssumption
  <2>2. QED
    BY <2>1 DEF TypeOK
<1>c. n <= overruns + (IF phase = "due" /\ ~lock THEN 0 ELSE 1)
  BY DEF RunnersInv
<1>1. ASSUME NEW w \in Workers, Fire(w) PROVE RunnersInv'
  <2>1. UNCHANGED <<phase, overruns>> /\ phase = "due"
    BY <1>1 DEF Fire
  <2>2. CASE Free /\ ~Running(w) /\ lock' = TRUE /\ Goto(w, "select")
    <3>1. Runners' = Runners \cup {w} /\ w \notin Runners
      BY <2>2 DEF Runners, Running, Goto, TypeOK
    <3>2. Cardinality(Runners') = n + 1
      BY <1>a, <3>1, CountWorkers
    <3>3. n <= overruns
      BY <1>c, <1>b, <2>1, <2>2 DEF Free
    <3>4. QED
      BY <1>a, <1>b, <2>1, <2>2, <3>2, <3>3 DEF RunnersInv
  <2>3. CASE UNCHANGED <<lock, at>>
    <3>1. Runners' = Runners
      BY <2>3 DEF Runners, Running
    <3>2. QED
      BY <2>1, <2>3, <3>1, <1>c DEF RunnersInv
  <2>4. QED
    BY <1>1, <2>2, <2>3 DEF Fire
<1>2. ASSUME NEW w \in Workers, Release(w) PROVE RunnersInv'
  <2>1. Runners' = Runners \ {w} /\ w \in Runners
    BY <1>2 DEF Release, Runners, Running, Goto, TypeOK
  <2>2. Cardinality(Runners') = n - 1
    BY <1>a, <2>1, CountWorkers
  <2>3. UNCHANGED <<phase, overruns>>
    BY <1>2 DEF Release, clockv
  <2>4. QED
    BY <1>a, <1>b, <1>c, <2>2, <2>3 DEF RunnersInv
<1>3. ASSUME NEW w \in Workers, WorkerDies(w) PROVE RunnersInv'
  <2>1. Runners' = Runners \ {w} /\ w \in Runners
    BY <1>3 DEF WorkerDies, Runners, Running, Goto, TypeOK
  <2>2. Cardinality(Runners') = n - 1
    BY <1>a, <2>1, CountWorkers
  <2>3. UNCHANGED <<phase, lock, overruns>>
    BY <1>3 DEF WorkerDies, Fault, clockv
  <2>4. QED
    BY <1>a, <1>b, <1>c, <2>2, <2>3 DEF RunnersInv
<1>4. ASSUME NEW w \in Workers,
             \/ Select(w) \/ Send(w) \/ SendRefused(w) \/ Commit(w)
             \/ (\E u \in Users : NextUser(w, u)) \/ SendUnanswered(w) \/ Abort(w)
      PROVE  RunnersInv'
  <2>1. UNCHANGED <<phase, lock, overruns>>
    BY <1>4 DEF Select, Send, SendRefused, Commit, NextUser, SendUnanswered, Abort, Fault, clockv
  <2>2. \A v \in Workers : Running(v)' = Running(v)
    BY <1>4 DEF Select, Send, SendRefused, Commit, NextUser, SendUnanswered, Abort,
                Answered, Goto, Running, TypeOK
  <2>3. Runners' = Runners
    BY <2>2 DEF Runners
  <2>4. QED
    BY <2>1, <2>3, <1>c DEF RunnersInv
<1>5. ASSUME GraceOver \/ LockExpires PROVE RunnersInv'
  <2>1. Runners' = Runners /\ UNCHANGED overruns /\ phase' = "past"
    BY <1>5 DEF GraceOver, LockExpires, Expires, clockv, Runners, Running
  <2>2. QED
    BY <1>a, <1>b, <1>c, <2>1 DEF RunnersInv
<1>6. ASSUME NextTick PROVE RunnersInv'
  <2>1. Runners' = Runners
    BY <1>6 DEF NextTick, Runners, Running
  <2>2. phase = "past" /\ ~lock /\ phase' = "due" /\ UNCHANGED lock
    BY <1>6 DEF NextTick
  <2>3. CASE \E w \in Workers : Running(w)
    <3>1. overruns' = overruns + 1
      BY <1>6, <2>3 DEF NextTick
    <3>2. QED
      BY <1>a, <1>b, <1>c, <2>1, <2>2, <3>1 DEF RunnersInv
  <2>4. CASE ~\E w \in Workers : Running(w)
    <3>1. Runners = {}
      BY <2>4 DEF Runners
    <3>2. Cardinality(Runners') = 0
      BY <2>1, <3>1, FS_EmptySet
    <3>3. Cardinality(Runners') <= overruns'
      BY <1>b, <3>2
    <3>4. QED
      BY <1>a, <1>b, <2>1, <3>3 DEF RunnersInv
  <2>5. QED
    BY <2>3, <2>4
<1>7. ASSUME \/ \E u \in Users, t \in Ticks : Move(u, t)
             \/ \E u \in Users, on \in BOOLEAN : SetPush(u, on)
             \/ UNCHANGED vars
      PROVE  RunnersInv'
  <2>1. UNCHANGED <<phase, lock, at, overruns>>
    BY <1>7 DEF Move, SetPush, clockv, vars
  <2>2. Runners' = Runners
    BY <2>1 DEF Runners, Running
  <2>3. QED
    BY <2>1, <2>2, <1>c DEF RunnersInv
<1>8. QED
  BY <1>1, <1>2, <1>3, <1>4, <1>5, <1>6, <1>7 DEF Next, Work

LEMMA PendingStep ==
  ASSUME TypeOK, PendingInv, [Next]_vars
  PROVE  PendingInv'
<1>1. ASSUME NEW w \in Workers, Fire(w) PROVE PendingInv'
  BY <1>1 DEF Fire, Goto, Running, PendingInv, TypeOK
<1>2. ASSUME NEW w \in Workers, Release(w) PROVE PendingInv'
  BY <1>2 DEF Release, Goto, job, PendingInv, TypeOK
<1>3. ASSUME NEW w \in Workers, Select(w) PROVE PendingInv'
  BY <1>3 DEF Select, Goto, PendingInv, TypeOK
<1>4. ASSUME NEW w \in Workers, NEW u \in Users, NextUser(w, u) PROVE PendingInv'
  BY <1>4 DEF NextUser, AlreadySent, Goto, PendingInv, TypeOK
<1>5. ASSUME NEW w \in Workers, Send(w) PROVE PendingInv'
  BY <1>5 DEF Send, Answered, Goto, PendingInv, TypeOK
<1>6. ASSUME NEW w \in Workers, SendUnanswered(w) \/ SendRefused(w) PROVE PendingInv'
  BY <1>6 DEF SendUnanswered, SendRefused, Answered, Goto, PendingInv, TypeOK
<1>7. ASSUME NEW w \in Workers, Commit(w) \/ Abort(w) \/ WorkerDies(w) PROVE PendingInv'
  BY <1>7 DEF Commit, Abort, WorkerDies, EndJob, Goto, PendingInv, TypeOK
<1>8. ASSUME \/ GraceOver \/ LockExpires \/ NextTick
             \/ \E u \in Users, t \in Ticks : Move(u, t)
             \/ \E u \in Users, on \in BOOLEAN : SetPush(u, on)
             \/ UNCHANGED vars
      PROVE  PendingInv'
  <2>1. UNCHANGED <<at, now, pending>>
    BY <1>8 DEF GraceOver, LockExpires, NextTick, Move, SetPush, job, vars
  <2>2. QED
    BY <2>1 DEF PendingInv
<1>9. QED
  BY <1>1, <1>2, <1>3, <1>4, <1>5, <1>6, <1>7, <1>8 DEF Next, Work

(* The steps that change what is counted for a user. *)
LEMMA CountStep ==
  ASSUME IInv, IInv', RunnersInv, PendingInv, CountInv, [Next]_vars
  PROVE  CountInv'
<1> SUFFICES ASSUME NEW u \in Users
             PROVE  /\ u \notin log' => sent'[u] <= Cardinality(Logging(u)') + faults'
                    /\ sent'[u] + Cardinality(Sending(u)') <= 1 + overruns' + faults'
  BY DEF CountInv
<1>t. TypeOK /\ TypeOK' /\ SendInv
  BY DEF IInv
<1>a. /\ Logging(u) \in SUBSET Workers /\ Sending(u) \in SUBSET Workers
      /\ Logging(u)' \in SUBSET Workers /\ Sending(u)' \in SUBSET Workers
  BY DEF Logging, Sending
<1>b. /\ Cardinality(Logging(u)) \in Nat /\ Cardinality(Sending(u)) \in Nat
      /\ Cardinality(Logging(u)') \in Nat /\ Cardinality(Sending(u)') \in Nat
  BY <1>a, CountWorkers
<1>c. overruns \in Nat /\ faults \in Nat /\ sent[u] \in Nat
  BY <1>t, Counters
<1>d. /\ u \notin log => sent[u] <= Cardinality(Logging(u)) + faults
      /\ sent[u] + Cardinality(Sending(u)) <= 1 + overruns + faults
  BY DEF CountInv
<1>1. ASSUME NEW w \in Workers, NEW v \in Users, NextUser(w, v)
      PROVE  /\ u \notin log' => sent'[u] <= Cardinality(Logging(u)') + faults'
             /\ sent'[u] + Cardinality(Sending(u)') <= 1 + overruns' + faults'
  <2>1. UNCHANGED <<pending, log, sent, overruns, faults>> /\ Logging(u)' = Logging(u)
    BY <1>1 DEF NextUser, db, Logging
  <2>2. CASE UNCHANGED <<at, now>>
    <3>1. Sending(u)' = Sending(u)
      BY <2>2 DEF Sending
    <3>2. QED
      BY <2>1, <3>1, <1>d
  <2>3. CASE ~AlreadySent(w, v) /\ now' = [now EXCEPT ![w] = v] /\ Goto(w, "send")
    <3>0. at[w] = "next"
      BY <1>1 DEF NextUser
    <3>1. CASE v # u
      <4>1. Sending(u)' = Sending(u)
        BY <1>t, <2>3, <3>0, <3>1 DEF Sending, Goto, TypeOK
      <4>2. QED
        BY <2>1, <4>1, <1>d
    <3>2. CASE v = u
      <4>1. u \notin log /\ w \notin Logging(u)
        BY <2>3, <3>2 DEF AlreadySent, Logging
      <4>2. w \notin Sending(u) /\ Sending(u)' = Sending(u) \cup {w}
        BY <1>t, <2>3, <3>0, <3>2 DEF Sending, Goto, TypeOK
      <4>3. Cardinality(Sending(u)') = Cardinality(Sending(u)) + 1
        BY <1>a, <4>2, CountWorkers
      <4>4. Logging(u) \cap Sending(u) = {}
        BY DEF Logging, Sending, PendingInv
      <4>5. DEFINE B == Logging(u) \cup Sending(u)
      <4>6. B \in SUBSET Workers /\ w \notin B /\ B \cup {w} \in SUBSET Runners
        BY <1>t, <3>0, <4>1, <4>2 DEF Logging, Sending, Runners, Running, PendingInv
      <4>7. /\ Cardinality(B) = Cardinality(Logging(u)) + Cardinality(Sending(u))
            /\ Cardinality(B \cup {w}) = Cardinality(B) + 1
        BY <1>a, <4>4, <4>6, CountUnion, CountWorkers
      <4>8. Cardinality(B \cup {w}) <= Cardinality(Runners) /\ Cardinality(Runners) \in Nat
        <5>1. Runners \in SUBSET Workers
          BY DEF Runners
        <5>2. QED
          BY <4>6, <5>1, CountWorkers
      <4>9. Cardinality(Runners) <= overruns + 1
        BY <1>c, <4>8 DEF RunnersInv
      <4> HIDE DEF B
      <4>10. sent[u] + Cardinality(Sending(u)) + 1 <= 1 + overruns + faults
        BY <1>b, <1>c, <1>d, <4>1, <4>7, <4>8, <4>9
      <4>11. QED
        BY <1>b, <1>c, <1>d, <2>1, <4>3, <4>10
    <3>3. QED
      BY <3>1, <3>2
  <2>4. QED
    BY <1>1, <2>2, <2>3 DEF NextUser
<1>2. ASSUME NEW w \in Workers, Send(w)
      PROVE  /\ u \notin log' => sent'[u] <= Cardinality(Logging(u)') + faults'
             /\ sent'[u] + Cardinality(Sending(u)') <= 1 + overruns' + faults'
  <2>1. UNCHANGED <<log, overruns, faults>> /\ at[w] = "send" /\ now[w] \in Users
    BY <1>2, <1>t DEF Send, db, SendInv
  <2>2. CASE now[w] = u
    <3>1. sent'[u] = sent[u] + 1
      BY <1>2, <1>t, <2>2 DEF Send, TypeOK
    <3>2. w \notin Logging(u) /\ Logging(u)' = Logging(u) \cup {w}
      BY <1>2, <1>t, <2>1, <2>2 DEF Send, Logging, PendingInv, TypeOK
    <3>3. w \in Sending(u) /\ Sending(u)' = Sending(u) \ {w}
      BY <1>2, <1>t, <2>1, <2>2 DEF Send, Answered, Goto, Sending, TypeOK
    <3>4. /\ Cardinality(Logging(u)') = Cardinality(Logging(u)) + 1
          /\ Cardinality(Sending(u)') = Cardinality(Sending(u)) - 1
      BY <1>a, <3>2, <3>3, CountWorkers
    <3>5. QED
      BY <1>b, <1>c, <1>d, <2>1, <3>1, <3>4
  <2>3. CASE now[w] # u
    <3>1. sent'[u] = sent[u]
      BY <1>2, <1>t, <2>1, <2>3 DEF Send, TypeOK
    <3>2. Logging(u)' = Logging(u) /\ Sending(u)' = Sending(u)
      BY <1>2, <1>t, <2>1, <2>3 DEF Send, Answered, Goto, Logging, Sending, TypeOK
    <3>3. QED
      BY <1>d, <2>1, <3>1, <3>2
  <2>4. QED
    BY <2>2, <2>3
<1>3. ASSUME NEW w \in Workers, SendUnanswered(w)
      PROVE  /\ u \notin log' => sent'[u] <= Cardinality(Logging(u)') + faults'
             /\ sent'[u] + Cardinality(Sending(u)') <= 1 + overruns' + faults'
  <2>1. /\ UNCHANGED <<log, overruns>> /\ faults' = faults + 1
        /\ at[w] = "send" /\ now[w] \in Users
    BY <1>3, <1>t DEF SendUnanswered, Fault, db, SendInv
  <2>2. Logging(u)' = Logging(u) /\ Sending(u)' = Sending(u) \ {w}
    BY <1>3, <1>t, <2>1 DEF SendUnanswered, Answered, Goto, Logging, Sending, TypeOK
  <2>3. Cardinality(Sending(u)') <= Cardinality(Sending(u))
    BY <1>a, <2>2, CountWorkers
  <2>4. sent'[u] \in {sent[u], sent[u] + 1}
    BY <1>3, <1>t, <2>1 DEF SendUnanswered, TypeOK
  <2>5. QED
    BY <1>b, <1>c, <1>d, <2>1, <2>2, <2>3, <2>4
<1>4. ASSUME NEW w \in Workers, SendRefused(w)
      PROVE  /\ u \notin log' => sent'[u] <= Cardinality(Logging(u)') + faults'
             /\ sent'[u] + Cardinality(Sending(u)') <= 1 + overruns' + faults'
  <2>1. UNCHANGED <<log, sent, overruns, faults>> /\ at[w] = "send"
    BY <1>4 DEF SendRefused, db
  <2>2. Logging(u)' = Logging(u) /\ Sending(u)' = Sending(u) \ {w}
    BY <1>4, <1>t, <2>1 DEF SendRefused, Answered, Goto, Logging, Sending, TypeOK
  <2>3. Cardinality(Sending(u)') <= Cardinality(Sending(u))
    BY <1>a, <2>2, CountWorkers
  <2>4. QED
    BY <1>b, <1>c, <1>d, <2>1, <2>2, <2>3
<1>5. ASSUME NEW w \in Workers, Commit(w)
      PROVE  /\ u \notin log' => sent'[u] <= Cardinality(Logging(u)') + faults'
             /\ sent'[u] + Cardinality(Sending(u)') <= 1 + overruns' + faults'
  <2>1. /\ UNCHANGED <<sent, overruns, faults>> /\ log' = log \cup pending[w]
        /\ at[w] = "next" /\ at' = [at EXCEPT ![w] = "release"]
        /\ now' = [now EXCEPT ![w] = NoUser] /\ pending' = [pending EXCEPT ![w] = {}]
    BY <1>5 DEF Commit, EndJob, Goto
  <2>2. Sending(u)' = Sending(u)
    BY <1>t, <2>1 DEF Sending, TypeOK
  <2>3. u \notin log' => u \notin log /\ Logging(u)' = Logging(u)
    BY <1>t, <2>1 DEF Logging, TypeOK
  <2>4. QED
    BY <1>d, <2>1, <2>2, <2>3
<1>6. ASSUME NEW w \in Workers, Abort(w) \/ WorkerDies(w)
      PROVE  /\ u \notin log' => sent'[u] <= Cardinality(Logging(u)') + faults'
             /\ sent'[u] + Cardinality(Sending(u)') <= 1 + overruns' + faults'
  <2>1. /\ UNCHANGED <<sent, overruns, log>> /\ faults' = faults + 1
        /\ \E p \in {"release", "idle"} : at' = [at EXCEPT ![w] = p]
        /\ now' = [now EXCEPT ![w] = NoUser] /\ pending' = [pending EXCEPT ![w] = {}]
    BY <1>6 DEF Abort, WorkerDies, Fault, EndJob, Goto, db
  <2>2. Sending(u)' = Sending(u) \ {w} /\ Logging(u)' = Logging(u) \ {w}
    BY <1>t, <2>1 DEF Sending, Logging, TypeOK
  <2>3. /\ Cardinality(Sending(u)') <= Cardinality(Sending(u))
        /\ Cardinality(Logging(u)') >= Cardinality(Logging(u)) - 1
    <3>1. CASE w \in Logging(u)
      BY <1>a, <1>b, <2>2, <3>1, CountWorkers
    <3>2. CASE w \notin Logging(u)
      <4>1. Logging(u)' = Logging(u)
        BY <2>2, <3>2
      <4>2. QED
        BY <1>a, <1>b, <2>2, <4>1, CountWorkers
    <3>3. QED
      BY <3>1, <3>2
  <2>4. QED
    BY <1>b, <1>c, <1>d, <2>1, <2>3
<1>7. ASSUME \/ \E w \in Workers : Fire(w) \/ Release(w) \/ Select(w)
             \/ GraceOver \/ LockExpires \/ NextTick
             \/ \E v \in Users, t \in Ticks : Move(v, t)
             \/ \E v \in Users, on \in BOOLEAN : SetPush(v, on)
             \/ UNCHANGED vars
      PROVE  /\ u \notin log' => sent'[u] <= Cardinality(Logging(u)') + faults'
             /\ sent'[u] + Cardinality(Sending(u)') <= 1 + overruns' + faults'
  <2>1. UNCHANGED <<sent, log, pending, now, faults>>
    BY <1>7 DEF Fire, Release, Select, GraceOver, LockExpires, NextTick, Move, SetPush,
                db, job, vars
  <2>2. \A w \in Workers : at'[w] = "send" <=> at[w] = "send"
    BY <1>7, <1>t DEF Fire, Release, Select, GraceOver, LockExpires, NextTick, Move, SetPush,
                      Goto, Running, TypeOK, vars
  <2>3. overruns' \in {overruns, overruns + 1}
    BY <1>7 DEF Fire, Release, Select, GraceOver, LockExpires, NextTick, Move, SetPush, vars
  <2>4. Logging(u)' = Logging(u) /\ Sending(u)' = Sending(u)
    BY <2>1, <2>2 DEF Logging, Sending
  <2>5. QED
    BY <1>b, <1>c, <1>d, <2>1, <2>3, <2>4
<1>8. QED
  BY <1>1, <1>2, <1>3, <1>4, <1>5, <1>6, <1>7 DEF Next, Work

LEMMA OnceInit == Init => OnceInv
<1> SUFFICES ASSUME Init PROVE OnceInv
  OBVIOUS
<1>1. Runners = {} /\ \A u \in Users : Logging(u) = {} /\ Sending(u) = {}
  BY DEF Init, Runners, Running, Logging, Sending
<1>2. RunnersInv /\ CountInv
  BY <1>1, FS_EmptySet DEF Init, RunnersInv, CountInv
<1>3. QED
  BY <1>2 DEF Init, PendingInv, OnceInv
-----------------------------------------------------------------------------
(* The theorems *)

(* The invariant holds in every state of every behaviour. *)
THEOREM Invariant == Spec => []IInv
<1>1. Init => IInv
  BY InitOK
<1>2. IInv /\ [Next]_vars => IInv'
  BY NextOK
<1>3. QED
  BY <1>1, <1>2, PTL DEF Spec

(* Every variable has its type, and every counter stays in its bound. *)
THEOREM TypeCorrect == Spec => []TypeOK
<1>1. IInv => TypeOK
  BY DEF IInv
<1>2. QED
  BY <1>1, Invariant, PTL

(* SET NX before the job and a delete after it keep two of any number of
   workers from running the job of one tick at a time, through crashes and
   lapses of the lock, as long as no job outlasts its hour. *)
THEOREM OneLeaderAtATime == Spec => []OneLeader
<1>1. IInv => OneLeader
  BY DEF IInv, LeaderInv, OneLeader
<1>2. QED
  BY <1>1, Invariant, PTL

(* Without a failure no message goes out that the log does not show, in the
   sender's transaction or committed. *)
THEOREM NothingUnlogged == Spec => []SentIsLogged
<1>1. IInv => SentIsLogged
  BY DEF IInv
<1>2. QED
  BY <1>1, Invariant, PTL

(* With every failure and every job that outlasts its hour counted, no user
   gets more than one message of a day on top of them: not by moving to a
   time zone whose push hour is still to come, not by two workers at the job. *)
THEOREM OncePerDayHolds == Spec => []OncePerDay
<1>1. Init => OnceInv
  BY OnceInit
<1>2. IInv /\ IInv' /\ OnceInv /\ [Next]_vars => OnceInv'
  BY RunnersStep, PendingStep, CountStep DEF OnceInv, IInv
<1>3. IInv /\ OnceInv => OncePerDay
  <2> SUFFICES ASSUME IInv, CountInv, NEW u \in Users
               PROVE  sent[u] <= 1 + faults + overruns
    BY DEF OncePerDay, OnceInv
  <2>1. Sending(u) \in SUBSET Workers
    BY DEF Sending
  <2>2. /\ Cardinality(Sending(u)) \in Nat /\ sent[u] \in Nat
        /\ overruns \in Nat /\ faults \in Nat
    BY <2>1, CountWorkers, Counters DEF IInv
  <2>3. QED
    BY <2>2 DEF CountInv
<1>4. QED
  BY <1>1, <1>2, <1>3, Invariant, PTL DEF Spec
=============================================================================
