----------------------------- MODULE TokenBucket -----------------------------
(***************************************************************************)
(* The token bucket that the workers share in Redis before each LLM call   *)
(* (services/rate_limiter.py).  A caller reads Redis's clock, then runs    *)
(* the atomic refill-and-consume script with that reading; refused, it     *)
(* sleeps and tries again; after its deadline it goes ahead without.       *)
(*                                                                         *)
(* One tick is the time in which one token is regained, so that Capacity   *)
(* is both the size of the bucket and the ticks that fill it (a minute).   *)
(***************************************************************************)
EXTENDS Integers, FiniteSetsExt

CONSTANTS
  Callers,
  Capacity,     \* OUTPUT_TPM
  Recheck,      \* the longest sleep, 5 s
  WaitLimit,    \* _ACQUIRE_TIMEOUT_S
  BucketTTL,    \* PEXPIRE, two minutes
  Lag,          \* longest time between reading the clock and the script
  MaxTicks      \* bound on time

ASSUME BucketAssumption ==
  /\ Capacity \in Nat \ {0} /\ Recheck \in Nat \ {0} /\ WaitLimit \in Nat
  /\ Lag \in Nat /\ MaxTicks \in Nat
  /\ BucketTTL \in Nat /\ BucketTTL >= Capacity + Lag

VARIABLES
  ticks,     \* Redis's time
  bucket,    \* [there, tokens, ts]
  touched,   \* when the script last ran
  call,      \* caller -> [at, want, now, deadline, wake]
  granted    \* tokens handed out

bucketVars == <<ticks, bucket, touched, call, granted>>

NoCall == [at |-> "idle", want |-> 0, now |-> 0, deadline |-> 0, wake |-> 0]

BucketInit ==
  /\ ticks = 0 /\ touched = 0 /\ granted = 0
  /\ bucket = [there |-> FALSE, tokens |-> 0, ts |-> 0]
  /\ call = [c \in Callers |-> NoCall]

(* acquire_output_tokens: an estimate above the whole bucket is clamped. *)
Acquire_Unclamped(c, estimate) ==
  /\ call[c].at = "idle"
  /\ call' = [call EXCEPT ![c] =
       [at |-> "clock", want |-> Max({1, estimate}), now |-> 0,
        deadline |-> ticks + WaitLimit, wake |-> 0]]
  /\ UNCHANGED <<ticks, bucket, touched, granted>>
Acquire(c, estimate) ==
  /\ call[c].at = "idle"
  /\ call' = [call EXCEPT ![c] =
       [at |-> "clock", want |-> Max({1, Min({estimate, Capacity})}), now |-> 0,
        deadline |-> ticks + WaitLimit, wake |-> 0]]
  /\ UNCHANGED <<ticks, bucket, touched, granted>>

ReadTime(c) ==
  /\ call[c].at = "clock"
  /\ call' = [call EXCEPT ![c].at = "script", ![c].now = ticks]
  /\ UNCHANGED <<ticks, bucket, touched, granted>>

(* The script's refill: a reading older than the last one adds nothing. *)
Refilled_KeepTime(now) ==
  IF ~bucket.there THEN [there |-> TRUE, tokens |-> Capacity, ts |-> now]
  ELSE IF now > bucket.ts
       THEN [bucket EXCEPT !.tokens = Min({Capacity, @ + (now - bucket.ts)})]
       ELSE bucket
Refilled(now) ==
  IF ~bucket.there THEN [there |-> TRUE, tokens |-> Capacity, ts |-> now]
  ELSE IF now > bucket.ts
       THEN [there |-> TRUE, tokens |-> Min({Capacity, bucket.tokens + (now - bucket.ts)}),
             ts |-> now]
       ELSE bucket

Granted(c) ==
  /\ call[c].at = "script" /\ Refilled(call[c].now).tokens >= call[c].want
  /\ bucket' = [Refilled(call[c].now) EXCEPT !.tokens = @ - call[c].want]
  /\ granted' = granted + call[c].want
  /\ touched' = ticks
  /\ call' = [call EXCEPT ![c] = NoCall]
  /\ UNCHANGED ticks

Sleep(c) ==
  LET q == call[c]
      deficit == q.want - Refilled(q.now).tokens
  IN Max({1, Min({deficit, Recheck, q.deadline - q.now})})

Refused(c) ==
  /\ call[c].at = "script" /\ Refilled(call[c].now).tokens < call[c].want
  /\ bucket' = Refilled(call[c].now)
  /\ touched' = ticks
  /\ IF call[c].now >= call[c].deadline
     THEN call' = [call EXCEPT ![c] = NoCall]   \* it calls the provider all the same
     ELSE call' = [call EXCEPT ![c].at = "sleep", ![c].wake = ticks + Sleep(c)]
  /\ UNCHANGED <<ticks, granted>>

Wake(c) ==
  /\ call[c].at = "sleep" /\ ticks >= call[c].wake
  /\ call' = [call EXCEPT ![c].at = "clock"]
  /\ UNCHANGED <<ticks, bucket, touched, granted>>

BucketExpires ==
  /\ bucket.there /\ ticks >= touched + BucketTTL
  /\ bucket' = [bucket EXCEPT !.there = FALSE]
  /\ UNCHANGED <<ticks, touched, call, granted>>

(* The script reaches Redis within Lag of the reading of the clock. *)
Tick ==
  /\ ticks < MaxTicks
  /\ \A c \in Callers : call[c].at = "script" => ticks < call[c].now + Lag
  /\ ticks' = ticks + 1
  /\ UNCHANGED <<bucket, touched, call, granted>>

BucketNext ==
  \/ \E c \in Callers :
       \/ \E estimate \in 0..Capacity + 1 : Acquire(c, estimate)
       \/ ReadTime(c) \/ Granted(c) \/ Refused(c) \/ Wake(c)
  \/ BucketExpires
  \/ Tick

BucketSpec == BucketInit /\ [][BucketNext]_bucketVars

-----------------------------------------------------------------------------
(* Properties *)

CallRecord == [at: {"idle", "clock", "script", "sleep"}, want: 0..Capacity, now: Nat,
               deadline: Nat, wake: Nat]

(* Every variable has its type. *)
BucketTypeOK ==
  /\ ticks \in Nat /\ touched \in Nat /\ granted \in Nat
  /\ bucket \in [there: BOOLEAN, tokens: 0..Capacity, ts: Nat]
  /\ call \in [Callers -> CallRecord]

(* "N workers honestly split the key's budget", "concurrent workers can't
   double-spend": what the bucket grants never exceeds one full bucket and what
   time regains, whatever the order of clock readings and scripts and although
   the bucket is forgotten when idle.  (Callers past their deadline are on top.) *)
GrantsWithinRate == granted <= Capacity + ticks
=============================================================================
