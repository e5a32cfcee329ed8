-------------------------------- MODULE Draws --------------------------------
(***************************************************************************)
(* One account's tarot spreads and picks from the MAC deck                 *)
(* (api/routes/tarot.py, api/routes/mac.py): one draw per day or per week, *)
(* counted from midnight in Minsk (core/periods.py), and a monthly limit   *)
(* on fresh tarot draws (services/ratelimit.py).  A request is a           *)
(* transaction that commits at its end; created_at is when it began.       *)
(*                                                                         *)
(* Time is UTC hours; hour 0 is a Monday's midnight in UTC.                *)
(***************************************************************************)
EXTENDS Integers, FiniteSets, FiniteSetsExt

CONSTANTS
  DrawHandlers,  \* concurrent requests
  Kinds,         \* the spreads and "mac" that are drawn here
  DrawLimit,     \* LIMITS["tarot_draw"]
  DeckSize,      \* rows of tarot_cards
  Instants,      \* the hours at which anything happens
  MaxStamp, MaxDrawFaults   \* bounds: begins and commits, requests that die

ASSUME DrawsAssumption ==
  /\ Instants \subseteq Nat /\ Instants # {} /\ IsFiniteSet(Instants)
  /\ DrawLimit \in Nat \ {0} /\ DeckSize \in Nat /\ MaxStamp \in Nat /\ MaxDrawFaults \in Nat

VARIABLES
  hourNow,   \* the time
  drawn,     \* committed rows
  dreq,      \* handler -> its request
  slots,     \* the month's counter in Redis
  stamp,     \* orders begins and commits
  drawFaults

drawVars == <<hourNow, drawn, dreq, slots, stamp, drawFaults>>

DrawIdle == [kind |-> "none", at |-> "idle", created |-> 0, began |-> 0, decided |-> 0]

DrawInit ==
  /\ hourNow = Min(Instants)
  /\ drawn = {} /\ slots = 0 /\ stamp = 0 /\ drawFaults = 0
  /\ dreq = [h \in DrawHandlers |-> DrawIdle]

-----------------------------------------------------------------------------
(* core/periods.py and the spreads of services/tarot/engine.py *)

SpreadSize == [single |-> 1, three_card |-> 3, celtic_cross |-> 10, week |-> 7,
               relationship |-> 5, mac |-> 1]

Weekly(kind) == kind \in {"celtic_cross", "week"}

(* UTC hour of the midnight, or the Monday's midnight, that began the period. *)
PeriodStart(t, kind) ==
  LET day == (t + 3) \div 24
  IN 24 * (IF Weekly(kind) THEN day - (day % 7) ELSE day) - 3
PeriodEnd(t, kind) == PeriodStart(t, kind) + (IF Weekly(kind) THEN 7 ELSE 1) * 24

ActivePeriod_Utc(created, kind, now) ==
  now \div 24 = created \div 24
ActivePeriod(created, kind, now) == now < PeriodEnd(created, kind)

-----------------------------------------------------------------------------

Latest(kind) ==
  LET rows == {r \in drawn : r.kind = kind}
  IN {r \in rows : \A s \in rows : s.began <= r.began}

(* POST /tarot/draw, POST /mac/pick: the transaction begins. *)
BeginDraw(h, kind) ==
  /\ dreq[h] = DrawIdle /\ stamp < MaxStamp
  /\ dreq' = [dreq EXCEPT ![h] = [DrawIdle EXCEPT !.kind = kind, !.at = "look",
                                    !.created = hourNow, !.began = stamp]]
  /\ stamp' = stamp + 1
  /\ UNCHANGED <<hourNow, drawn, slots, drawFaults>>

(* A row of the running period is answered again; only fresh draws count. *)
Look(h) ==
  /\ dreq[h].at = "look"
  /\ LET kind == dreq[h].kind
     IN dreq' = [dreq EXCEPT ![h] =
          IF \E r \in Latest(kind) : ActivePeriod(r.created, kind, hourNow) THEN DrawIdle
          ELSE [@ EXCEPT !.at = IF kind = "mac" THEN "insert" ELSE "limit",
                         !.decided = hourNow]]
  /\ UNCHANGED <<hourNow, drawn, slots, stamp, drawFaults>>

(* INCR; over the limit the request is refused and gives the slot back. *)
TakeSlot(h) ==
  /\ dreq[h].at = "limit"
  /\ slots' = slots + 1
  /\ dreq' = [dreq EXCEPT ![h].at = IF slots + 1 > DrawLimit THEN "refund" ELSE "insert"]
  /\ UNCHANGED <<hourNow, drawn, stamp, drawFaults>>

ReturnSlot(h) ==
  /\ dreq[h].at = "refund"
  /\ slots' = slots - 1
  /\ dreq' = [dreq EXCEPT ![h] = DrawIdle]
  /\ UNCHANGED <<hourNow, drawn, stamp, drawFaults>>

(* Cards without repetition, the row, the commit; a deck smaller than the
   spread fails the request and keeps its slot. *)
CommitDraw(h) ==
  /\ dreq[h].at = "insert" /\ stamp < MaxStamp
  /\ LET q == dreq[h]
     IN drawn' = IF q.kind # "mac" /\ DeckSize < SpreadSize[q.kind] THEN drawn
                 ELSE drawn \cup {[kind |-> q.kind, created |-> q.created, began |-> q.began,
                                   decided |-> q.decided, committed |-> stamp]}
  /\ stamp' = stamp + 1
  /\ dreq' = [dreq EXCEPT ![h] = DrawIdle]
  /\ UNCHANGED <<hourNow, slots, drawFaults>>

DrawDies(h) ==
  /\ dreq[h] # DrawIdle /\ drawFaults < MaxDrawFaults
  /\ drawFaults' = drawFaults + 1
  /\ dreq' = [dreq EXCEPT ![h] = DrawIdle]
  /\ UNCHANGED <<hourNow, drawn, slots, stamp>>

TimePasses ==
  /\ \E t \in Instants : t > hourNow
  /\ hourNow' = Min({t \in Instants : t > hourNow})
  /\ UNCHANGED <<drawn, dreq, slots, stamp, drawFaults>>

DrawNext ==
  \/ \E h \in DrawHandlers :
       \/ \E kind \in Kinds : BeginDraw(h, kind)
       \/ Look(h) \/ TakeSlot(h) \/ ReturnSlot(h) \/ CommitDraw(h) \/ DrawDies(h)
  \/ TimePasses

DrawSpec == DrawInit /\ [][DrawNext]_drawVars

-----------------------------------------------------------------------------
(* Properties *)

DrawRow == [kind: Kinds, created: Instants, began: 0..MaxStamp, decided: Instants,
            committed: 0..MaxStamp]
DrawRequest == [kind: Kinds \cup {"none"},
                at: {"idle", "look", "limit", "refund", "insert"},
                created: Instants \cup {0}, began: 0..MaxStamp, decided: Instants \cup {0}]

(* Every variable has its type. *)
DrawTypeOK ==
  /\ hourNow \in Instants /\ drawn \subseteq DrawRow /\ dreq \in [DrawHandlers -> DrawRequest]
  /\ slots \in Nat /\ stamp \in 0..MaxStamp /\ drawFaults \in 0..MaxDrawFaults

(* "Once per day": two rows of one kind in one local day, or week, come only
   from requests that overlapped (a double tap), or that midnight passed. *)
WithinDay(r) == PeriodStart(r.created, r.kind) = PeriodStart(r.decided, r.kind)
OneDrawPerPeriod ==
  \A r, s \in drawn :
    /\ r.kind = s.kind /\ WithinDay(r) /\ WithinDay(s)
    /\ PeriodStart(r.created, r.kind) = PeriodStart(s.created, s.kind)
    => r.began < s.committed
=============================================================================
