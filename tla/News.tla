--------------------------------- MODULE News ---------------------------------
(***************************************************************************)
(* The news feed (services/news): every morning one worker compares the    *)
(* noons of today and the two days after, and publishes a note for each    *)
(* change of sign or direction that is not in the feed yet, all notes of a *)
(* run in one transaction.                                                 *)
(***************************************************************************)
EXTENDS Integers, FiniteSets

CONSTANTS
  NewsWorkers,   \* server processes, each with a scheduler
  Planets,
  Sky,           \* Sky[day][planet]: <<sign, retrograde>> at that day's noon
  LastDay,       \* bound: mornings
  MaxNewsFaults  \* bound: runs that fail or processes that die

ASSUME NewsAssumption ==
  LastDay \in Nat /\ MaxNewsFaults \in Nat /\ "free" \notin NewsWorkers

EventDates == 1..LastDay + 2
Events == [date: EventDates, planet: Planets, part: {1, 2}]   \* 1: ingress, 2: turn

VARIABLES
  day,        \* the day whose morning it is
  rang,      \* workers whose cron has rang this morning
  feed,       \* event -> how many notes about it are published
  nrun,       \* worker -> [at, todo: events to look at, rows: notes added]
  newsLock,   \* holder of scheduler:lock:daily_news, or "free"
  ranOn,      \* ghost: mornings with a run that committed
  newsFaults

newsVars == <<day, rang, feed, nrun, newsLock, ranOn, newsFaults>>

Changes(from, to) == {e \in Events : e.date = to /\ Sky[to][e.planet][e.part] # Sky[from][e.planet][e.part]}

(* detect_events(start, days = 2): one snapshot per noon, today's included,
   each compared with the one before. *)
Detected_OneDay(d) == Changes(d, d + 1)
Detected(d) == UNION {Changes(d + i - 1, d + i) : i \in 1..2}

NewsIdle == [at |-> "idle", todo |-> {}, rows |-> {}]
NewsInit ==
  /\ day = 0 /\ rang = {} /\ feed = [e \in Events |-> 0]
  /\ nrun = [w \in NewsWorkers |-> NewsIdle]
  /\ newsLock = "free" /\ ranOn = {} /\ newsFaults = 0

(* Six in the morning: SET NX decides whether the worker runs. *)
FireNews(w) ==
  /\ w \notin rang
  /\ rang' = rang \cup {w}
  /\ IF newsLock = "free"
     THEN /\ newsLock' = w
          /\ nrun' = [nrun EXCEPT ![w] = [NewsIdle EXCEPT !.at = "run", !.todo = Detected(day)]]
     ELSE UNCHANGED <<newsLock, nrun>>
  /\ UNCHANGED <<day, feed, ranOn, newsFaults>>

(* An event that is in the feed is skipped, any other gets a note. *)
WriteNote(w, e) ==
  /\ nrun[w].at = "run" /\ e \in nrun[w].todo
  /\ nrun' = [nrun EXCEPT ![w].todo = @ \ {e},
                          ![w].rows = IF feed[e] > 0 THEN @ ELSE @ \cup {e}]
  /\ UNCHANGED <<day, rang, feed, newsLock, ranOn, newsFaults>>

EndNews(w) ==
  /\ nrun' = [nrun EXCEPT ![w] = NewsIdle]
  /\ newsLock' = "free"

CommitNews(w) ==
  /\ nrun[w].at = "run" /\ nrun[w].todo = {}
  /\ feed' = [e \in Events |-> IF e \in nrun[w].rows THEN feed[e] + 1 ELSE feed[e]]
  /\ ranOn' = ranOn \cup {day}
  /\ EndNews(w)
  /\ UNCHANGED <<day, rang, newsFaults>>

(* Any error rolls the whole run back and is logged; a process that dies does
   the same and leaves its lock, which has lapsed by the next morning. *)
NewsFails(w, dies) ==
  /\ nrun[w].at = "run" /\ newsFaults < MaxNewsFaults
  /\ newsFaults' = newsFaults + 1
  /\ nrun' = [nrun EXCEPT ![w] = NewsIdle]
  /\ newsLock' = IF dies THEN newsLock ELSE "free"
  /\ UNCHANGED <<day, rang, feed, ranOn>>

NextMorning ==
  /\ day < LastDay /\ \A w \in NewsWorkers : nrun[w].at = "idle"
  /\ day' = day + 1 /\ rang' = {} /\ newsLock' = "free"
  /\ UNCHANGED <<feed, nrun, ranOn, newsFaults>>

NewsNext ==
  \/ \E w \in NewsWorkers :
       \/ FireNews(w) \/ CommitNews(w)
       \/ \E e \in Events : WriteNote(w, e)
       \/ \E dies \in BOOLEAN : NewsFails(w, dies)
  \/ NextMorning

NewsSpec == NewsInit /\ [][NewsNext]_newsVars

-----------------------------------------------------------------------------

(* Every variable has its type. *)
NewsTypeOK ==
  /\ day \in 0..LastDay /\ rang \subseteq NewsWorkers
  /\ feed \in [Events -> Nat]
  /\ nrun \in [NewsWorkers -> [at: {"idle", "run"}, todo: SUBSET Events, rows: SUBSET Events]]
  /\ newsLock \in NewsWorkers \cup {"free"} /\ ranOn \subseteq 0..LastDay
  /\ newsFaults \in 0..MaxNewsFaults

(* No change in the sky is announced twice, however often the runs of two
   mornings and two workers see it, and none is missed when the run of only
   one of the two mornings before it fails. *)
NewsNotMissed ==
  \A e \in Events :
    /\ feed[e] <= 1
    /\ e \in Changes(e.date - 1, e.date) /\ {e.date - 2, e.date - 1} \cap ranOn # {} => feed[e] = 1
=============================================================================
