------------------------------- MODULE Accounts -------------------------------
(***************************************************************************)
(* The users table: what a launch, the profile forms, referrals and the    *)
(* analytics endpoint write (api/routes/users.py, referrals.py, events.py, *)
(* services/analytics).  Each request reads the row, decides, and commits  *)
(* the columns it changed; there is no lock between the two.               *)
(***************************************************************************)
EXTENDS Integers, FiniteSets

CONSTANTS
  Accts,         \* Telegram accounts
  AcctHandlers,  \* concurrent requests
  Dates,         \* birth dates
  Params,        \* start parameters: "ref", "syn", "menu", and campaigns
  Codes,         \* referral codes
  Unset,
  MaxRequests    \* bound

ASSUME AccountsAssumption == MaxRequests \in Nat

VARIABLES
  accts,      \* account -> its row
  joinedToday,  \* accounts created less than 24 hours ago
  areq,      \* handler -> its request
  logged,    \* user_events as <<account, event>>
  requests

acctVars == <<accts, joinedToday, areq, logged, requests>>

OnceFields == {"birth", "source", "referrer", "code"}
NoAcct == [exists |-> FALSE, gender |-> Unset, push |-> TRUE, birth |-> Unset,
          source |-> Unset, referrer |-> Unset, code |-> Unset]
NoWrite == [f \in {} |-> Unset]
AcctIdle == [op |-> "none", user |-> Unset, value |-> Unset, writes |-> NoWrite, saw |-> NoAcct]

AcctInit ==
  /\ accts = [u \in Accts |-> NoAcct]
  /\ joinedToday = {} /\ logged = {} /\ requests = 0
  /\ areq = [h \in AcctHandlers |-> AcctIdle]

-----------------------------------------------------------------------------
(* What each request writes, from the row it saw; NoWrite when it refuses *)

(* normalize_acquisition_source *)
NormalSource(param) == IF param \in {"syn", "menu", Unset} THEN Unset ELSE param

(* upsert_me, get_or_create, apply_acquisition_source: first touch. *)
Launch_LastTouch(saw, param) ==
  IF NormalSource(param) # Unset
  THEN [exists |-> TRUE, source |-> NormalSource(param)] ELSE [exists |-> TRUE]
Launch(saw, param) ==
  IF saw.source = Unset /\ NormalSource(param) # Unset
  THEN [exists |-> TRUE, source |-> NormalSource(param)] ELSE [exists |-> TRUE]

(* set_gender, set_push_enabled *)
PutGender(saw, g) == IF saw.exists THEN [gender |-> g] ELSE NoWrite
PutPush(saw, on) == IF saw.exists THEN [push |-> on] ELSE NoWrite

(* setup_birth_data: the date is set once; city and time may change. *)
SetBirth(saw, date) ==
  IF saw.exists /\ saw.birth \in {Unset, date} THEN [birth |-> date] ELSE NoWrite

(* get_or_create_referral_code: a candidate that no row holds. *)
MintCode(saw, code) ==
  IF saw.exists /\ saw.code = Unset /\ \A u \in Accts : accts[u].code # code
  THEN [code |-> code] ELSE NoWrite

(* apply_referral *)
Apply(saw, u, code) ==
  IF /\ saw.exists /\ u \in joinedToday /\ saw.referrer = Unset
     /\ \E r \in Accts \ {u} : accts[r].code = code
  THEN [referrer |-> CHOOSE r \in Accts \ {u} : accts[r].code = code]
  ELSE NoWrite

Writes(op, u, saw, value) ==
  CASE op = "launch" -> Launch(saw, value)   [] op = "event" -> Launch(saw, Unset)
    [] op = "gender" -> PutGender(saw, value) [] op = "push" -> PutPush(saw, value)
    [] op = "birth" -> SetBirth(saw, value)  [] op = "mint" -> MintCode(saw, value)
    [] op = "apply" -> Apply(saw, u, value)

Values == [launch |-> Params \cup {Unset}, gender |-> {"male", "female"},
           push |-> BOOLEAN, birth |-> Dates, mint |-> Codes, apply |-> Codes,
           event |-> {"app_open", "unknown"}]

-----------------------------------------------------------------------------

ReadRow(h, op, u, value) ==
  /\ areq[h] = AcctIdle /\ requests < MaxRequests
  /\ requests' = requests + 1
  /\ LET w == Writes(op, u, accts[u], value)
     IN areq' = IF w = NoWrite THEN areq
                ELSE [areq EXCEPT ![h] = [op |-> op, user |-> u, value |-> value,
                                          writes |-> w, saw |-> accts[u]]]
  /\ UNCHANGED <<accts, joinedToday, logged>>

(* The primary key refuses a second row of the account, the unique index a
   code that another account has taken since: the request fails. *)
Conflict(q) ==
  \/ q.op \in {"launch", "event"} /\ ~q.saw.exists /\ accts[q.user].exists
  \/ q.op = "mint" /\ \E u \in Accts : accts[u].code = q.writes.code

(* record_event keeps the events of the catalogue. *)
CommitRow(h) ==
  /\ areq[h] # AcctIdle
  /\ LET q == areq[h]
     IN IF Conflict(q) THEN UNCHANGED <<accts, joinedToday, logged>>
        ELSE /\ accts' = [accts EXCEPT ![q.user] =
                   [f \in DOMAIN @ |-> IF f \in DOMAIN q.writes THEN q.writes[f] ELSE @[f]]]
             /\ joinedToday' = IF accts[q.user].exists THEN joinedToday
                               ELSE joinedToday \cup {q.user}
             /\ logged' = IF q.op = "event" /\ q.value # "unknown"
                          THEN logged \cup {<<q.user, q.value>>} ELSE logged
  /\ areq' = [areq EXCEPT ![h] = AcctIdle]
  /\ UNCHANGED requests

RequestFails(h) ==
  /\ areq[h] # AcctIdle
  /\ areq' = [areq EXCEPT ![h] = AcctIdle]
  /\ UNCHANGED <<accts, joinedToday, logged, requests>>

DayPasses(u) ==
  /\ u \in joinedToday
  /\ joinedToday' = joinedToday \ {u}
  /\ UNCHANGED <<accts, areq, logged, requests>>

AcctNext ==
  \/ \E h \in AcctHandlers :
       \/ \E op \in DOMAIN Values, u \in Accts : \E v \in Values[op] : ReadRow(h, op, u, v)
       \/ CommitRow(h) \/ RequestFails(h)
  \/ \E u \in Accts : DayPasses(u)

AcctSpec == AcctInit /\ [][AcctNext]_acctVars

-----------------------------------------------------------------------------
(* Properties *)

AcctRow == [exists: BOOLEAN, gender: {"male", "female", Unset}, push: BOOLEAN,
            birth: Dates \cup {Unset}, source: Params \cup {Unset},
            referrer: Accts \cup {Unset}, code: Codes \cup {Unset}]

(* Every variable has its type; codes are not shared. *)
AcctTypeOK ==
  /\ accts \in [Accts -> AcctRow]
  /\ joinedToday \subseteq {u \in Accts : accts[u].exists}
  /\ logged \subseteq Accts \X {"app_open"} /\ requests \in 0..MaxRequests
  /\ \A u, v \in Accts : accts[u].code = accts[v].code => u = v \/ accts[u].code = Unset

(* "Birth date is set once and locked thereafter", "acquisition_source once
   (first-touch ads)", a referrer and a referral code likewise: what is set stays,
   unless a request that read the row before that commits after (two forms sent
   at a time: the later one wins). *)
SetOnce ==
  [][\A u \in Accts, f \in OnceFields :
       accts[u][f] # Unset /\ accts'[u][f] # accts[u][f] =>
         \E h \in AcctHandlers :
           areq[h].user = u /\ areq[h].saw[f] # accts[u][f] /\ areq'[h] = AcctIdle]_acctVars
=============================================================================
