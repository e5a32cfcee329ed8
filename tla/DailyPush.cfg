SPECIFICATION FairSpec
CONSTANTS
  Users = {u1, u2}
  Workers = {w1, w2}
  NoUser = nobody
  LastTick = 2
  MaxMoves = 1
  MaxFaults = 1
  MaxOverruns = 1
INVARIANT OncePerDay
INVARIANT OneLeader
INVARIANT SentIsLogged
PROPERTY LockEnds
CHECK_DEADLOCK FALSE
