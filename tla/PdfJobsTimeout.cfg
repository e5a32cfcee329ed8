SPECIFICATION FairSpec
CONSTANTS
  Handlers = {h1}
  Jobs = {j1}
  NoJob = nojob
  JobTimeout = 1
  LockTTL = 2
  Aspected = {0}
  MaxEdits = 0
  MaxFaults = 0
PROPERTY JobsEnd
CHECK_DEADLOCK FALSE
