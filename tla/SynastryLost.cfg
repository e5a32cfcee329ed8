SPECIFICATION Spec
CONSTANTS
  Users = {a, b, c}
  Buyers = {a}
  Nobody = nobody
  Handlers = {h1, h2}
  Ids = {1}
  Limit = 1
  MaxFaults = 0
SYMMETRY Symmetry
INVARIANT ParticipantsSeeIt
CHECK_DEADLOCK FALSE
