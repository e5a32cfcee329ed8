SPECIFICATION FairSpec
CONSTANTS
  alice = alice
  bob = bob
  s1 = s1
  s2 = s2
  y1 = y1
  y2 = y2
  natal = natal
  month = month
  year = year
  legacy = legacy
  w1 = w1
  w2 = w2
  Users = {alice}
  Strangers = {}
  Deletable = {}
  Workers = {w1, w2}
  StarsPayments = {s1}
  YukassaPayments = {y1}
  Buyer <- MCBuyer
  Product <- MCProduct
  OneTime = {natal}
  Plans = {month, year}
  Days <- MCDays
  YearPlan = year
  CabinetRefunds = {}
  RowIds = {1, 2, 3}
  MaxClock = 1
  MaxAdmin = 1
  MaxCrashes = 1
PROPERTY PaidIsGranted
PROPERTY RefundIsApplied
CHECK_DEADLOCK FALSE
