SPECIFICATION MCSpec
CONSTANTS
  Users = {a, b, c}
  Buyers = {a}
  Nobody = nobody
  Handlers = {h1, h2}
  Ids = {1}
  Limit = 1
  MaxFaults = 1
  NatalHandlers = {n1, n2}
  Genders = {f}
  NoGender = nogender
  Nothing = nothing
  Reduced = reduced
  MaxBirths = 1
  MaxNatalAsks = 4
  WlHandlers = {p1, p2}
  MaxWlBirths = 1
  DrawHandlers = {d1, d2}
  Kinds = {"mac", "week", "celtic_cross"}
  DrawLimit = 1
  DeckSize = 7
  Instants = {20, 21, 30, 165}
  MaxStamp = 4
  MaxDrawFaults = 1
  Callers = {c1, c2}
  Capacity = 2
  Recheck = 1
  WaitLimit = 2
  BucketTTL = 3
  Lag = 1
  MaxTicks = 4
  Updates = {x1, x2, x3}
  MaxForwards = 2
  MaxRepeats = 1
  NewsWorkers = {w1, w2}
  Planets = {"moon", "mars"}
  Sky <- MCSky
  LastDay = 2
  MaxNewsFaults = 2
  Accts = {u1, u2}
  AcctHandlers = {k1, k2}
  Dates = {date1, date2}
  Params = {"syn", "ad", "camp"}
  Codes = {code1}
  Unset = unset
  MaxRequests = 3
  MxHandlers = {m1, m2}
  MxGenders = {"male", "female"}
  MaxMxEdits = 2
  MaxMxFaults = 1
  BirthDates <- MCDates
  SomeDays <- MCDays
  TxHandlers = {q1, q2}
  chart1 = chart1
  Charts = {chart1, chart2}
  Pages = {"today"}
  PageAspects <- MCPageAspects
  PairAspects = {"sa", "sb"}
  PairKey = "pair"
  AdviceBlocks = {"do"}
  Opened = {"tb"}
  TxGenders = {"male", "female"}
  NrCharts <- MCNrCharts
  NrTexts <- MCNrTexts
  NdCharts <- MCNdCharts
  NdReplies <- MCNdReplies
  NdImportant = {"a1", "a3"}
  NdBatch = 2
  NdAttempts = 2
  NdPlainWords <- MCNdPlainWords
  SkBirths <- MCSkBirths
  SkTracks <- MCSkTracks
  SkTops = {0, 2}
  SkPlace <- MCSkPlace
  SkHours <- MCSkHours
  PrCatalogues <- MCPrCatalogues
  PrAmounts = {0, 1}
  PrOperators = {o1, o2}
  StarsLimit = 2
  DlHandlers = {g1}
  DlReports = {"natal", "matrix", "matrix_v3"}
  MaxSubs = 2
  MaxDlEdits = 2
  MaxInvoices = 2
  MaxPriceEdits = 1
SYMMETRY Symmetry
INVARIANT TypesOK
INVARIANT ResultMatchesPair
INVARIANT LimitHolds
INVARIANT SlotsAreReturned
INVARIANT HideSticks
INVARIANT NatalIsOwn
INVARIANT TextOfTheNumbers
INVARIANT OneDrawPerPeriod
INVARIANT GrantsWithinRate
INVARIANT AnsweredWasSent
INVARIANT NewsNotMissed
INVARIANT NumbersAgree
INVARIANT KeptTexts
INVARIANT TextsAreSound
INVARIANT AmountsAgree
INVARIANT PaidTextsArePaidFor
PROPERTY WrittenOnce
PROPERTY SetOnce
CHECK_DEADLOCK FALSE
