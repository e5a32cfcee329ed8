SPECIFICATION MCSpec
CONSTANTS
  Handlers = {h1}
  Jobs = {j1, j2}
  NoJob = nojob
  JobTimeout = 1
  LockTTL = 2
  Aspected = {0}
  MaxEdits = 1
  MaxFaults = 1
  SecHandlers = {g1, g2}
  SecGenders = {f}
  Sections = {year, money}
  FreeKeys = {money}
  YearKey = year
  NoSection = nosection
  MaxDrops = 1
  MaxSecFaults = 1
  Offsets <- MCOffsets
  LastQuarter = 244
  NpCharts <- MCNpCharts
  NpHeight <- MCHeight
  PpCharts <- MCPpCharts
  MpReports <- MCMpReports
  MaxSheets = 2
INVARIANT OneTask
INVARIANT ServedIsCurrent
INVARIANT YearMovesOn
INVARIANT PagesComplete
PROPERTY StatusForward
PROPERTY LockEnds
PROPERTY ProcessingEnds
PROPERTY SectionsStay
PROPERTY ReportsAnswered
CHECK_DEADLOCK FALSE
