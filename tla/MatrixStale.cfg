SPECIFICATION ArcanaSpec
CONSTANTS
  BirthDates <- MCDates
  SomeDays <- MCDays
INVARIANT FreshIsNotOld
CHECK_DEADLOCK FALSE
