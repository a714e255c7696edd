CONSTANTS
  MaxLength = 5
  Values <- MCValues
  Targets <- MCTargets
  s1 = s1
  s2 = s2
  m1 = m1
  m2 = m2
  m3 = m3
  List <- MCList
  Tables <- MCTables
  WorkDays = {0, 2}
  LastDay = 2
  MaxRuns = 3
  Quarters <- MCQuarters
  QuarterDays = 3
  MaxFetches = 4
  ScrapeList <- MCList
  MaxPairs = 3
  Setup <- ServerSetup
  Second = 2
  MaxTime = 20
  Room = 2
  Widths = {1, 3}
  MaxEvents = 3
  Senders <- MCSenders
  Buffered = 2
  Receives = 3
SPECIFICATION ProgramsSpec
INVARIANTS Answers  ScriptsSound LingersFive AnswersRegistrations
 
CHECK_DEADLOCK FALSE
