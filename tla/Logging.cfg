CONSTANTS
  MaxFiles = 2
  MaxSize = 3
  Lengths = {1, 2, 4}
  MaxLogged = 5
  MaxFaults = 2
  DayLength = 2
  LastTick = 7
  MaxStamped = 3
  Payloads = {1, 2}
  MaxSkip = 1
  Below = 2
  MaxInputs = 4
  MaxStamp = 2
  Loggers = {"sync", "pool"}
  AsyncLoggers = {"pool"}
  SinkList <- MCSinkList
  Callers = {1}
  Worker = 0
  Off = 2
  MaxCalls = 2
  MaxChanges = 1
  MaxClock = 2
  Names = {"a"}
  Settings = {1, 2}
  MaxLoggers = 2
SPECIFICATION LoggingSpec
INVARIANTS FilesSound  RegistrySound
CHECK_DEADLOCK FALSE
