CONSTANTS
  c1 = c1
  c2 = c2
  Clients <- MCTwo
  Bytes <- MCBytes
  Room = 2
  Backlog = 1
  ReadMax = 2
  Fds = {5, 6}
  MaxEvents = 2
  Chunks <- MCChunks
  MaxSent = 4
  LineLengths = {2}
  MaxTyped <- MCTypedTwo
  Quitters = {c2}
  Mortal = {c1}
SPECIFICATION SystemSpec
INVARIANTS ClientStays
PROPERTY ServerSpec
CHECK_DEADLOCK FALSE
