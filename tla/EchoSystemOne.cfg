CONSTANTS
  c1 = c1
  c2 = c2
  Clients <- MCOne
  Bytes <- MCBytes
  Room = 2
  Backlog = 1
  ReadMax = 2
  Fds = {5}
  MaxEvents = 2
  Chunks <- MCChunks
  MaxSent = 5
  LineLengths = {1, 2, 4}
  MaxTyped <- MCTypedOne
  Quitters = {c1}
  Mortal = {c1}
SPECIFICATION SystemSpec
INVARIANTS SentInOrder ConnectSuccessIsReal
CHECK_DEADLOCK FALSE
