CONSTANTS
  c1 = c1
  c2 = c2
  Clients <- MCTwo
  Bytes <- MCBytes
  Room = 1
  Backlog = 1
  ReadMax = 2
  Fds = {5, 6}
  MaxEvents = 2
  Chunks <- MCChunks
  MaxSent = 4
  LineLengths = {2}
  MaxTyped <- MCTypedTwo
  Quitters = {}
  Mortal = {c1}
SPECIFICATION SystemFairSpec
PROPERTIES EchoShown WriteInterestEnds DeadConnectionDropped
CHECK_DEADLOCK FALSE
