CONSTANTS
  c1 = c1
  c2 = c2
  c3 = c3
  Clients <- MCTwo
  Bytes <- MCBytes
  Room = 2
  Backlog = 1
  Fds = {5}
  ReadMax = 2
  MaxEvents = 2
  Chunks <- MCChunks
  MaxSent = 4
SPECIFICATION Spec
INVARIANTS TypeOK EchoIntegrity EchoConserved DiesOnlyForUnechoed
PROPERTY ServiceSpec
CHECK_DEADLOCK FALSE
SYMMETRY MCSymmetry
