CONSTANTS
  c1 = c1
  c2 = c2
  c3 = c3
  Clients <- MCThree
  Bytes <- MCBytes
  Room = 2
  Backlog = 1
  Fds = {5, 6}
  ReadMax = 1
  MaxEvents = 2
  Chunks <- MCPlain
  MaxSent = 2
SPECIFICATION Spec
INVARIANTS BatchFresh FdAccounting NeverHangsUp
CHECK_DEADLOCK FALSE
SYMMETRY MCSymmetry
