CONSTANTS
  r1 = r1
  r2 = r2
  r3 = r3
  u1 = u1
  u2 = u2
  u3 = u3
  e1 = e1
  e2 = e2
  Requests <- MCRequests
  Users <- MCUsers
  Known <- MCKnown
  Envs <- MCTwoEnvs
  Env <- MCShared
SPECIFICATION Spec
INVARIANTS TypeOK RaisesItsUser CacheNeverAhead EntryExpires DoneIsCounted
SYMMETRY MCSharedSymmetry
CHECK_DEADLOCK FALSE
