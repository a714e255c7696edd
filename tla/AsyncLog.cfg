CONSTANTS
  p1 = p1
  p2 = p2
  w1 = w1
  w2 = w2
  Producers <- MCProducers
  Pools <- MCPools
  Rooms = {1, 2}
  Policies <- MCPolicies
  Bursts <- MCBursts
SPECIFICATION AsyncFairSpec
INVARIANTS Delivery ShutdownDrains SomebodyAwake
PROPERTIES QueueSpec Progress
CHECK_DEADLOCK FALSE
