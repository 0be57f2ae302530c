SPECIFICATION Spec
CONSTANTS
  Genesis = 2
  History = 1
  Dedup = 1
  Lag = 1
  SyncSupport = 5
  MaxRound = 12
CHECK_DEADLOCK FALSE
INVARIANTS
  NoPanic
  WindowBounded
  PushedInOrder
  SteadySkipsIncomplete
