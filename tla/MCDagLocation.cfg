SPECIFICATION Spec
CONSTANTS
  Versions = {d1, d2, d3}
  NoVersion = NoVersion
  Verdicts = {"Valid", "Invalid", "IllFormed", "NotFound"}
  MaxRestarts = 2
SYMMETRY VersionSymmetry
CHECK_DEADLOCK FALSE
INVARIANTS
  NoPanicBeforeRestart
  SignOnce
  OneVersionCounts
PROPERTY
  KeepsPromise
