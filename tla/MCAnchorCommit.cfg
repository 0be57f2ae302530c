SPECIFICATION FairSpec
CONSTANTS
  Waves = 3
  History = 5
  MaxOdd = 1
  MaxBad = 1
INVARIANTS
  NoPanic
  SameAnchors
  SamePoints
PROPERTY AllExecuted
