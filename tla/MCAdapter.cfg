CONSTANTS
  a1 = a1
  a2 = a2
  b = b
  junk = junk
  A = A
  B = B
  NoMessage = NoMessage
  Decode <- MCDecode
  Payloads <- MCPayloads
  Dedup = 2
  History = 1
  Skipped = 1
  Lag = 6
  Behind = 1
  MaxAnchor = 7
  Spread = 1
  MaxOdd = 1
SPECIFICATION Spec
INVARIANTS
  SameExternals
  AwaitsProgress
CHECK_DEADLOCK FALSE
CONSTRAINT Explored
