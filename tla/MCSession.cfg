SPECIFICATION FairSpec
CONSTANTS
  a = a
  b = b
  e = e
  x = x
  y = y
  Nodes = {a, b}
  Faulty = {e}
  Blocks = {x, y}
  Seqnos = {1}
  Weight <- MCWeight
  Proposals <- MCProposals
  FaultySigs <- MCFaultySigs
  Start <- MCStart
  Slots = 1
  Keep = 0
  MaxParallel = 1
  Ahead = {a}
  Received = {2}
  MaxEvents = 1
CHECK_DEADLOCK FALSE
INVARIANTS OneBlock
PROPERTIES SupportedEnds
