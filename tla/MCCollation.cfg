CONSTANTS
  Interval = 1
  MaxMc = 3
  ShardAt <- MCShardAt
  Unprocessed <- MCUnprocessed
  KeyBlocks <- MCKeyBlocks
  Reconfig <- MCReconfig
  MinDelta = 2
  MaxUncommitted = 1
  MaxLag = 2
  MaxOdd = 1
SPECIFICATION Spec
INVARIANTS
  NoPanic
  OnlyValidIsCommitted
  RangeIsCached
  OneAttemptUnlessStale
  ActiveTries
CHECK_DEADLOCK FALSE
