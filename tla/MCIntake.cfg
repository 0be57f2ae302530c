CONSTANTS
    a = a
    b = b
    h1 = h1
    h2 = h2
    Points <- Broadcasts
    Ill <- OnlyBelow
    Alive <- OnlyBelow
    F = 1
    Handlers <- TwoHandlers
    FirstTop = 3
    MaxRound = 7
    CacheRounds = 0
    Depth = 3
SPECIFICATION IntakeFairSpec
CHECK_DEADLOCK FALSE
INVARIANTS MinorityIsFollowed
PROPERTIES AskedAgainOnlyIfAbsent ReachesDag
