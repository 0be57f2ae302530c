CONSTANTS
    v1 = v1
    v2 = v2
    v3 = v3
    v4 = v4
    Authors <- MCAuthors
    F = 1
SPECIFICATION FairSpec
\* a round has a finite number of points and two users
CHECK_DEADLOCK FALSE
INVARIANTS
    NoPanic
    NothingLost
    IncludesAreComplete
PROPERTY
    ThresholdIsReached
