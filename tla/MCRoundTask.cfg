CONSTANTS
    me = me
    p1 = p1
    p2 = p2
    Signers <- Validators
    Me = me
    Flaky <- OneFlaky
    AttemptWrap = 4
    MaxUpdates = 1
SPECIFICATION FairSpec
INVARIANTS NobodyForgotten ReadyRoundHasEvidence
PROPERTY RoundEnds
CHECK_DEADLOCK FALSE
