SPECIFICATION FairSpec
CONSTANTS
    Limit = 2
    Feeds <- MCFeeds
    Steady <- MCSteady
INVARIANTS
    NoGap
    Accounted
    RingHolds
    BackfillBounded
PROPERTIES
    EndIsComplete
    KeepsPromise
    EveryRowShown
    Released
CHECK_DEADLOCK FALSE
