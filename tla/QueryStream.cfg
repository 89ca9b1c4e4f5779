SPECIFICATION FairSpec
CONSTANTS
    Limit = 2
    MaxRows = 3
INVARIANTS
    ShownIsPrefix
    NoSilentTruncation
PROPERTY
    Settles
CHECK_DEADLOCK FALSE
