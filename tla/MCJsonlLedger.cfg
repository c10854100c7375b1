CONSTANTS
    None = None
    w1 = w1
    w2 = w2
    short = short
    long = long
    split = split
    Writers <- MCWriters
    Records <- MCRecords
    Splitting <- MCSplitting
    Long <- MCLong
    MaxAppends = 3
    MaxFaults = 2
SPECIFICATION FairSpec
CHECK_DEADLOCK FALSE
INVARIANTS
    ReadsFailOnlyIfSpoiled
    AcknowledgedAreRead
PROPERTIES
    ReadsAreAppendOnly
    LockIsReleased
