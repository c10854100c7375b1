CONSTANTS
    None = None
    w1 = w1
    w2 = w2
    s1 = s1
    s2 = s2
    c1 = c1
    c2 = c2
    a1 = a1
    a2 = a2
    Workers <- TwoWorkers
    Sessions <- TwoSessions
    ContinuityIds <- MCContinuityIds
    SarIds <- MCSarIds
    MaxFaults = 1
SPECIFICATION FairSpec
INVARIANTS
    NeverMoreTrustedThanBegun
    ReceiptsNameRecordedChains
    OneChainPerSession
    RecordNeverMoreTrustedAlone
PROPERTIES
    CompleteSessionsAreChained
