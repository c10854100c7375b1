CONSTANTS
    None = None
    t1 = t1
    t2 = t2
    c1 = c1
    p1 = p1
    p2 = p2
    ConfiguredPayer = ConfiguredPayer
    OtherPayer = OtherPayer
    Threads <- MCThreads
    Clients <- MCClients
    Payments <- MCPayments
    ClaimedPayer <- MCClaimedPayer
    Requests <- MCRequests
    MaxRequests = 4
    RateMax = 2
    Window = 1
    MaxClock = 2
    MaxStepBacks = 1
    MaxRestarts = 1
SPECIFICATION Spec
CHECK_DEADLOCK FALSE
INVARIANTS
    LimitHoldsAlone
    LimitedIsJustified
    LiveReceiptsAreSettled
    OneReceiptPerSettlement
    ChargedIsServed
