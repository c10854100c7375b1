CONSTANTS
    None = None
    w1 = w1
    w2 = w2
    g1 = g1
    o1 = o1
    o2 = o2
    x1 = x1
    x2 = x2
    unknown = unknown
    c1 = c1
    c2 = c2
    a1 = a1
    a2 = a2
    UnknownActivation = unknown
    Workers <- OneWorker
    Agents <- OneAgent
    Owners <- OneOwner
    ActivationIds <- MCActivationIds
    ContinuityIds <- MCContinuityIds
    SarIds <- MCSarIds
    MaxRegistered = 1
    MaxCrashes = 0
CHECK_DEADLOCK FALSE
SPECIFICATION Spec
SYMMETRY MCSymmetry
INVARIANTS
    StagesAreMonotonic
