CONSTANTS
    None = None
    p = p
    q = q
    n1 = n1
    route = route
    other = other
    w1 = w1
    w2 = w2
    Workers <- MCWorkers
    Envelopes <- BehindUTC
    Registries <- MCRegistries
    Route = route
    Skew = 1
    Multiple = 4
    Lag = 3
    MaxClock = 8
SPECIFICATION Spec
SYMMETRY MCSymmetry
INVARIANT
    RetainedRowsPresent
