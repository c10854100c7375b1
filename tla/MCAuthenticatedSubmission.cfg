CONSTANTS
    None = None
    p = p
    q = q
    n1 = n1
    route = route
    other = other
    w1 = w1
    w2 = w2
    Workers <- MCWorkers
    Envelopes <- MCEnvelopes
    Registries <- MCRegistries
    Route = route
    Skew = 1
    Multiple = 4
    Lag = 2
    MaxClock = 8
SPECIFICATION Spec
SYMMETRY MCSymmetry
INVARIANTS
    TypeOK
    AcceptedAtMostOnce
    NonceReuseOnlyAfterRetention
    RecordedAtMostOnce
    RowsKeptToExpiry
PROPERTIES
    ClaimsAreAuthorized
