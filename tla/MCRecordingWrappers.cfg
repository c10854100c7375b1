CONSTANTS
    None = None
    r1 = r1
    r2 = r2
    b1 = b1
    o1 = o1
    o2 = o2
    e1 = e1
    e2 = e2
    e3 = e3
    LegacyKey = LegacyKey
    RecordingKey = RecordingKey
    ReceiptIds <- MCReceiptIds
    Bodies <- OneBody
    Operators <- TwoOperators
    ExpectedKeys <- Published
    Events <- MCEvents
    MaxReceipts = 2
    MaxRestarts = 1
SPECIFICATION Spec
SYMMETRY Symmetries
CHECK_DEADLOCK FALSE
INVARIANTS
    RotatedVerifierServesAll
    ServedWrapperHasReceipt
    CorrelationNeverOverclaims
PROPERTIES
    WrappersWriteOnce
