CONSTANTS
    None = None
    r1 = r1
    r3 = r3
    w1 = w1
    w2 = w2
    t1 = t1
    t2 = t2
    plain = plain
    annotated = annotated
    Workers <- TwoWorkers
    Commitments <- RacingCommitments
    Outputs <- MCOutputs
    Instants <- MCInstants
SPECIFICATION Spec
SYMMETRY RaceSymmetry
INVARIANTS
    TypeOK
    SpecBinding
    ReceiptBacked
    RaceIsBounded
    ServedReceiptAgrees
PROPERTIES
    StoresWriteOnce
