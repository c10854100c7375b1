CONSTANTS
    None = None
    r1 = r1
    w1 = w1
    w2 = w2
    t1 = t1
    Workers <- TwoWorkers
    Commitments <- OneCommitment
    Outputs <- MCOutputs
    Instants <- MCInstants
    Filters <- MCFilters
SPECIFICATION ComposedSpec
SYMMETRY WorkerSymmetry
INVARIANTS
    ArtifactsAreLinked
    GraphStaysTrue
