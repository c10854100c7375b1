--------------------------- MODULE MCAgentRegistry ---------------------------
EXTENDS AgentRegistry, TLC

CONSTANTS w1, w2, g1, o1, o2, x1, x2, unknown, c1, c2, a1, a2

OneWorker == {w1}
TwoWorkers == {w1, w2}
OneAgent == {g1}
OneOwner == {o1}
TwoOwners == {o1, o2}
MCActivationIds == {x1, x2}
MCContinuityIds == {c1, c2}
MCSarIds == {a1, a2}

MCSymmetry ==
    Permutations(TwoWorkers) \cup Permutations(TwoOwners)
    \cup Permutations(MCActivationIds) \cup Permutations(MCContinuityIds) \cup Permutations(MCSarIds)
=============================================================================
