------------------------- MODULE MCRecordingWrappers -------------------------
EXTENDS RecordingWrappers, TLC

CONSTANTS r1, r2, b1, o1, o2, e1, e2, e3

MCReceiptIds == {r1, r2}
OneBody == {b1}
TwoOperators == {o1, o2}
MCEvents == {e1, e2, e3}

(* The public key an operator is told to expect is the one published.      *)
Published == {RecordingKey}

Symmetries == Permutations(MCReceiptIds) \cup Permutations(TwoOperators)
    \cup Permutations(MCEvents)
=============================================================================
