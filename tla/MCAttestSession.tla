--------------------------- MODULE MCAttestSession ---------------------------
EXTENDS AttestSession

CONSTANTS w1, w2, s1, s2, c1, c2, a1, a2

TwoWorkers == {w1, w2}
TwoSessions == {s1, s2}

(* The two sessions' receipts and the sync attestation's compete for ids.  *)
MCContinuityIds == {c1, c2}
MCSarIds == {a1, a2}
=============================================================================
