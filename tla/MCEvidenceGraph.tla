---------------------------- MODULE MCEvidenceGraph ----------------------------
EXTENDS EvidenceGraph, TLC

CONSTANTS r1, w1, w2, t1

TwoWorkers == {w1, w2}

AcceptSpec ==
    [evaluator_type |-> "deterministic",
     checks |-> <<[kind |-> "http_status_equals", path |-> Path(<<"status">>), expected |-> [num |-> 200],
                   failure_behavior |-> None, external_refs |-> {}]>>]

Policy == [release_on |-> "PASS", withhold_on |-> "FAIL", manual_review_on |-> "INDETERMINATE"]

(* One action: the graph treats each action_ref by itself.                 *)
OneCommitment == {[ref |-> r1, profile |-> [spec |-> AcceptSpec, policy |-> Policy], extra |-> None]}

MCOutputs == {[object |-> "status" :> [num |-> n]] : n \in {200, 404}}

MCInstants == {t1}

MCFilters == {[by |-> "all"], [by |-> "evaluator"], [by |-> "action_ref", ref |-> r1]}

WorkerSymmetry == Permutations(TwoWorkers)
=============================================================================
