------------------------------- MODULE MCPathC -------------------------------
EXTENDS PathC, TLC

CONSTANTS r1, r3, w1, w2, t1, t2, plain, annotated

TwoWorkers == {w1, w2}

StatusIs200(kind) ==
    [kind |-> kind, path |-> Path(<<"status">>), expected |-> [num |-> 200],
     failure_behavior |-> None, external_refs |-> {}]

AcceptSpec(kind) == [evaluator_type |-> "deterministic", checks |-> <<StatusIs200(kind)>>]

Policy(release, withhold, review) ==
    [release_on |-> release, withhold_on |-> withhold, manual_review_on |-> review]

Standard == Policy("PASS", "FAIL", "INDETERMINATE")

Commitment(ref, profile, extra) == [ref |-> ref, profile |-> profile, extra |-> extra]

Evaluable == [spec |-> AcceptSpec("http_status_equals"), policy |-> Standard]
Malformed(kind, policy) == [spec |-> AcceptSpec(kind), policy |-> policy]

(* One action under one action_ref, with and without a field outside the   *)
(* digest chain, and one whose evaluation raises.                          *)
RacingCommitments ==
    {Commitment(r1, Evaluable, plain), Commitment(r1, Evaluable, annotated),
     Commitment(r3, Malformed(Unhashable, Standard), None)}

MCOutputs == {[object |-> "status" :> [num |-> n]] : n \in {200, 404}}

MCInstants == {t1, t2}

RaceSymmetry ==
    Permutations(TwoWorkers) \cup Permutations(MCInstants) \cup Permutations({plain, annotated})
=============================================================================
