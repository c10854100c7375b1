--------------------------- MODULE EvaluatorInputs ---------------------------
(***************************************************************************)
(* The evaluator over every input of a bounded domain: a behaviour picks a *)
(* spec, a policy and an output, and then drops fields of the output one   *)
(* at a time, as a submitter that answers fewer of the spec's paths does.  *)
(***************************************************************************)
EXTENDS DeterministicEvaluator, FiniteSets

CONSTANTS
    Answers,    \* outputs to begin with
    Fields,     \* fields a submitter may leave out: the keys that lead to each
    Checks,     \* committed checks
    MaxChecks,  \* bound: length of a committed checks array
    Policies    \* committed release policies, None among them

IsKeys(keys) == keys \in Seq(Range(keys))

(* Committed checks passed validate_acceptance_spec before they are        *)
(* applied; None is no verdict.                                            *)
ASSUME InputAssumption ==
    /\ MaxChecks \in Nat
    /\ \A check \in Checks : CheckError(check) = None
    /\ \A check \in Checks : "keys" \in DOMAIN check.path => IsKeys(check.path.keys)
    /\ \A keys \in Fields : IsKeys(keys) /\ keys # <<>>
    /\ None \notin Results \cup {"SpecError", "TypeError"}

VARIABLES
    committed,  \* the acceptance spec of the commitment
    mandate,    \* its release policy
    answered    \* the output submitted for evaluation

inputVars == <<committed, mandate, answered>>

InputInit ==
    /\ committed \in [evaluator_type : {"deterministic"},
                 checks : UNION {[1 .. n -> Checks] : n \in 0 .. MaxChecks}]
    /\ mandate \in Policies
    /\ answered \in Answers

(* The output without the field that keys lead to: the object that holds   *)
(* the field loses it, and every object above holds the smaller one.       *)
Without(output, keys) ==
    LET trail == Walk(output, keys)
        cut[m \in 1 .. Len(keys)] ==       \* the object m keys above the field
            LET above == trail[Len(keys) - m].object
                key == keys[Len(keys) - m + 1]
            IN  [object |-> IF m = 1 THEN [k \in DOMAIN above \ {key} |-> above[k]]
                            ELSE [above EXCEPT ![key] = cut[m - 1]]]
    IN  cut[Len(keys)]

DropField ==
    /\ \E keys \in Fields :
        /\ Resolve(answered, Path(keys)) # Absent
        /\ answered' = Without(answered, keys)
    /\ UNCHANGED <<committed, mandate>>

InputNext == DropField

InputSpec == InputInit /\ [][InputNext]_inputVars

Result == EvaluateSpec(committed, answered)

Statuses == {<<CheckStatus(committed.checks[i], answered), committed.checks[i].failure_behavior>> :
                i \in DOMAIN committed.checks}

(* The aggregate is the one evaluate_acceptance_spec documents, whatever   *)
(* the order of the checks: PASS exactly when every check is satisfied,    *)
(* FAIL exactly when a check that fails hard is unsatisfied, so that a     *)
(* hard failure dominates and an unevaluable check never fails hard.       *)
AggregationAsDocumented ==
    LET passed == \A s \in Statuses : s[1] = "satisfied"
        failed == \E s \in Statuses : s[1] = "unsatisfied" /\ s[2] # "INDETERMINATE"
    IN  Result = IF failed THEN "FAIL" ELSE IF passed THEN "PASS" ELSE "INDETERMINATE"

(* A check that holds an object to a committed value.                      *)
ComparesObject ==
    \E i \in DOMAIN committed.checks :
        LET expected == committed.checks[i].expected
        IN  IsObject(expected) \/ (IsContentAddressed(expected) /\ IsObject(expected.digest))

(* Leaving fields out, at any depth, never earns a PASS the fuller output  *)
(* did not get: an absent path is unsatisfied or unevaluable, never        *)
(* satisfied.  Only a check that compares an object (field_equals with an  *)
(* object, hash_equals of one) can tell it from the object without a field.*)
DroppingFieldsNeverPasses ==
    [][ComparesObject \/
        (EvaluateSpec(committed, answered') = "PASS" => EvaluateSpec(committed, answered) = "PASS")]_inputVars

(* A release is declared only for PASS or for the one result the committed *)
(* policy releases on, and never for a result the policy also withholds or *)
(* reviews (derive_declared_release_intent).                               *)
ReleaseNeedsMandate ==
    ReleaseIntent(Result, mandate) = "should release" =>
        /\ Result = "PASS" \/ (mandate # None /\ mandate.release_on = Result)
        /\ mandate # None => Result \notin {mandate.withhold_on, mandate.manual_review_on}
=============================================================================
