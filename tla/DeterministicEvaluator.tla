------------------------ MODULE DeterministicEvaluator ------------------------
(***************************************************************************)
(* deterministic_evaluator.py: a committed acceptance spec applied to a    *)
(* submitted output.                                                       *)
(*                                                                         *)
(* A JSON value is a one-field record naming its kind: [num |-> 3],        *)
(* [str |-> "ok"], [digest |-> v] for the sha256 literal of v, [null |->   *)
(* TRUE], and [object |-> f] for the object whose fields f maps to values. *)
(* An output is a JSON value.  The dot-path "$.a.b" is Path(<<"a", "b">>), *)
(* and "$" is Path(<<>>).                                                  *)
(***************************************************************************)
EXTENDS Integers, Sequences, SequencesExt

CONSTANT None                   \* an absent optional field

Null   == [null |-> TRUE]       \* the JSON value null
Absent == [absent |-> TRUE]     \* the sentinel _ABSENT

Path(keys) == [keys |-> keys]
NoPath   == [missing |-> TRUE]          \* inputs.output_path is missing
NotAPath == [not_a_string |-> TRUE]     \* ... or is not a string
BadPath  == [malformed |-> TRUE]        \* ... or is no dot-path from "$"

IsObject(v) == "object" \in DOMAIN v
IsNumber(v) == "num" \in DOMAIN v
IsContentAddressed(v) == "digest" \in DOMAIN v

(* What a numeric_threshold expects is {op, value}.  Any other check that  *)
(* expects an object is given an [object |-> f].                           *)
ThresholdOps == {">=", ">", "<=", "<", "=="}
IsThreshold(v) == {"op", "value"} \subseteq DOMAIN v /\ v.op \in ThresholdOps /\ IsNumber(v.value)

CheckKinds == {"field_present", "field_equals", "numeric_threshold", "hash_equals",
               "content_type_equals", "http_status_equals", "json_schema"}

EqualityKinds == {"field_equals", "content_type_equals", "http_status_equals"}

Results == {"PASS", "FAIL", "INDETERMINATE"}

Child(v, key) == IF IsObject(v) /\ key \in DOMAIN v.object THEN v.object[key] ELSE Absent

(* What the traversal stands on after its first n keys.                    *)
Walk(output, keys) ==
    LET current[n \in 0 .. Len(keys)] == IF n = 0 THEN output ELSE Child(current[n - 1], keys[n])
    IN  current

Resolve(output, path) ==
    IF "keys" \in DOMAIN path THEN Walk(output, path.keys)[Len(path.keys)] ELSE Absent

Compare(op, a, b) ==
    CASE op = ">=" -> a >= b
      [] op = ">"  -> a > b
      [] op = "<=" -> a =< b
      [] op = "<"  -> a < b
      [] OTHER     -> a = b

Verdict(ok) == IF ok THEN "satisfied" ELSE "unsatisfied"

(* What a check asks of a value it can be held against.                    *)
Meets(check, v) ==
    IF check.kind = "numeric_threshold"
    THEN IsNumber(v) /\ Compare(check.expected.op, v.num, check.expected.value.num)
    ELSE v = check.expected

(* Mutant: a path the output does not answer counts as satisfied.          *)
PathStatusAbsentPasses(check, v) ==
    IF check.kind = "field_present" THEN Verdict(v # Absent)
    ELSE IF check.kind = "numeric_threshold" /\ ~IsThreshold(check.expected) THEN "unevaluable"
    ELSE IF v = Absent THEN "satisfied"
    ELSE Verdict(Meets(check, v))

(* The checks that need a string path; the value it resolves to is v.      *)
PathStatus(check, v) ==
    IF check.kind = "field_present" THEN Verdict(v # Absent)
    ELSE IF check.kind = "numeric_threshold" /\ ~IsThreshold(check.expected) THEN "unevaluable"
    ELSE IF v = Absent THEN "unevaluable"
    ELSE Verdict(Meets(check, v))

HashStatus(check, v) ==
    IF v = Absent \/ ~IsContentAddressed(check.expected)
    THEN "unevaluable"
    ELSE Verdict(check.expected = [digest |-> v])

CheckStatus(check, output) ==
    CASE check.kind = "hash_equals" ->
            HashStatus(check, IF check.path = NoPath THEN output ELSE Resolve(output, check.path))
      [] check.kind \in EqualityKinds \cup {"field_present", "numeric_threshold"} ->
            IF check.path \in {NoPath, NotAPath}
            THEN "unevaluable"
            ELSE PathStatus(check, Resolve(output, check.path))
      [] OTHER -> "unevaluable"      \* json_schema_not_implemented, unsupported kind

(* validate_acceptance_spec.  checks is None when it is not an array.  A   *)
(* kind that is a JSON array or object cannot be looked up in CHECK_KINDS: *)
(* the lookup raises TypeError instead of the spec error.                  *)
Unhashable == "unhashable"

CheckError(check) ==
    IF check.kind = Unhashable THEN "TypeError"
    ELSE IF \/ check.kind \notin CheckKinds
            \/ check.failure_behavior \notin {None, "FAIL", "INDETERMINATE"}
            \/ \E ref \in check.external_refs : ~IsContentAddressed(ref)
    THEN "SpecError"
    ELSE None

SpecError(spec) ==
    IF spec.checks = None \/ spec.evaluator_type \notin {None, "deterministic"}
    THEN "SpecError"
    ELSE LET bad == {i \in DOMAIN spec.checks : CheckError(spec.checks[i]) # None}
         IN  IF bad = {} THEN None ELSE CheckError(spec.checks[Min(bad)])

(* Mutant: a check without a failure_behavior does not fail hard.          *)
AggregateDefaultSoft(flags, check, output) ==
    LET status == CheckStatus(check, output)
        hard == check.failure_behavior = "FAIL" IN
    [hard_fail |-> flags.hard_fail \/ (status = "unsatisfied" /\ hard),
     indeterminate |-> \/ flags.indeterminate
                       \/ status = "unevaluable"
                       \/ status = "unsatisfied" /\ ~hard]

(* One turn of the aggregation loop over the two flags.                    *)
Aggregate(flags, check, output) ==
    LET status == CheckStatus(check, output)
        hard == check.failure_behavior \in {None, "FAIL"} IN
    [hard_fail |-> flags.hard_fail \/ (status = "unsatisfied" /\ hard),
     indeterminate |-> \/ flags.indeterminate
                       \/ status = "unevaluable"
                       \/ status = "unsatisfied" /\ ~hard]

(* The two flags after the loop has aggregated the first n checks.         *)
FlagsAfter(checks, output) ==
    LET flags[n \in 0 .. Len(checks)] ==
            IF n = 0 THEN [hard_fail |-> FALSE, indeterminate |-> FALSE]
            ELSE Aggregate(flags[n - 1], checks[n], output)
    IN  flags

EvaluateSpec(spec, output) ==
    LET flags == FlagsAfter(spec.checks, output)[Len(spec.checks)]
    IN  IF flags.hard_fail THEN "FAIL"
        ELSE IF flags.indeterminate THEN "INDETERMINATE"
        ELSE "PASS"

DefaultIntent(result) ==
    CASE result = "PASS" -> "should release"
      [] result = "FAIL" -> "should withhold"
      [] OTHER           -> "manual_review"

(* A policy value that is a JSON array or object cannot key the inverted   *)
(* policy: building it raises TypeError.                                   *)
PolicyRaises(policy) ==
    policy # None /\ Unhashable \in {policy.release_on, policy.withhold_on, policy.manual_review_on}

(* Mutant: of several intents naming one result, the first written wins.   *)
ReleaseIntentFirstWins(result, policy) ==
    IF policy = None THEN DefaultIntent(result)
    ELSE IF policy.release_on = result THEN "should release"
    ELSE IF policy.withhold_on = result THEN "should withhold"
    ELSE IF policy.manual_review_on = result THEN "manual_review"
    ELSE DefaultIntent(result)

(* The inverted policy is built key by key: of several intents naming one  *)
(* result the last written wins.                                           *)
ReleaseIntent(result, policy) ==
    IF policy = None THEN DefaultIntent(result)
    ELSE IF policy.manual_review_on = result THEN "manual_review"
    ELSE IF policy.withhold_on = result THEN "should withhold"
    ELSE IF policy.release_on = result THEN "should release"
    ELSE DefaultIntent(result)
=============================================================================
