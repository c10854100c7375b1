-------------------------- MODULE MCEvaluatorInputs --------------------------
EXTENDS EvaluatorInputs, TLC

Status == Path(<<"status">>)
Body   == Path(<<"body">>)
Code   == Path(<<"body", "code">>)

Ok == [str |-> "ok"]
Http(n) == [num |-> n]
Object(fields) == [object |-> fields]
Empty == Object([key \in {} |-> Null])

MCFields == {<<"status">>, <<"body">>, <<"body", "code">>}

(* Objects with a status, a body or both, the body of some an object in    *)
(* its turn, and an output that is no object.                              *)
MCBodies == {Null, Ok, Empty, Object("code" :> Http(200)), Object("code" :> Http(404))}

MCAnswers ==
    {Object("status" :> Http(n) @@ "body" :> b) : n \in {200, 404}, b \in MCBodies}
    \cup {Object("body" :> b) : b \in MCBodies} \cup {Empty, Ok}

Check(kind, path, expected, behavior) ==
    [kind |-> kind, path |-> path, expected |-> expected,
     failure_behavior |-> behavior, external_refs |-> {}]

Below(n) == [op |-> "<", value |-> [num |-> n]]

(* One check of every kind that a path can satisfy, one of the kind that   *)
(* never is, and the malformed variants the evaluator calls unevaluable.   *)
MCChecks ==
    {Check("field_present", Code, Null, None),
     Check("field_equals", Body, Ok, "INDETERMINATE"),
     Check("field_equals", Body, Empty, None),
     Check("field_equals", Code, Http(200), "FAIL"),
     Check("http_status_equals", Status, Http(200), "FAIL"),
     Check("numeric_threshold", Code, Below(300), None),
     Check("numeric_threshold", Body, Ok, "FAIL"),
     Check("numeric_threshold", Status, [op |-> "!=", value |-> Http(404)], "FAIL"),
     Check("hash_equals", Body, [digest |-> Ok], "FAIL"),
     Check("hash_equals", NoPath, [digest |-> Object("body" :> Ok)], "FAIL"),
     Check("hash_equals", Code, Ok, None),
     Check("content_type_equals", NotAPath, Ok, "FAIL"),
     Check("field_present", BadPath, Null, "INDETERMINATE"),
     Check("field_present", Path(<<>>), Null, "FAIL"),
     Check("json_schema", NoPath, Null, "FAIL")}

Policy(release, withhold, review) ==
    [release_on |-> release, withhold_on |-> withhold, manual_review_on |-> review]

MCPolicies ==
    {None} \cup {Policy(r, w, m) : r \in Results \cup {None},
                                   w \in Results \cup {None}, m \in {"PASS", "INDETERMINATE", None}}
=============================================================================
