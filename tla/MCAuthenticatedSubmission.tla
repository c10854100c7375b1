---------------------- MODULE MCAuthenticatedSubmission ----------------------
(* Instances of AuthenticatedSubmission for TLC.  Skew is the unit of time. *)
EXTENDS AuthenticatedSubmission, TLC

CONSTANTS p, q, n1, route, other, w1, w2

MCWorkers == {w1, w2}
MCSymmetry == Permutations(MCWorkers)

Entry(status, until) ==
    [status |-> status, valid_from |-> 1, valid_until |-> until,
     allowed_routes |-> {route}, allowed_submission_types |-> {"evidence"},
     allowed_subject_namespaces |-> {[kind |-> "Tree", name |-> <<"agent", "acme">>]}]

(* The document in force first, and the one that suspends producer p.      *)
Current == p :> Entry("active", None)
Revised == p :> Entry("suspended", None)

MCRegistries == {Current, Revised}

Envelope(ts, offset, registry) ==
    [producer |-> p, nonce |-> n1, ts |-> ts, offset |-> offset,
     registry |-> registry, genuine |-> TRUE, route |-> route,
     submission_type |-> "evidence", subject |-> <<"agent", "acme", "bot">>]

(* Three envelopes that reuse one nonce: the row of the first expires      *)
(* before the second is acceptable, and never before the third, written    *)
(* one unit behind UTC, has stopped being so.  The fourth names the        *)
(* document that suspends its producer.                                    *)
MCEnvelopes ==
    {Envelope(1, 1, Current), Envelope(7, 0, Current), Envelope(2, -1, Current),
     Envelope(2, 0, Revised)}

(* One producer that stamps in local time, five units behind UTC.          *)
BehindUTC == {Envelope(1, -5, Current)}
=============================================================================
