------------------------------ MODULE WriteOnce ------------------------------
(***************************************************************************)
(* What a check-then-append store promises: per key one value, absent at   *)
(* first, then written once and served unchanged for ever after, except    *)
(* for a key that two writers contended for: both may have found it empty, *)
(* and the later write replaces what is served.                            *)
(***************************************************************************)
CONSTANTS Keys, Empty

VARIABLES value, contended

Init ==
    /\ value = [k \in Keys |-> Empty]
    /\ contended = {}

Write(k) ==
    /\ value[k] = Empty \/ k \in contended
    /\ \A other \in Keys \ {k} : value'[other] = value[other]
    /\ DOMAIN value' = Keys
    /\ UNCHANGED contended

Contend(k) ==
    /\ contended' = contended \cup {k}
    /\ UNCHANGED value

Next == \E k \in Keys : Write(k) \/ Contend(k)

Spec == Init /\ [][Next]_<<value, contended>>
=============================================================================
