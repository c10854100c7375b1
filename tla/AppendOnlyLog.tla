----------------------------- MODULE AppendOnlyLog -----------------------------
(***************************************************************************)
(* What the other modules take a JSONL ledger to be: a sequence of records *)
(* that only ever grows at its end.  log is what a reader has been given.  *)
(***************************************************************************)
EXTENDS Naturals, Sequences

VARIABLE log

Init == log = <<>>

Extends(longer, shorter) ==
    /\ Len(shorter) =< Len(longer)
    /\ SubSeq(longer, 1, Len(shorter)) = shorter

Next == Extends(log', log)

Spec == Init /\ [][Next]_log
=============================================================================
