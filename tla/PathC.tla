-------------------------------- MODULE PathC --------------------------------
(***************************************************************************)
(* Hosted Path C: commit an action (Step 1), evaluate a submitted output   *)
(* against the committed spec (Step 2A), issue a signed Continuity         *)
(* Evaluation Receipt (Step 2B).  attest_service.py holds the handlers;    *)
(* action_commitment_store.py, deterministic_evaluation_store.py and       *)
(* continuity_evaluation_receipts.py each keep one append-only ledger.     *)
(*                                                                         *)
(* Handlers run in a thread pool.  A worker interleaves with the others at *)
(* every ledger read and every append; the file lock of an append covers   *)
(* the append alone, not the read that decided on it.  A record here has   *)
(* passed validation: records that fail it are answered 422 and change     *)
(* nothing.                                                                *)
(***************************************************************************)
EXTENDS DeterministicEvaluator

CONSTANTS
    Workers,        \* threads of the pool
    Commitments,    \* valid Action Commitment records clients may send
    Outputs,        \* outputs clients may submit for evaluation
    Instants        \* values evaluated_at may take

Refs == {c.ref : c \in Commitments}

(* The digest chain body -> request -> action_ref was recomputed on the    *)
(* record, so records with one action_ref have one request body.  Top-level *)
(* fields outside the chain (extra) may differ.                            *)
ASSUME ChainAssumption ==
    \A c, d \in Commitments : c.ref = d.ref => c.profile = d.profile

(* A committed acceptance_spec holds an array of checks, or no array.      *)
ASSUME SpecAssumption ==
    \A c \in Commitments : c.profile # None /\ c.profile.spec # None =>
        c.profile.spec.checks = None \/ c.profile.spec.checks \in Seq(Range(c.profile.spec.checks))

ASSUME WorkersAssumption == IsFiniteSet(Workers)

ASSUME NoneAssumption ==
    /\ None \notin Commitments /\ None \notin Refs
    /\ None \notin {"SpecError", "TypeError"} \cup
            {"MISSING_CONDITIONAL_RELEASE_PROFILE", "MISSING_ACCEPTANCE_SPEC", "INVALID_ACCEPTANCE_SPEC"}

VARIABLES
    ledger,         \* per store, the sequence of records appended
    worker,         \* per worker: its phase and what it has read
    configured,     \* the signing key and evaluator id are configured
    contended       \* history: keys two workers found free at one time

vars == <<ledger, worker, configured, contended>>

Stores == {"commitments", "evaluations", "receipts"}

Idle(reply) == [phase |-> "idle", reply |-> reply]

(* get_*: the most recent matching record is returned.                     *)
Latest(log, ref) ==
    LET matching == {i \in 1 .. Len(log) : log[i].ref = ref}
    IN  IF matching = {} THEN None ELSE log[CHOOSE i \in matching : \A j \in matching : j =< i]

-----------------------------------------------------------------------------
(* The record Step 2A builds from a committed action and an output.        *)

AcceptanceSpec(c) == IF c.profile = None THEN None ELSE c.profile.spec

BoundaryReason(c) ==
    IF c.profile = None THEN "MISSING_CONDITIONAL_RELEASE_PROFILE"
    ELSE IF c.profile.spec = None THEN "MISSING_ACCEPTANCE_SPEC"
    ELSE IF SpecError(c.profile.spec) # None THEN "INVALID_ACCEPTANCE_SPEC"
    ELSE None

(* release_policy is only read once an acceptance_spec object was found.   *)
ReleasePolicy(c) == IF AcceptanceSpec(c) = None THEN None ELSE c.profile.policy

EvaluationOf(c, output) ==
    LET reason == BoundaryReason(c)
        result == IF reason # None THEN "INDETERMINATE" ELSE EvaluateSpec(c.profile.spec, output)
    IN  [ref |-> c.ref, output |-> output, result |-> result, reason |-> reason,
         intent |-> ReleaseIntent(result, ReleasePolicy(c))]

(* An exception other than the spec error leaves the handler: 500.         *)
EvaluationRaises(c) ==
    /\ AcceptanceSpec(c) # None
    /\ \/ SpecError(c.profile.spec) = "TypeError"
       \/ PolicyRaises(c.profile.policy)

(* Mutant: a FAIL is signed as INDETERMINATE.                              *)
ReceiptSoftensFail(evaluation, instant) ==
    [ref |-> evaluation.ref, reason |-> evaluation.reason, at |-> instant,
     state |-> IF evaluation.result = "PASS" THEN "PASS" ELSE "INDETERMINATE"]

ReceiptFor(evaluation, instant) ==
    [ref |-> evaluation.ref, state |-> evaluation.result, reason |-> evaluation.reason,
     at |-> instant]

-----------------------------------------------------------------------------
Init ==
    /\ ledger = [s \in Stores |-> <<>>]
    /\ worker = [w \in Workers |-> Idle(None)]
    /\ configured \in BOOLEAN
    /\ contended = {}

Key(append) == <<append.store, append.record.ref>>

(* The keys that the given workers found free and have yet to append.      *)
Appending(workers) == {Key(worker[v]) : v \in {v \in workers : worker[v].phase = "append"}}

Become(w, state) ==
    /\ worker' = [worker EXCEPT ![w] = state]
    /\ contended' = contended \cup
            IF state.phase = "append" THEN {Key(state)} \cap Appending(Workers \ {w}) ELSE {}
    /\ UNCHANGED <<ledger, configured>>

(* Mutant: the store appends without looking for an existing record.       *)
StoreUnchecked(w, store, record) == Become(w, [phase |-> "append", store |-> store, record |-> record])

(* store_*: read the ledger, then append, answer idempotently, or refuse.  *)
Store(w, store, record) ==
    LET existing == Latest(ledger[store], record.ref) IN
    Become(w, IF existing = None THEN [phase |-> "append", store |-> store, record |-> record]
              ELSE IF existing = record THEN Idle(200)
              ELSE Idle(409))

AppendRecord(w) ==
    /\ worker[w].phase = "append"
    /\ ledger' = [ledger EXCEPT ![worker[w].store] = Append(@, worker[w].record)]
    /\ worker' = [worker EXCEPT ![w] = Idle(200)]
    /\ UNCHANGED <<configured, contended>>

(* The append raises OSError: 500, and the key is free for a retry.        *)
AppendFails(w) ==
    /\ worker[w].phase = "append"
    /\ Become(w, Idle(500))

PostCommitment(w, c) ==
    /\ worker[w].phase = "idle"
    /\ Store(w, "commitments", c)

(* Mutant: the output evaluated may be another request's than the one      *)
(* recorded.                                                               *)
PostEvaluateMixesOutputs(w, ref, output) ==
    LET c == Latest(ledger["commitments"], ref) IN
    /\ worker[w].phase = "idle"
    /\ c # None
    /\ ~EvaluationRaises(c)
    /\ \E other \in Outputs :
        Become(w, [phase |-> "evaluated", record |-> [EvaluationOf(c, other) EXCEPT !.output = output]])

PostEvaluate(w, ref, output) ==
    LET c == Latest(ledger["commitments"], ref) IN
    /\ worker[w].phase = "idle"
    /\ Become(w, IF c = None THEN Idle(404)
                 ELSE IF EvaluationRaises(c) THEN Idle(500)
                 ELSE [phase |-> "evaluated", record |-> EvaluationOf(c, output)])

StoreEvaluation(w) ==
    /\ worker[w].phase = "evaluated"
    /\ Store(w, "evaluations", worker[w].record)

(* Mutant: no 404 when nothing has been evaluated.                         *)
PostReceiptUnchecked(w, ref) ==
    /\ worker[w].phase = "idle"
    /\ Become(w, [phase |-> "found", evaluation |-> Latest(ledger["evaluations"], ref)])

PostReceipt(w, ref) ==
    LET evaluation == Latest(ledger["evaluations"], ref) IN
    /\ worker[w].phase = "idle"
    /\ Become(w, IF evaluation = None
                 THEN Idle(404)
                 ELSE [phase |-> "found", evaluation |-> evaluation])

(* An existing receipt is returned as it is; otherwise one is signed over  *)
(* the evaluation read before, at a fresh instant, and verified.           *)
SignReceipt(w) ==
    LET evaluation == worker[w].evaluation IN
    /\ worker[w].phase = "found"
    /\ IF Latest(ledger["receipts"], evaluation.ref) # None
       THEN Become(w, Idle(200))
       ELSE IF ~configured
       THEN Become(w, Idle(503))
       ELSE \E instant \in Instants :
                Become(w, [phase |-> "signed", record |-> ReceiptFor(evaluation, instant)])

StoreReceipt(w) ==
    /\ worker[w].phase = "signed"
    /\ Store(w, "receipts", worker[w].record)

(* The process dies and systemd starts it again, perhaps with another      *)
(* environment: requests are lost, ledgers are not.                        *)
Restart ==
    /\ worker' = [w \in Workers |-> Idle(None)]
    /\ configured' \in BOOLEAN
    /\ UNCHANGED <<ledger, contended>>

Step(w) ==
    \/ \E c \in Commitments : PostCommitment(w, c)
    \/ \E ref \in Refs, output \in Outputs : PostEvaluate(w, ref, output)
    \/ StoreEvaluation(w)
    \/ \E ref \in Refs : PostReceipt(w, ref)
    \/ SignReceipt(w)
    \/ StoreReceipt(w)
    \/ AppendRecord(w)
    \/ AppendFails(w)

Next ==
    \/ \E w \in Workers : Step(w)
    \/ Restart

Spec == Init /\ [][Next]_vars

-----------------------------------------------------------------------------
Evaluations == {EvaluationOf(c, output) : c \in Commitments, output \in Outputs}

Receipts == {ReceiptFor(e, instant) : e \in Evaluations, instant \in Instants}

ASSUME RecordAssumption == None \notin Evaluations \cup Receipts

RecordsOf == [s \in Stores |-> CASE s = "commitments" -> Commitments
                                 [] s = "evaluations" -> Evaluations
                                 [] OTHER             -> Receipts]

Replies == {None, 200, 404, 409, 500, 503}

Phases ==
    {Idle(reply) : reply \in Replies}
    \cup [phase : {"evaluated"}, record : Evaluations]
    \cup [phase : {"found"}, evaluation : Evaluations]
    \cup [phase : {"signed"}, record : Receipts]
    \cup UNION {[phase : {"append"}, store : {s}, record : RecordsOf[s]] : s \in Stores}

(* Every ledger holds records of its own kind, and every request in        *)
(* progress carries one its phase allows.                                  *)
TypeOK ==
    /\ DOMAIN ledger = Stores
    /\ \A s \in Stores : ledger[s] \in Seq(RecordsOf[s])
    /\ worker \in [Workers -> Phases]
    /\ configured \in BOOLEAN
    /\ contended \subseteq Stores \X Refs

Stored(s) == {ledger[s][i] : i \in 1 .. Len(ledger[s])}

(* Spec substitution is impossible: every stored evaluation is the verdict *)
(* of the acceptance spec committed under its action_ref on the output it  *)
(* records, whoever raced whom (post_evaluate_deterministic).              *)
SpecBinding ==
    \A e \in Stored("evaluations") :
        /\ \E c \in Stored("commitments") : c.ref = e.ref
        /\ \A c \in Commitments : c.ref = e.ref => e = EvaluationOf(c, e.output)

(* A signed receipt states the result and reason of an evaluation stored   *)
(* under its action_ref before it (post_continuity_evaluation_receipt).    *)
ReceiptBacked ==
    \A r \in Stored("receipts") :
        \E e \in Stored("evaluations") : r.ref = e.ref /\ r.state = e.result /\ r.reason = e.reason

(* The unlocked gap between read and append lets at most one record per    *)
(* worker through for one action_ref: it closes with the first append.     *)
RaceIsBounded ==
    \A s \in Stores, ref \in Refs :
        Cardinality({i \in 1 .. Len(ledger[s]) : ledger[s][i].ref = ref}) =< Cardinality(Workers)

(* One signed receipt per action_ref, never overwritten                    *)
(* (continuity_evaluation_receipts.py, store_continuity_evaluation_receipt).*)
OneReceiptPerRef ==
    \A r, q \in Stored("receipts") : r.ref = q.ref => r = q

(* The receipt a client reads states the result of the evaluation a client *)
(* reads for the same action_ref, unless two evaluations of it contended.  *)
ServedReceiptAgrees ==
    \A ref \in Refs :
        LET e == Latest(ledger["evaluations"], ref)
            r == Latest(ledger["receipts"], ref)
        IN  r # None /\ <<"evaluations", ref>> \notin contended =>
                e # None /\ r.state = e.result /\ r.reason = e.reason

(* Each store refines a write-once register per action_ref: what a client  *)
(* reads under an action_ref never changes once it is there, and the only  *)
(* way it can is two workers between their check and their append at once. *)
Register(s) == [ref \in Refs |-> Latest(ledger[s], ref)]

Contended(s) == {ref \in Refs : <<s, ref>> \in contended}

CommitmentRegister == INSTANCE WriteOnce WITH
    Keys <- Refs, Empty <- None, value <- Register("commitments"), contended <- Contended("commitments")
EvaluationRegister == INSTANCE WriteOnce WITH
    Keys <- Refs, Empty <- None, value <- Register("evaluations"), contended <- Contended("evaluations")
ReceiptRegister == INSTANCE WriteOnce WITH
    Keys <- Refs, Empty <- None, value <- Register("receipts"), contended <- Contended("receipts")

(* All three ledgers are write-once per action_ref, each on its own        *)
(* (action_commitment_store.py, deterministic_evaluation_store.py,         *)
(* continuity_evaluation_receipts.py).                                     *)
StoresWriteOnce ==
    /\ CommitmentRegister!Spec
    /\ EvaluationRegister!Spec
    /\ ReceiptRegister!Spec
=============================================================================
