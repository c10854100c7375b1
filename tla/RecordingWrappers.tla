-------------------------- MODULE RecordingWrappers --------------------------
(***************************************************************************)
(* SAR-402 Path A and Path B.  The service records receipts it is sent     *)
(* (sar402_receipts.py, write_receipt); an operator runs a script, in a    *)
(* process of its own, that wraps one recorded receipt in a signed         *)
(* envelope and appends it to a second ledger; the service and the         *)
(* correlation view verify the stored wrapper when they are asked for it.  *)
(*                                                                         *)
(* A signature is the key that made it.  A fresh recording event stands    *)
(* for the uuid and the three timestamps of a wrapper: two builds are      *)
(* never byte-equal.  Schema and authority validation of a receipt is left *)
(* out: a rejected receipt changes nothing.                                *)
(***************************************************************************)
EXTENDS Naturals, Sequences, FiniteSets

CONSTANTS
    None,
    ReceiptIds,     \* sha256 ids; a SAR-402 receipt's is its own digest
    Bodies,         \* what a receipt says besides its id
    Operators,      \* running copies of the script
    LegacyKey, RecordingKey,    \* the key pairs of kid -1 and kid -2
    ExpectedKeys,   \* values of PATH_B_RECORDING_PUBLIC_KEY_HEX
    Events,         \* recording events a build may draw
    MaxReceipts, MaxRestarts    \* bounds on Path A records and on restarts

ASSUME KeyAssumption == None \notin {LegacyKey, RecordingKey}

ASSUME WrapperBounds == MaxReceipts \in Nat /\ MaxRestarts \in Nat

LegacyKid == "-1"
OverlayKid == "-2"
Kids == {LegacyKid, OverlayKid}
Keys == {LegacyKey, RecordingKey}

VARIABLES
    receipts,   \* attest_receipts_master.jsonl
    wrappers,   \* attest_recording_wrappers_master.jsonl
    env,        \* the service's public keys, fixed until it restarts
    operator,   \* per operator, the run of the script
    drawn,      \* recording events used
    contended,  \* history: receipts two runs found without a wrapper at once
    restarts

vars == <<receipts, wrappers, env, operator, drawn, contended, restarts>>

Receipts == [id : ReceiptIds, digest : ReceiptIds \cup {None},
             mentions : SUBSET ReceiptIds, body : Bodies]

LatestAt(ledger, hits) ==
    IF hits = {} THEN None ELSE ledger[CHOOSE i \in hits : \A j \in hits : j <= i]

(* find_receipt and find_inner_receipt: the last record that has the id    *)
(* under any receipt_id key, at any depth.                                 *)
FindReceipt(id) ==
    LatestAt(receipts, {i \in DOMAIN receipts : id = receipts[i].id \/ id \in receipts[i].mentions})

(* Mutant: a wrapper is found by any id its receipt mentions.              *)
GetWrapperMentioning(id) ==
    LatestAt(wrappers, {i \in DOMAIN wrappers : id = wrappers[i].id \/ id \in wrappers[i].receipt.mentions})

(* get_recording_wrapper.                                                  *)
GetWrapper(id) == LatestAt(wrappers, {i \in DOMAIN wrappers : wrappers[i].id = id})

-----------------------------------------------------------------------------
(* build_recording_wrapper adopts the inner receipt's own id, and raises   *)
(* when the receipt has no digest or its id is another.                    *)
Wrappable(receipt) == receipt.digest = receipt.id

WrapperOver(receipt, kid, key, event) ==
    [id |-> receipt.id, digest |-> receipt.digest, kid |-> kid, key |-> key,
     event |-> event, receipt |-> receipt]

(* verify_recording_wrapper.                                               *)
Verifies(wrapper, key) ==
    /\ wrapper.key = key
    /\ wrapper.id = wrapper.receipt.id
    /\ wrapper.digest = wrapper.receipt.digest

(* Mutant: the derived public key is not compared.                         *)
CoherentKidOnly(kid, seed, expected) == kid = OverlayKid

(* load_and_check and startup_coherence_gate: the kid is the pinned one    *)
(* and the seed's public key is the configured one.                        *)
Coherent(kid, seed, expected) == kid = OverlayKid /\ seed = expected

-----------------------------------------------------------------------------
(* Mutant: the overlay key, when set, serves every kid.                    *)
VerifyKeyOverlayFirst(wrapper) == IF env.overlay # None THEN env.overlay ELSE env.base

(* GET /v1/sar-402/recording: the overlay key serves kid -2 when set, the  *)
(* base key everything else.                                               *)
VerifyKey(wrapper) ==
    IF wrapper.kid = OverlayKid /\ env.overlay # None THEN env.overlay ELSE env.base

RecordingStatus(id) ==
    LET wrapper == GetWrapper(id) IN
    CASE wrapper = None -> 404
      [] wrapper # None /\ env.base = None -> 503
      [] wrapper # None /\ env.base # None /\ Verifies(wrapper, VerifyKey(wrapper)) -> 200
      [] OTHER -> 500

(* _recording_wrapper_view of the correlation view.                        *)
CorrelationStatus(id) ==
    LET wrapper == GetWrapper(id) IN
    CASE wrapper = None -> "absent"
      [] wrapper # None /\ env.base = None -> "key_unavailable"
      [] wrapper # None /\ env.base # None /\ Verifies(wrapper, env.base) -> "present_verified"
      [] OTHER -> "present_unverifiable"

-----------------------------------------------------------------------------
Idle == [phase |-> "idle"]

Sar402Receipt(id, mentions, body) == [id |-> id, digest |-> id, mentions |-> mentions, body |-> body]

Environments == [base : Keys \cup {None}, overlay : {RecordingKey, None}]

(* A receipt may have been wrapped before the rotation to kid -2.          *)
Init ==
    /\ \/ receipts = <<>> /\ wrappers = <<>> /\ drawn = {}
       \/ \E id \in ReceiptIds, body \in Bodies, event \in Events :
            LET receipt == Sar402Receipt(id, {}, body) IN
            /\ receipts = <<receipt>>
            /\ wrappers = <<WrapperOver(receipt, LegacyKid, LegacyKey, event)>>
            /\ drawn = {event}
    /\ env \in Environments
    /\ operator = [o \in Operators |-> Idle]
    /\ contended = {}
    /\ restarts = 0

(* write_receipt, for a SAR-402 receipt POSTed to /v1/sar-402/receipts or  *)
(* for a receipt without a digest from the attestation surface.            *)
RecordReceipt(receipt) ==
    /\ Len(receipts) < MaxReceipts
    /\ receipts' = Append(receipts, receipt)
    /\ UNCHANGED <<wrappers, env, operator, drawn, contended, restarts>>

Ingest(id, mentions, body) == RecordReceipt(Sar402Receipt(id, mentions, body))

RecordOther(id, mentions, body) ==
    RecordReceipt([id |-> id, digest |-> None, mentions |-> mentions, body |-> body])

(* The receipts whose wrapper the given runs are about to append.          *)
Appending(runs) == {operator[o].wrapper.id : o \in {o \in runs : operator[o].phase = "appending"}}

Become(o, state) ==
    /\ operator' = [operator EXCEPT ![o] = state]
    /\ contended' = contended \cup
            IF state.phase = "appending" THEN {state.wrapper.id} \cap Appending(Operators \ {o}) ELSE {}
    /\ UNCHANGED <<receipts, env, restarts>>

(* The script up to its build: credential lane, gate, receipt, wrapper.    *)
Build(o, asked, kid, seed, expected, event) ==
    /\ operator[o].phase = "idle"
    /\ Coherent(kid, seed, expected)
    /\ FindReceipt(asked) # None
    /\ Wrappable(FindReceipt(asked))
    /\ event \notin drawn
    /\ drawn' = drawn \cup {event}
    /\ Become(o, [phase |-> "built", wrapper |-> WrapperOver(FindReceipt(asked), kid, seed, event)])
    /\ UNCHANGED wrappers

(* --dry-run, and every refusal or kill on the way: nothing is stored.     *)
Stop(o) ==
    /\ operator[o].phase # "idle"
    /\ Become(o, Idle)
    /\ UNCHANGED <<wrappers, drawn>>

(* Mutant: the script appends without asking the store.                    *)
CheckNothing(o) ==
    /\ operator[o].phase = "built"
    /\ Become(o, [operator[o] EXCEPT !.phase = "appending"])
    /\ UNCHANGED <<wrappers, drawn>>

(* store_recording_wrapper reads the ledger without a lock.  A wrapper that *)
(* is there ends the run: a conflict, or no write when it is the same one. *)
CheckStore(o) ==
    /\ operator[o].phase = "built"
    /\ Become(o, IF GetWrapper(operator[o].wrapper.id) = None
                 THEN [operator[o] EXCEPT !.phase = "appending"]
                 ELSE Idle)
    /\ UNCHANGED <<wrappers, drawn>>

AppendWrapper(o) ==
    /\ operator[o].phase = "appending"
    /\ wrappers' = Append(wrappers, operator[o].wrapper)
    /\ Become(o, Idle)
    /\ UNCHANGED drawn

(* The service restarts with another verifier configuration.               *)
Configure(new) ==
    /\ restarts < MaxRestarts
    /\ new # env
    /\ env' = new
    /\ restarts' = restarts + 1
    /\ UNCHANGED <<receipts, wrappers, operator, drawn, contended>>

Next ==
    \/ \E id \in ReceiptIds, mentions \in SUBSET ReceiptIds, body \in Bodies :
        Ingest(id, mentions, body) \/ RecordOther(id, mentions, body)
    \/ \E o \in Operators :
        \/ \E asked \in ReceiptIds, kid \in Kids, seed \in Keys, expected \in ExpectedKeys,
              event \in Events : Build(o, asked, kid, seed, expected, event)
        \/ Stop(o) \/ CheckStore(o) \/ AppendWrapper(o)
    \/ \E new \in Environments : Configure(new)

Spec == Init /\ [][Next]_vars

-----------------------------------------------------------------------------
Wrappers == [id : ReceiptIds, digest : ReceiptIds, kid : Kids, key : Keys,
             event : Events, receipt : Receipts]

OperatorStates ==
    {Idle} \cup [phase : {"built", "appending"}, wrapper : Wrappers]

(* The ledgers, the configuration and the script's runs have the shapes    *)
(* the code gives them.                                                    *)
TypeOK ==
    /\ receipts \in Seq(Receipts)
    /\ wrappers \in Seq(Wrappers)
    /\ env \in Environments
    /\ operator \in [Operators -> OperatorStates]
    /\ drawn \subseteq Events
    /\ contended \subseteq ReceiptIds
    /\ restarts \in 0..MaxRestarts

(* Under the overlap configuration of the rotation, base -1 and overlay    *)
(* -2, no stored wrapper is reported as a data-integrity fault: the gate   *)
(* that signs and the kid rule that verifies agree, for wrappers from      *)
(* before and after the rotation.                                          *)
RotatedVerifierServesAll ==
    env = [base |-> LegacyKey, overlay |-> RecordingKey] =>
        \A id \in ReceiptIds : RecordingStatus(id) \in {200, 404}

(* A wrapper served as valid is over a receipt that Path A really recorded *)
(* under the id asked for.                                                 *)
ServedWrapperHasReceipt ==
    \A id \in ReceiptIds : RecordingStatus(id) = 200 =>
        \E i \in DOMAIN receipts : /\ receipts[i] = GetWrapper(id).receipt
                                   /\ receipts[i].id = id
                                   /\ receipts[i].digest = GetWrapper(id).digest

(* The correlation view never calls verified what the endpoint would not   *)
(* serve.  It calls verified all that the endpoint serves, "through the    *)
(* SAME verified-wrapper path the live endpoint uses", but for the         *)
(* wrappers that path gives the overlay key (chain_correlation.py).        *)
CorrelationNeverOverclaims ==
    \A id \in ReceiptIds :
        /\ CorrelationStatus(id) = "present_verified" => RecordingStatus(id) = 200
        /\ RecordingStatus(id) = 200 /\ CorrelationStatus(id) # "present_verified" =>
                GetWrapper(id).kid = OverlayKid /\ env.overlay # None

(* Per receipt the wrapper ledger is a write-once store, unless two runs of *)
(* the script were between its check and its append at once                *)
(* (sar402_recording_store.py).                                            *)
StoredWrapper == [id \in ReceiptIds |-> GetWrapper(id)]
Register == INSTANCE WriteOnce WITH Keys <- ReceiptIds, Empty <- None, value <- StoredWrapper
WrappersWriteOnce == [][Register!Next]_<<StoredWrapper, contended>>
=============================================================================
