------------------------------- MODULE UrlSummary -------------------------------
(***************************************************************************)
(* POST /pay/url-summary (pay_url_summary.py, x402_live.py): deliver a     *)
(* summary, have an x402 facilitator verify and settle the payment, hand   *)
(* the evidence to the SAR-402 layer, answer with its receipt.  The fetch  *)
(* of the caller's URL and each call to the facilitator is a step; it may  *)
(* be refused, garbled or time out, and a settlement that timed out may    *)
(* still happen.  The service keeps no record of a payment.                *)
(*                                                                         *)
(* The facilitator settles a payment at most once (its authorization is    *)
(* spent) and verifies no spent one.  A transaction is named by its        *)
(* payment.  The SAR-402 layer (morpheus) accepts or refuses evidence.     *)
(***************************************************************************)
EXTENDS ThreadPool, Sequences

CONSTANTS
    None,
    Payments,       \* x402 payloads clients hold
    ClaimedPayer,   \* the payer each payload names
    ConfiguredPayer,    \* X402_PAYER_ADDRESS
    OtherPayer,
    Requests        \* the requests clients may send

Demo == "x402_demo"
Live == "x402_live"

Payers == {ConfiguredPayer, OtherPayer, None}

RequestShape ==
    [source : {"text", "url", None}, payment_mode : {Demo, Live, "other", None},
     mode : {"record", "gate", "other"}, controller : BOOLEAN, payment : Payments \cup {None}]

ASSUME PaymentAssumption ==
    /\ None \notin Payments \cup {Demo, Live}
    /\ ClaimedPayer \in [Payments -> Payers]
    /\ Requests \subseteq RequestShape

VARIABLES
    env,            \* X402_MODE and the state of the live configuration
    settled,        \* payments the facilitator has settled
    inflight,       \* settlements whose caller has given up waiting
    receipts,       \* history: the receipts answered
    unresolved      \* history: payments whose request ended without a receipt
                    \* after it asked for settlement

payVars == <<env, settled, inflight, receipts, unresolved>>

Environments == [mode : {Demo, Live}, live : {"complete", "partial", "garbled"}]

PayInit ==
    /\ env \in Environments
    /\ settled = {}
    /\ inflight = {}
    /\ receipts = <<>>
    /\ unresolved = {}

-----------------------------------------------------------------------------
(* _resolve_mode: request override, then environment.                      *)
EffectiveMode(req) == IF req.payment_mode = None THEN env.mode ELSE req.payment_mode

(* build_delivery_object and load_x402_config, then the payload check of   *)
(* build_evidence_for_mode: the errors answered before the facilitator is  *)
(* asked.  A number that does not parse is an exception of its own (500).  *)
Refused(req) ==
    \/ req.source = None                                            \* 422
    \/ EffectiveMode(req) \notin {Demo, Live}                       \* 400
    \/ env.live = "garbled"                                         \* 500
    \/ EffectiveMode(req) = Live /\ env.live = "partial"            \* 400
    \/ EffectiveMode(req) = Live /\ req.payment = None              \* 422

Run(phase, req, evidence, tx) == [phase |-> phase, req |-> req, evidence |-> evidence, tx |-> tx]

(* assemble_evidence_doc: gate mode needs a controller.  The document then *)
(* goes to run_evidence_doc.                                               *)
Assembles(req) == req.mode = "gate" => req.controller

(* The thread's next state once the evidence is in hand.                   *)
Assembled(req, evidence, tx) ==
    IF Assembles(req) THEN Run("ingesting", req, evidence, tx) ELSE Idle

FirstWait(req) ==
    IF EffectiveMode(req) = Demo THEN Assembled(req, Demo, None)
    ELSE Run("verifying", req, Live, None)

(* The thread's next state once the summary is delivered.                  *)
Delivered(req) == IF Refused(req) THEN Idle ELSE FirstWait(req)

(* run_url_summary up to its first call out, or its refusal.  Whatever     *)
(* else is asked for, a URL is fetched first.                              *)
PostUrlSummary(t, req) ==
    /\ Accept(t, IF req.source = "url" THEN [phase |-> "fetching", req |-> req] ELSE Delivered(req))
    /\ UNCHANGED payVars

(* The caller's URL answers.  The timeout is one of each read: who answers *)
(* a byte at a time keeps the thread as long as it likes.                  *)
Fetched(t) ==
    /\ thread[t].phase = "fetching"
    /\ Continue(t, Delivered(thread[t].req))
    /\ UNCHANGED payVars

(* It cannot be fetched: 502.                                              *)
FetchFails(t) ==
    /\ thread[t].phase = "fetching"
    /\ Finish(t)
    /\ UNCHANGED payVars

(* A payer the facilitator does not report is taken from the payload.      *)
PayerMatches(payment, reported) ==
    LET verified == IF reported = None THEN ClaimedPayer[payment] ELSE reported
    IN  verified \in {None, ConfiguredPayer}

(* Mutant: gate mode settles as well.                                      *)
SettlesAlways(req) == TRUE

Settles(req) == req.mode = "record"

(* Mutant: a payment that is not verified falls back to demo evidence.     *)
VerifyFallsBack(t) ==
    LET req == thread[t].req IN
    /\ thread[t].phase = "verifying"
    /\ Continue(t, IF req.payment \notin settled /\ Settles(req)
                   THEN Run("settling", req, Live, None)
                   ELSE Assembled(req, Demo, None))
    /\ UNCHANGED payVars

(* verify_and_settle up to the settlement: the payment is valid and of the *)
(* configured payer, or it is refused (402), or the call fails (500).      *)
VerifyReplies(t) ==
    LET req == thread[t].req IN
    /\ thread[t].phase = "verifying"
    /\ \/ /\ req.payment \notin settled
          /\ \E reported \in Payers : PayerMatches(req.payment, reported)
          /\ Continue(t, IF Settles(req) THEN Run("settling", req, Live, None)
                                          ELSE Assembled(req, Live, None))
       \/ Finish(t)
    /\ UNCHANGED payVars

(* The facilitator settles the payment of a caller that is waiting.        *)
FacilitatorSettles(t) ==
    LET req == thread[t].req IN
    /\ thread[t].phase = "settling"
    /\ req.payment \notin settled
    /\ settled' = settled \cup {req.payment}
    /\ Continue(t, Run("settled", req, Live, req.payment))
    /\ UNCHANGED <<env, inflight, receipts, unresolved>>

(* Mutant: a settlement without a transaction reference is accepted.       *)
SettleAccepted(t) ==
    /\ thread[t].phase \in {"settling", "settled"}
    /\ Continue(t, Assembled(thread[t].req, Live, thread[t].req.payment))
    /\ UNCHANGED payVars

(* success with a transaction reference.                                   *)
SettleReplies(t) ==
    LET req == thread[t].req IN
    /\ thread[t].phase = "settled"
    /\ Continue(t, Assembled(req, Live, thread[t].tx))
    /\ UNCHANGED payVars

(* No success, no transaction reference or an error status (402), or the   *)
(* call times out (500): the request ends, whatever the facilitator did or *)
(* is about to do.                                                         *)
SettleFails(t) ==
    LET payment == thread[t].req.payment IN
    /\ thread[t].phase \in {"settling", "settled"}
    /\ Finish(t)
    /\ inflight' \in IF thread[t].phase = "settling" THEN {inflight, inflight \cup {payment}} ELSE {inflight}
    /\ unresolved' = unresolved \cup {payment}
    /\ UNCHANGED <<env, settled, receipts>>

(* A settlement whose caller has gone takes effect, or is dropped.         *)
LateSettlement(payment) ==
    /\ payment \in inflight
    /\ inflight' = inflight \ {payment}
    /\ settled' \in {settled, settled \cup {payment}}
    /\ UNCHANGED <<thread, accepted, env, receipts, unresolved>>

(* run_evidence_doc builds a receipt (200)...                              *)
Ingested(t) ==
    /\ thread[t].phase = "ingesting"
    /\ Finish(t)
    /\ receipts' = Append(receipts, [req |-> thread[t].req, evidence |-> thread[t].evidence, tx |-> thread[t].tx])
    /\ UNCHANGED <<env, settled, inflight, unresolved>>

(* ... or refuses the evidence (422) or fails (500).                       *)
IngestFails(t) ==
    /\ thread[t].phase = "ingesting"
    /\ Finish(t)
    /\ unresolved' = unresolved \cup ({thread[t].tx} \ {None})
    /\ UNCHANGED <<env, settled, inflight, receipts>>

PayStep(t) ==
    \/ Fetched(t) \/ FetchFails(t)
    \/ VerifyReplies(t) \/ SettleReplies(t) \/ SettleFails(t)
    \/ Ingested(t) \/ IngestFails(t)

PayNext ==
    \/ \E t \in Threads :
        \/ \E req \in Requests : PostUrlSummary(t, req)
        \/ PayStep(t)
        \/ FacilitatorSettles(t)
    \/ \E payment \in Payments : LateSettlement(payment)

-----------------------------------------------------------------------------
PayPhases ==
    {Idle} \cup [phase : {"fetching"}, req : Requests] \cup
    [phase : {"verifying", "settling", "settled", "ingesting"}, req : Requests,
     evidence : {Demo, Live}, tx : Payments \cup {None}]

PayTypeOK ==
    /\ env \in Environments
    /\ settled \subseteq Payments
    /\ inflight \subseteq Payments
    /\ receipts \in Seq([req : Requests, evidence : {Demo, Live}, tx : Payments \cup {None}])
    /\ unresolved \subseteq Payments

(* A receipt with live evidence was asked for with a payment; in record    *)
(* mode it names a transaction that settled exactly that payment.  Who     *)
(* asked for live evidence never gets demo evidence, and demo evidence     *)
(* never names a transaction (x402_live.py, honesty rule).                 *)
LiveReceiptsAreSettled ==
    \A i \in DOMAIN receipts :
        LET r == receipts[i] IN
        IF r.evidence = Live
        THEN /\ r.req.payment # None
             /\ r.req.mode = "record" => r.tx = r.req.payment /\ r.tx \in settled
        ELSE r.req.payment_mode # Live /\ r.tx = None

(* A settled payment backs at most one receipt, however many requests had  *)
(* it verified before the first settled it (verify_and_settle).            *)
OneReceiptPerSettlement ==
    \A i, j \in DOMAIN receipts : receipts[i].tx = receipts[j].tx /\ receipts[i].tx # None => i = j

InProgress == {thread[t].tx : t \in {t \in Threads : thread[t].phase \in {"settled", "ingesting"}}}

(* Whoever is charged gets a receipt or is still being served, unless the  *)
(* facilitator's answer was lost or the SAR-402 layer refused the evidence *)
(* after it: no refusal of the service's own, delivery failure or missing  *)
(* controller, comes after the charge, and gate mode charges nobody        *)
(* (run_url_summary).                                                      *)
ChargedIsServed ==
    \A payment \in settled :
        \/ \E i \in DOMAIN receipts : receipts[i].tx = payment
        \/ payment \in InProgress
        \/ payment \in unresolved
=============================================================================
