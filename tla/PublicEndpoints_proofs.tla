------------------------ MODULE PublicEndpoints_proofs ------------------------
(***************************************************************************)
(* What a receipt of /pay/url-summary is worth, for any number of threads, *)
(* payments, requests and restarts.  The strengthening follows one request *)
(* from its acceptance: which evidence it may assemble, that its           *)
(* transaction is the payment it came with, and that nobody else has it.   *)
(* Then the rate limiter: what its lists of hits hold, and what a client   *)
(* that overlaps itself can lose.  Last, the types.                        *)
(***************************************************************************)
EXTENDS PublicEndpoints, SequenceTheorems, FiniteSetTheorems, TLAPS

(* The run has, or may have, a transaction.                                *)
Holds(run, payment) == run.phase \in {"settled", "ingesting"} /\ run.tx = payment

(* What the document of a run or a receipt says, whoever asked for it.     *)
Honest(req, evidence, tx) ==
    IF evidence = Live
    THEN /\ req.payment \in Payments
         /\ req.mode = "record" => tx = req.payment
         /\ tx \in Payments \cup {None}
    ELSE evidence = Demo /\ req.payment_mode # Live /\ tx = None

SoundRun(run) ==
    run.phase \in {"fetching", "verifying", "settling", "settled", "ingesting"} =>
        /\ run.req \in Requests
        /\ run.phase \in {"verifying", "settling", "settled"} => run.evidence = Live /\ run.req.payment \in Payments
        /\ run.phase \in {"settling", "settled"} => run.req.mode = "record"
        /\ run.phase = "settled" => run.tx = run.req.payment
        /\ run.phase = "ingesting" => Honest(run.req, run.evidence, run.tx)

SoundReceipt(r) == r.req \in Requests /\ Honest(r.req, r.evidence, r.tx)

HeldOnce ==
    \A t \in Threads : \A payment \in Payments : Holds(thread[t], payment) =>
        /\ payment \in settled
        /\ \A u \in Threads : Holds(thread[u], payment) => u = t
        /\ \A i \in 1 .. Len(receipts) : receipts[i].tx # payment

ReceiptsSettled ==
    \A i \in 1 .. Len(receipts) :
        /\ SoundReceipt(receipts[i])
        /\ receipts[i].tx \in settled \cup {None}
        /\ \A j \in 1 .. Len(receipts) : receipts[i].tx = receipts[j].tx /\ receipts[i].tx # None => i = j

Accounted ==
    \A payment \in settled :
        \/ \E i \in 1 .. Len(receipts) : receipts[i].tx = payment
        \/ \E t \in Threads : Holds(thread[t], payment)
        \/ payment \in unresolved

Records == [req : Requests, evidence : {Demo, Live}, tx : Payments \cup {None}]

IInv ==
    /\ thread = [t \in Threads |-> thread[t]]
    /\ env \in Environments
    /\ settled \subseteq Payments
    /\ receipts \in Seq(Records)
    /\ inflight \subseteq Payments /\ inflight \subseteq unresolved
    /\ \A t \in Threads : SoundRun(thread[t])
    /\ HeldOnce
    /\ ReceiptsSettled
    /\ Accounted

-----------------------------------------------------------------------------
LEMMA InitIInv == Init => IInv
<1> SUFFICES ASSUME Init PROVE IInv
  OBVIOUS
<1>1. /\ thread = [t \in Threads |-> Idle] /\ env \in Environments
      /\ settled = {} /\ inflight = {} /\ receipts = <<>> /\ unresolved = {}
  BY DEF Init, PoolInit, PayInit
<1>2. \A t \in Threads : SoundRun(thread[t]) /\ \A payment : ~Holds(thread[t], payment)
  BY <1>1 DEF SoundRun, Holds, Idle
<1>3. receipts \in Seq(Records) /\ \A i \in 1 .. Len(receipts) : FALSE
  BY <1>1, EmptySeq
<1> QED
  BY <1>1, <1>2, <1>3 DEF IInv, HeldOnce, ReceiptsSettled, Accounted

(* A thread goes on, holding what it held, and nothing else is changed     *)
(* but the rate limiter.                                                   *)
LEMMA ThreadStep ==
    ASSUME IInv, NEW t \in Threads, NEW x, thread' = [thread EXCEPT ![t] = x], UNCHANGED payVars,
           SoundRun(x), \A payment \in Payments : Holds(x, payment) <=> Holds(thread[t], payment)
    PROVE  IInv'
<1>1. /\ thread' = [u \in Threads |-> thread'[u]]
      /\ thread'[t] = x
      /\ \A u \in Threads : u # t => thread'[u] = thread[u]
  BY DEF IInv
<1>2. /\ env' = env /\ settled' = settled /\ inflight' = inflight
      /\ receipts' = receipts /\ unresolved' = unresolved
  BY DEF payVars
<1>3. \A u \in Threads : SoundRun(thread'[u])
  BY <1>1 DEF IInv
<1>4. \A u \in Threads : \A payment \in Payments : Holds(thread'[u], payment) <=> Holds(thread[u], payment)
  BY <1>1
<1>5. (\A u \in Threads : SoundRun(thread[u]))'
  BY <1>3 DEF SoundRun, Honest
<1>6. HeldOnce'
  <2>1. \A u \in Threads : \A payment \in Payments : Holds(thread'[u], payment) =>
            /\ payment \in settled
            /\ \A v \in Threads : Holds(thread'[v], payment) => v = u
            /\ \A i \in 1 .. Len(receipts) : receipts[i].tx # payment
    BY <1>4 DEF IInv, HeldOnce
  <2> QED
    BY <1>2, <2>1 DEF HeldOnce, Holds
<1>7. ReceiptsSettled'
  BY <1>2 DEF IInv, ReceiptsSettled, SoundReceipt, Honest
<1>8. Accounted'
  <2>1. \A payment \in settled :
            \/ \E i \in 1 .. Len(receipts) : receipts[i].tx = payment
            \/ \E u \in Threads : Holds(thread'[u], payment)
            \/ payment \in unresolved
    BY <1>4 DEF IInv, Accounted
  <2> QED
    BY <1>2, <2>1 DEF Accounted, Holds
<1> QED
  BY <1>1, <1>2, <1>5, <1>6, <1>7, <1>8 DEF IInv

(* A run that has no transaction takes the place of one that had none.     *)
LEMMA QuietStep ==
    ASSUME IInv, NEW t \in Threads, NEW x, thread' = [thread EXCEPT ![t] = x], UNCHANGED payVars,
           SoundRun(x), thread[t].phase \notin {"settled", "ingesting"},
           x.phase \notin {"settled", "ingesting"} \/ x.tx = None
    PROVE  IInv'
<1>1. \A payment \in Payments : ~Holds(x, payment) /\ ~Holds(thread[t], payment)
  BY PaymentAssumption DEF Holds
<1> QED
  BY <1>1, ThreadStep

LEMMA IdleRun == SoundRun(Idle) /\ Idle.phase = "idle"
BY DEF SoundRun, Idle

LEMMA RunFields ==
    ASSUME NEW phase, NEW req, NEW evidence, NEW tx
    PROVE  /\ Run(phase, req, evidence, tx).phase = phase
           /\ Run(phase, req, evidence, tx).req = req
           /\ Run(phase, req, evidence, tx).evidence = evidence
           /\ Run(phase, req, evidence, tx).tx = tx
BY DEF Run

(* What is assembled is honest, if its evidence is.                        *)
LEMMA AssembledRun ==
    ASSUME NEW req \in Requests, NEW evidence, NEW tx, Honest(req, evidence, tx)
    PROVE  /\ SoundRun(Assembled(req, evidence, tx))
           /\ \/ Assembled(req, evidence, tx).phase = "idle" /\ req.mode # "record"
              \/ /\ Assembled(req, evidence, tx).phase = "ingesting"
                 /\ Assembled(req, evidence, tx).tx = tx
<1>1. CASE Assembles(req)
  BY <1>1, RunFields DEF Assembled, SoundRun
<1>2. CASE ~Assembles(req)
  <2>1. req.mode = "gate"
    BY <1>2 DEF Assembles
  <2> QED
    BY <1>2, <2>1, IdleRun DEF Assembled
<1> QED
  BY <1>1, <1>2

-----------------------------------------------------------------------------
(* What a request goes on to once its summary is delivered.                *)
LEMMA DeliveredRun ==
    ASSUME NEW req \in Requests
    PROVE  /\ SoundRun(Delivered(req))
           /\ Delivered(req).phase \notin {"settled", "ingesting"} \/ Delivered(req).tx = None
<1>1. CASE Refused(req)
  BY <1>1, IdleRun DEF Delivered
<1>2. CASE ~Refused(req)
  <2>1. PICK x : x = FirstWait(req)
    OBVIOUS
  <2>2. EffectiveMode(req) \in {Demo, Live} /\ (EffectiveMode(req) = Live => req.payment # None)
    BY <1>2 DEF Refused
  <2>3. CASE EffectiveMode(req) = Demo
    <3>1. x = Assembled(req, Demo, None)
      BY <2>1, <2>3 DEF FirstWait
    <3>2. Honest(req, Demo, None)
      BY <2>3, PaymentAssumption DEF Honest, EffectiveMode, Demo, Live
    <3>3. SoundRun(x) /\ (x.phase \notin {"settled", "ingesting"} \/ x.tx = None)
      BY <3>1, <3>2, AssembledRun
    <3> QED
      BY <1>2, <2>1, <3>3 DEF Delivered
  <2>4. CASE EffectiveMode(req) = Live
    <3>1. x = Run("verifying", req, Live, None)
      BY <2>1, <2>4 DEF FirstWait, Demo, Live
    <3>2. req.payment \in Payments
      BY <2>2, <2>4, PaymentAssumption DEF RequestShape
    <3>3. SoundRun(x) /\ x.tx = None
      BY <3>1, <3>2, RunFields DEF SoundRun
    <3> QED
      BY <1>2, <2>1, <3>3 DEF Delivered
  <2> QED
    BY <2>2, <2>3, <2>4
<1> QED
  BY <1>1, <1>2

LEMMA PostStep ==
    ASSUME IInv, NEW t \in Threads, NEW req \in Requests, PostUrlSummary(t, req)
    PROVE  IInv'
<1>1. thread[t].phase = "idle" /\ UNCHANGED payVars
  BY DEF PostUrlSummary, Accept, Idle
<1>2. PICK fetching : fetching = [phase |-> "fetching", req |-> req]
  OBVIOUS
<1>3. SoundRun(fetching) /\ fetching.phase = "fetching"
  BY <1>2 DEF SoundRun
<1>4. \/ thread' = [thread EXCEPT ![t] = fetching]
      \/ thread' = [thread EXCEPT ![t] = Delivered(req)]
  BY <1>2 DEF PostUrlSummary, Accept
<1> QED
  BY <1>1, <1>3, <1>4, DeliveredRun, QuietStep

LEMMA FetchStep ==
    ASSUME IInv, NEW t \in Threads, Fetched(t) \/ FetchFails(t)
    PROVE  IInv'
<1>1. thread[t].phase = "fetching" /\ UNCHANGED payVars /\ thread[t].req \in Requests
  BY DEF Fetched, FetchFails, IInv, SoundRun
<1>2. \/ thread' = [thread EXCEPT ![t] = Idle]
      \/ thread' = [thread EXCEPT ![t] = Delivered(thread[t].req)]
  BY DEF Fetched, FetchFails, Finish, Continue
<1> QED
  BY <1>1, <1>2, IdleRun, DeliveredRun, QuietStep

LEMMA VerifyStep ==
    ASSUME IInv, NEW t \in Threads, VerifyReplies(t)
    PROVE  IInv'
<1> DEFINE req == thread[t].req
<1>1. /\ thread[t].phase = "verifying" /\ UNCHANGED payVars
      /\ req \in Requests /\ req.payment \in Payments
  BY DEF VerifyReplies, IInv, SoundRun
<1>2. PICK x : /\ thread' = [thread EXCEPT ![t] = x]
               /\ \/ x = IF Settles(req) THEN Run("settling", req, Live, None) ELSE Assembled(req, Live, None)
                  \/ x = Idle
  BY DEF VerifyReplies, Continue, Finish
<1>3. CASE x = Idle
  BY <1>1, <1>2, <1>3, IdleRun, QuietStep
<1>4. CASE Settles(req) /\ x = Run("settling", req, Live, None)
  <2>1. SoundRun(x) /\ x.tx = None
    BY <1>1, <1>4, RunFields DEF SoundRun, Settles
  <2> QED
    BY <1>1, <1>2, <2>1, QuietStep
<1>5. CASE ~Settles(req) /\ x = Assembled(req, Live, None)
  <2>1. Honest(req, Live, None)
    BY <1>1, <1>5 DEF Honest, Settles
  <2>2. SoundRun(x) /\ (x.phase \notin {"settled", "ingesting"} \/ x.tx = None)
    BY <1>1, <1>5, <2>1, AssembledRun
  <2> QED
    BY <1>1, <1>2, <2>2, QuietStep
<1> QED
  BY <1>2, <1>3, <1>4, <1>5

(* The answer to a settlement: record mode always assembles.               *)
LEMMA SettleStep ==
    ASSUME IInv, NEW t \in Threads, SettleReplies(t)
    PROVE  IInv'
<1> DEFINE req == thread[t].req
           tx == thread[t].tx
<1>1. /\ thread[t].phase = "settled" /\ UNCHANGED payVars
      /\ req \in Requests /\ req.payment \in Payments /\ req.mode = "record" /\ tx = req.payment
  BY DEF SettleReplies, IInv, SoundRun
<1>2. PICK x : x = Assembled(req, Live, tx)
  OBVIOUS
<1>3. thread' = [thread EXCEPT ![t] = x]
  BY <1>2 DEF SettleReplies, Continue
<1>4. Honest(req, Live, tx)
  BY <1>1 DEF Honest
<1>5. SoundRun(x) /\ x.phase = "ingesting" /\ x.tx = tx
  BY <1>1, <1>2, <1>4, AssembledRun
<1>6. \A payment \in Payments : Holds(x, payment) <=> Holds(thread[t], payment)
  BY <1>1, <1>5 DEF Holds
<1> QED
  BY <1>1, <1>3, <1>5, <1>6, ThreadStep

(* The facilitator settles a payment it has not settled: nobody holds it,  *)
(* and no receipt names it.                                                *)
LEMMA FacilitatorStep ==
    ASSUME IInv, NEW t \in Threads, FacilitatorSettles(t)
    PROVE  IInv'
<1> DEFINE req == thread[t].req
<1>1. /\ thread[t].phase = "settling" /\ req \in Requests
      /\ req.payment \in Payments /\ req.mode = "record"
  BY DEF FacilitatorSettles, IInv, SoundRun
<1>2. PICK paid : paid = req.payment
  OBVIOUS
<1>3. PICK x : x = Run("settled", req, Live, paid)
  OBVIOUS
<1>4. /\ paid \in Payments /\ paid \notin settled /\ settled' = settled \cup {paid}
      /\ thread' = [thread EXCEPT ![t] = x]
      /\ env' = env /\ inflight' = inflight /\ receipts' = receipts /\ unresolved' = unresolved
  BY <1>1, <1>2, <1>3 DEF FacilitatorSettles, Continue
<1>5. /\ thread' = [u \in Threads |-> thread'[u]]
      /\ thread'[t] = x
      /\ \A u \in Threads : u # t => thread'[u] = thread[u]
  BY <1>4 DEF IInv
<1>6. SoundRun(x) /\ \A payment : Holds(x, payment) <=> payment = paid
  BY <1>1, <1>2, <1>3, RunFields DEF SoundRun, Holds
<1>7. \A u \in Threads : \A payment \in Payments :
        Holds(thread'[u], payment) <=> Holds(thread[u], payment) \/ (u = t /\ payment = paid)
  BY <1>1, <1>5, <1>6 DEF Holds
<1>8. (\A u \in Threads : SoundRun(thread[u]))'
  <2>1. \A u \in Threads : SoundRun(thread'[u])
    BY <1>5, <1>6 DEF IInv
  <2> QED
    BY <2>1 DEF SoundRun, Honest
<1>9. \A i \in 1 .. Len(receipts) : receipts[i].tx # paid
  BY <1>4, PaymentAssumption DEF IInv, ReceiptsSettled
<1>10. HeldOnce'
  <2>1. \A u \in Threads : \A payment \in Payments : Holds(thread'[u], payment) =>
            /\ payment \in settled'
            /\ \A v \in Threads : Holds(thread'[v], payment) => v = u
            /\ \A i \in 1 .. Len(receipts) : receipts[i].tx # payment
    BY <1>4, <1>7, <1>9 DEF IInv, HeldOnce
  <2> QED
    BY <1>4, <2>1 DEF HeldOnce, Holds
<1>11. ReceiptsSettled'
  BY <1>4 DEF IInv, ReceiptsSettled, SoundReceipt, Honest
<1>12. Accounted'
  <2>1. \A payment \in settled' :
            \/ \E i \in 1 .. Len(receipts) : receipts[i].tx = payment
            \/ \E u \in Threads : Holds(thread'[u], payment)
            \/ payment \in unresolved
    BY <1>4, <1>7 DEF IInv, Accounted
  <2> QED
    BY <1>4, <2>1 DEF Accounted, Holds
<1> QED
  BY <1>4, <1>5, <1>8, <1>10, <1>11, <1>12 DEF IInv

(* A request ends without a receipt: what it held stays unresolved.        *)
LEMMA GiveUpStep ==
    ASSUME IInv, NEW t \in Threads, thread' = [thread EXCEPT ![t] = Idle],
           env' = env, settled' = settled, receipts' = receipts,
           inflight' \subseteq Payments, inflight' \subseteq unresolved',
           unresolved \subseteq unresolved',
           \A payment \in Payments : Holds(thread[t], payment) => payment \in unresolved'
    PROVE  IInv'
<1>1. /\ thread' = [u \in Threads |-> thread'[u]]
      /\ thread'[t] = Idle
      /\ \A u \in Threads : u # t => thread'[u] = thread[u]
  BY DEF IInv
<1>2. \A u \in Threads : \A payment \in Payments :
        Holds(thread'[u], payment) <=> u # t /\ Holds(thread[u], payment)
  BY <1>1, IdleRun DEF Holds
<1>3. (\A u \in Threads : SoundRun(thread[u]))'
  <2>1. \A u \in Threads : SoundRun(thread'[u])
    BY <1>1, IdleRun DEF IInv
  <2> QED
    BY <2>1 DEF SoundRun, Honest
<1>4. HeldOnce'
  <2>1. \A u \in Threads : \A payment \in Payments : Holds(thread'[u], payment) =>
            /\ payment \in settled
            /\ \A v \in Threads : Holds(thread'[v], payment) => v = u
            /\ \A i \in 1 .. Len(receipts) : receipts[i].tx # payment
    BY <1>2 DEF IInv, HeldOnce
  <2> QED
    BY <2>1 DEF HeldOnce, Holds
<1>5. ReceiptsSettled'
  BY DEF IInv, ReceiptsSettled, SoundReceipt, Honest
<1>6. Accounted'
  <2>1. \A payment \in settled :
            \/ \E i \in 1 .. Len(receipts) : receipts[i].tx = payment
            \/ \E u \in Threads : Holds(thread'[u], payment)
            \/ payment \in unresolved'
    BY <1>2 DEF IInv, Accounted
  <2> QED
    BY <2>1 DEF Accounted, Holds
<1> QED
  BY <1>1, <1>3, <1>4, <1>5, <1>6 DEF IInv

LEMMA SettleFailsStep ==
    ASSUME IInv, NEW t \in Threads, SettleFails(t)
    PROVE  IInv'
<1> DEFINE payment == thread[t].req.payment
<1>1. /\ thread[t].phase \in {"settling", "settled"} /\ payment \in Payments
      /\ thread[t].phase = "settled" => thread[t].tx = payment
  BY DEF SettleFails, IInv, SoundRun
<1>2. /\ thread' = [thread EXCEPT ![t] = Idle]
      /\ env' = env /\ settled' = settled /\ receipts' = receipts
      /\ unresolved' = unresolved \cup {payment}
      /\ inflight' \in {inflight, inflight \cup {payment}}
  BY DEF SettleFails, Finish, Continue
<1>3. inflight' \subseteq Payments /\ inflight' \subseteq unresolved' /\ unresolved \subseteq unresolved'
  BY <1>1, <1>2 DEF IInv
<1>4. \A p \in Payments : Holds(thread[t], p) => p \in unresolved'
  BY <1>1, <1>2 DEF Holds
<1> QED
  BY <1>2, <1>3, <1>4, GiveUpStep

LEMMA IngestFailsStep ==
    ASSUME IInv, NEW t \in Threads, IngestFails(t)
    PROVE  IInv'
<1>1. /\ thread' = [thread EXCEPT ![t] = Idle]
      /\ env' = env /\ settled' = settled /\ inflight' = inflight /\ receipts' = receipts
      /\ unresolved' = unresolved \cup ({thread[t].tx} \ {None})
  BY DEF IngestFails, Finish, Continue
<1>2. \A p \in Payments : Holds(thread[t], p) => p \in unresolved'
  BY <1>1, PaymentAssumption DEF Holds
<1>3. inflight' \subseteq Payments /\ inflight' \subseteq unresolved' /\ unresolved \subseteq unresolved'
  BY <1>1 DEF IInv
<1> QED
  BY <1>1, <1>2, <1>3, GiveUpStep

LEMMA LateStep ==
    ASSUME IInv, NEW paid \in Payments, LateSettlement(paid)
    PROVE  IInv'
<1>1. /\ thread' = thread /\ env' = env /\ receipts' = receipts /\ unresolved' = unresolved
      /\ paid \in inflight /\ inflight' = inflight \ {paid}
      /\ settled' \in {settled, settled \cup {paid}}
  BY DEF LateSettlement
<1>2. paid \in unresolved
  BY <1>1 DEF IInv
<1>3. HeldOnce'
  BY <1>1 DEF IInv, HeldOnce, Holds
<1>4. ReceiptsSettled'
  BY <1>1 DEF IInv, ReceiptsSettled, SoundReceipt, Honest
<1>5. Accounted'
  BY <1>1, <1>2 DEF IInv, Accounted, Holds
<1> QED
  BY <1>1, <1>3, <1>4, <1>5 DEF IInv, SoundRun, Honest

(* The receipt names what the run held, and now the receipt holds it.      *)
LEMMA IngestedStep ==
    ASSUME IInv, NEW t \in Threads, Ingested(t)
    PROVE  IInv'
<1>1. PICK r : r = [req |-> thread[t].req, evidence |-> thread[t].evidence, tx |-> thread[t].tx]
  OBVIOUS
<1>2. /\ thread[t].phase = "ingesting" /\ thread' = [thread EXCEPT ![t] = Idle]
      /\ receipts' = Append(receipts, r)
      /\ env' = env /\ settled' = settled /\ inflight' = inflight /\ unresolved' = unresolved
  BY <1>1 DEF Ingested, Finish, Continue
<1>3. SoundReceipt(r)
  BY <1>1, <1>2 DEF IInv, SoundRun, SoundReceipt
<1>4. r \in Records
  BY <1>1, <1>3 DEF SoundReceipt, Honest, Records
<1>5. \A payment \in Payments : Holds(thread[t], payment) <=> payment = r.tx
  BY <1>1, <1>2 DEF Holds
<1>6. r.tx \in Payments => r.tx \in settled /\ \A i \in 1 .. Len(receipts) : receipts[i].tx # r.tx
  BY <1>5 DEF IInv, HeldOnce
<1>7. r.tx \in Payments \cup {None}
  BY <1>4 DEF Records
<1>8. /\ thread' = [u \in Threads |-> thread'[u]]
      /\ thread'[t] = Idle
      /\ \A u \in Threads : u # t => thread'[u] = thread[u]
  BY <1>2 DEF IInv
<1>9. \A u \in Threads : \A payment \in Payments :
        Holds(thread'[u], payment) <=> u # t /\ Holds(thread[u], payment)
  BY <1>8, IdleRun DEF Holds
<1>10. /\ receipts' \in Seq(Records)
       /\ Len(receipts) \in Nat /\ Len(receipts') = Len(receipts) + 1
       /\ \A i \in 1 .. Len(receipts) : receipts'[i] = receipts[i]
       /\ receipts'[Len(receipts) + 1] = r
  BY <1>2, <1>4, LenProperties, AppendProperties DEF IInv
<1>11. /\ \A i \in 1 .. Len(receipts') : i \in 1 .. Len(receipts) \/ i = Len(receipts) + 1
       /\ \A i \in 1 .. Len(receipts) : i \in 1 .. Len(receipts') /\ i # Len(receipts) + 1
       /\ Len(receipts) + 1 \in 1 .. Len(receipts')
  BY <1>10
<1>12. (\A u \in Threads : SoundRun(thread[u]))'
  <2>1. \A u \in Threads : SoundRun(thread'[u])
    BY <1>8, IdleRun DEF IInv
  <2> QED
    BY <2>1 DEF SoundRun, Honest
<1>13. HeldOnce'
  <2>1. ASSUME NEW u \in Threads, NEW payment \in Payments, Holds(thread'[u], payment)
        PROVE  /\ payment \in settled
               /\ \A v \in Threads : Holds(thread'[v], payment) => v = u
               /\ \A i \in 1 .. Len(receipts') : receipts'[i].tx # payment
    <3>1. u # t /\ Holds(thread[u], payment)
      BY <1>9, <2>1
    <3>2. /\ payment \in settled
          /\ \A v \in Threads : Holds(thread[v], payment) => v = u
          /\ \A i \in 1 .. Len(receipts) : receipts[i].tx # payment
      BY <3>1 DEF IInv, HeldOnce
    <3>3. payment # r.tx
      BY <1>5, <3>1, <3>2
    <3> QED
      BY <1>9, <1>10, <1>11, <3>2, <3>3
  <2> QED
    BY <1>2, <2>1 DEF HeldOnce, Holds
<1>14. ReceiptsSettled'
  <2>1. \A i \in 1 .. Len(receipts') : SoundReceipt(receipts'[i]) /\ receipts'[i].tx \in settled \cup {None}
    BY <1>3, <1>6, <1>7, <1>10, <1>11 DEF IInv, ReceiptsSettled
  <2>2. \A i, j \in 1 .. Len(receipts') :
            receipts'[i].tx = receipts'[j].tx /\ receipts'[i].tx # None => i = j
    <3>1. \A i \in 1 .. Len(receipts) : receipts'[i].tx # r.tx \/ r.tx = None
      BY <1>6, <1>7, <1>10
    <3> QED
      BY <1>10, <1>11, <3>1 DEF IInv, ReceiptsSettled
  <2> QED
    BY <1>2, <2>1, <2>2 DEF ReceiptsSettled, SoundReceipt, Honest
<1>15. Accounted'
  <2>1. ASSUME NEW payment \in settled
        PROVE  \/ \E i \in 1 .. Len(receipts') : receipts'[i].tx = payment
               \/ \E u \in Threads : Holds(thread'[u], payment)
               \/ payment \in unresolved
    <3>1. payment \in Payments
      BY DEF IInv
    <3>2. CASE payment = r.tx
      BY <1>10, <1>11, <3>2
    <3>3. CASE payment # r.tx
      <4>1. ~Holds(thread[t], payment)
        BY <1>5, <3>1, <3>3
      <4> QED
        BY <1>9, <1>10, <1>11, <3>1, <4>1 DEF IInv, Accounted
    <3> QED
      BY <3>2, <3>3
  <2> QED
    BY <1>2, <2>1 DEF Accounted, Holds
<1> QED
  BY <1>2, <1>8, <1>10, <1>12, <1>13, <1>14, <1>15 DEF IInv

-----------------------------------------------------------------------------
(* The rate limiter moves a thread that serves nobody's payment.           *)
LEMMA DemoStep ==
    ASSUME IInv, DemoNext, UNCHANGED payVars
    PROVE  IInv'
<1>1. ASSUME NEW t \in Threads, NEW x, thread' = [thread EXCEPT ![t] = x],
             thread[t].phase \in {"idle", "limiting", "issuing"},
             x.phase \in {"idle", "limiting", "issuing"}
      PROVE  IInv'
  <2>1. SoundRun(x)
    BY <1>1 DEF SoundRun
  <2> QED
    BY <1>1, <2>1, QuietStep
<1>2. ASSUME NEW t \in Threads, NEW c \in Clients, ReadRate(t, c)
      PROVE  IInv'
  <2>1. PICK x : x.phase = "limiting" /\ thread' = [thread EXCEPT ![t] = x]
    BY <1>2 DEF ReadRate, Accept
  <2>2. thread[t].phase = "idle"
    BY <1>2 DEF ReadRate, Accept, Idle
  <2> QED
    BY <1>1, <2>1, <2>2
<1>3. ASSUME NEW t \in Threads, WriteRate(t)
      PROVE  IInv'
  <2>1. PICK x : x.phase \in {"idle", "issuing"} /\ thread' = [thread EXCEPT ![t] = x]
    BY <1>3, IdleRun DEF WriteRate, Finish, Continue
  <2> QED
    BY <1>1, <1>3, <2>1 DEF WriteRate
<1>4. ASSUME NEW t \in Threads, SarReplies(t)
      PROVE  IInv'
  BY <1>1, <1>4, IdleRun DEF SarReplies, Finish, Continue
<1>5. CASE Tick \/ StepBack
  <2>1. /\ thread' = thread /\ env' = env /\ settled' = settled /\ inflight' = inflight
        /\ receipts' = receipts /\ unresolved' = unresolved
    BY <1>5 DEF Tick, StepBack, payVars
  <2> QED
    BY <2>1 DEF IInv, HeldOnce, ReceiptsSettled, Accounted, SoundRun, SoundReceipt, Honest, Holds
<1> QED
  BY <1>2, <1>3, <1>4, <1>5 DEF DemoNext

LEMMA RestartStep ==
    ASSUME IInv, Restart
    PROVE  IInv'
<1>1. /\ thread' = [t \in Threads |-> Idle] /\ env' \in Environments
      /\ settled' = settled /\ receipts' = receipts
      /\ inflight' = inflight \cup {thread[t].req.payment : t \in Asked}
      /\ unresolved' = unresolved \cup {thread[t].req.payment : t \in Asked} \cup (InProgress \ {None})
  BY DEF Restart
<1>2. \A t \in Asked : thread[t].req.payment \in Payments
  BY DEF Asked, IInv, SoundRun
<1>3. /\ \A t \in Threads : SoundRun(thread'[t])
      /\ \A t \in Threads : \A payment : ~Holds(thread'[t], payment)
  BY <1>1, IdleRun DEF Holds
<1>4. \A t \in Threads : \A payment \in Payments : Holds(thread[t], payment) => payment \in unresolved'
  BY <1>1, PaymentAssumption DEF Holds, InProgress
<1>5. (\A t \in Threads : SoundRun(thread[t]))'
  BY <1>3 DEF SoundRun, Honest
<1>6. HeldOnce'
  BY <1>3 DEF HeldOnce, Holds
<1>7. ReceiptsSettled'
  BY <1>1 DEF IInv, ReceiptsSettled, SoundReceipt, Honest
<1>8. Accounted'
  <2>1. \A payment \in settled :
            (\E i \in 1 .. Len(receipts) : receipts[i].tx = payment) \/ payment \in unresolved'
    BY <1>1, <1>4 DEF IInv, Accounted
  <2> QED
    BY <1>1, <2>1 DEF Accounted
<1> QED
  BY <1>1, <1>2, <1>5, <1>6, <1>7, <1>8 DEF IInv

LEMMA NextIInv == IInv /\ [Next]_vars => IInv'
<1> SUFFICES ASSUME IInv, [Next]_vars PROVE IInv'
  OBVIOUS
<1>1. CASE UNCHANGED vars
  <2>1. /\ thread' = thread /\ env' = env /\ settled' = settled /\ inflight' = inflight
        /\ receipts' = receipts /\ unresolved' = unresolved
    BY <1>1 DEF vars, payVars
  <2> QED
    BY <2>1 DEF IInv, HeldOnce, ReceiptsSettled, Accounted, SoundRun, SoundReceipt, Honest, Holds
<1>2. CASE DemoNext /\ UNCHANGED <<payVars, restarts>>
  BY <1>2, DemoStep
<1>3. CASE PayNext
  <2>1. ASSUME NEW t \in Threads, PayStep(t)
        PROVE  IInv'
    BY <2>1, FetchStep, VerifyStep, SettleStep, SettleFailsStep, IngestedStep, IngestFailsStep DEF PayStep
  <2> QED
    BY <1>3, <2>1, PostStep, FacilitatorStep, LateStep DEF PayNext
<1>4. CASE Restart
  BY <1>4, RestartStep
<1> QED
  BY <1>1, <1>2, <1>3, <1>4 DEF Next

LEMMA Inductive == Spec => []IInv
BY InitIInv, NextIInv, PTL DEF Spec

-----------------------------------------------------------------------------
(* A receipt with live evidence came with a payment and, in record mode,   *)
(* names the transaction that settled it; nobody who asked for live        *)
(* evidence gets demo evidence (x402_live.py, honesty rule).               *)
THEOREM LiveReceiptsHonest == Spec => []LiveReceiptsAreSettled
<1>1. IInv => LiveReceiptsAreSettled
  <2> SUFFICES ASSUME IInv, NEW i \in 1 .. Len(receipts)
               PROVE  IF receipts[i].evidence = Live
                      THEN /\ receipts[i].req.payment # None
                           /\ receipts[i].req.mode = "record" =>
                                receipts[i].tx = receipts[i].req.payment /\ receipts[i].tx \in settled
                      ELSE receipts[i].req.payment_mode # Live /\ receipts[i].tx = None
    BY LenProperties DEF IInv, LiveReceiptsAreSettled
  <2>1. /\ Honest(receipts[i].req, receipts[i].evidence, receipts[i].tx)
        /\ receipts[i].tx \in settled \cup {None}
    BY DEF IInv, ReceiptsSettled, SoundReceipt
  <2> QED
    BY <2>1, PaymentAssumption DEF Honest
<1> QED
  BY <1>1, Inductive, PTL

(* A settled payment backs one receipt, however many requests had it       *)
(* verified before the first of them settled it (verify_and_settle).       *)
THEOREM OneReceiptEach == Spec => []OneReceiptPerSettlement
<1>1. IInv => OneReceiptPerSettlement
  BY LenProperties DEF IInv, ReceiptsSettled, OneReceiptPerSettlement
<1> QED
  BY <1>1, Inductive, PTL

(* Whoever is charged gets a receipt or is being served, unless the        *)
(* facilitator's answer was lost or the SAR-402 layer refused the evidence *)
(* afterwards (run_url_summary).                                           *)
THEOREM NobodyChargedForNothing == Spec => []ChargedIsServed
<1>1. IInv => ChargedIsServed
  <2> SUFFICES ASSUME IInv, NEW payment \in settled
               PROVE  \/ \E i \in DOMAIN receipts : receipts[i].tx = payment
                      \/ payment \in InProgress
                      \/ payment \in unresolved
    BY DEF ChargedIsServed
  <2>1. DOMAIN receipts = 1 .. Len(receipts)
    BY LenProperties DEF IInv
  <2>2. \A t \in Threads : Holds(thread[t], payment) => payment \in InProgress
    BY DEF Holds, InProgress
  <2> QED
    BY <2>1, <2>2 DEF IInv, Accounted
<1> QED
  BY <1>1, Inductive, PTL

-----------------------------------------------------------------------------
(* The rate limiter.  Whatever its threads overwrite, a list of hits never *)
(* holds one that was not let through, except the one that is about to be. *)
(* A client that is in the limiter once at a time loses none within the    *)
(* window between two steps back of the clock: every recent hit of this era *)
(* is in the list, and in the one to be put back.                          *)
InEra(hit) ==
    /\ hit.at \in Nat
    /\ hit.era \in 0 .. stepBacks
    /\ hit.era = stepBacks => hit.at =< clock

SoundHits(c) ==
    /\ IsFiniteSet(admitted[c])
    /\ rateState[c] \subseteq admitted[c]
    /\ \A hit \in admitted[c] : InEra(hit)

PutsBack(run) ==
    /\ run.client \in Clients
    /\ InEra(run.hit)
    /\ IsFiniteSet(run.hits)
    /\ IF run.limited
       THEN /\ run.hits \subseteq admitted[run.client]
            /\ Cardinality(run.hits) >= RateMax
            /\ \A hit \in run.hits : Recent(hit, run.hit.at)
       ELSE /\ run.hits \subseteq admitted[run.client] \cup {run.hit}
            /\ run.hit \in run.hits
            /\ Cardinality(run.hits) =< RateMax

InWindow(hits, era, now) == {hit \in hits : hit.era = era /\ hit.at =< now /\ hit.at + Window >= now}

LimitHolds(hits) ==
    \A era \in Nat : \A now \in 0 .. MaxClock : Cardinality(InWindow(hits, era, now)) =< RateMax

KeepsRecent(run, c) ==
    \A hit \in admitted[c] :
        /\ hit.era =< run.hit.era
        /\ hit.era = run.hit.era /\ Recent(hit, run.hit.at) => hit \in run.hits

AloneClient(c) ==
    /\ \A t, u \in Limiting(c) : t = u
    /\ \A hit \in admitted[c] : hit.era = stepBacks /\ Recent(hit, clock) => hit \in rateState[c]
    /\ \A t \in Limiting(c) : KeepsRecent(thread[t], c)
    /\ LimitHolds(admitted[c])

RateInv ==
    /\ thread = [t \in Threads |-> thread[t]]
    /\ rateState = [c \in Clients |-> rateState[c]]
    /\ admitted = [c \in Clients |-> admitted[c]]
    /\ clock \in Nat /\ stepBacks \in Nat
    /\ \A c \in Clients : SoundHits(c)
    /\ \A t \in Threads : thread[t].phase = "limiting" => PutsBack(thread[t])
    /\ \A c \in Clients \ overlapped : AloneClient(c)

LEMMA InitRateInv == Init => RateInv
<1> SUFFICES ASSUME Init PROVE RateInv
  OBVIOUS
<1>1. /\ thread = [t \in Threads |-> Idle] /\ clock = 0 /\ stepBacks = 0
      /\ rateState = [c \in Clients |-> {}] /\ admitted = [c \in Clients |-> {}]
  BY DEF Init, PoolInit, DemoInit
<1>2. \A t \in Threads : thread[t].phase # "limiting"
  BY <1>1 DEF Idle
<1>3. \A c \in Clients : Limiting(c) = {}
  BY <1>2 DEF Limiting
<1>4. \A c \in Clients : SoundHits(c)
  BY <1>1, FS_EmptySet DEF SoundHits
<1>5. LimitHolds({})
  <2>1. \A era, now : InWindow({}, era, now) = {}
    BY DEF InWindow
  <2> QED
    BY <2>1, FS_EmptySet, RateAssumption DEF LimitHolds
<1>6. \A c \in Clients : AloneClient(c)
  BY <1>1, <1>3, <1>5 DEF AloneClient
<1> QED
  BY <1>1, <1>2, <1>4, <1>6 DEF RateInv

(* A step of a thread that neither is in the limiter nor goes there.       *)
LEMMA RateKept ==
    ASSUME RateInv, NEW t \in Threads, NEW x, thread' = [thread EXCEPT ![t] = x], UNCHANGED demoVars,
           thread[t].phase # "limiting", x.phase # "limiting"
    PROVE  RateInv'
<1>1. /\ clock' = clock /\ stepBacks' = stepBacks
      /\ rateState' = rateState /\ admitted' = admitted /\ overlapped' = overlapped
  BY DEF demoVars
<1>2. \A u \in Threads : thread'[u] = IF u = t THEN x ELSE thread[u]
  BY DEF RateInv
<1>3. thread' = [u \in Threads |-> thread'[u]]
  BY DEF RateInv
<1>4. \A c : Limiting(c)' = Limiting(c)
  BY <1>2 DEF Limiting
<1>5. \A u \in Threads : thread'[u].phase = "limiting" => PutsBack(thread[u])' /\ thread'[u] = thread[u]
  BY <1>1, <1>2 DEF RateInv, PutsBack, InEra
<1>6. \A c \in Clients : SoundHits(c)'
  BY <1>1 DEF RateInv, SoundHits, InEra
<1>7. ASSUME NEW c \in Clients \ overlapped
      PROVE  AloneClient(c)'
  <2>1. \A u \in Limiting(c) : thread'[u] = thread[u]
    BY <1>2 DEF Limiting
  <2>2. AloneClient(c)
    BY DEF RateInv
  <2>3. \A u \in Limiting(c)' : KeepsRecent(thread[u], c)'
    BY <1>1, <1>4, <2>1, <2>2 DEF AloneClient, KeepsRecent
  <2>4. LimitHolds(admitted[c])'
    BY <1>1, <2>2 DEF AloneClient, LimitHolds
  <2> QED
    BY <1>1, <1>4, <2>2, <2>3, <2>4 DEF AloneClient
<1> QED
  BY <1>1, <1>3, <1>5, <1>6, <1>7 DEF RateInv

(* The client's list is read and the one to be put back computed.          *)
LEMMA ReadRateStep ==
    ASSUME RateInv, NEW t \in Threads, NEW c \in Clients, ReadRate(t, c)
    PROVE  RateInv'
<1>a. PICK hits : hits = {hit \in rateState[c] : Recent(hit, clock)}
  OBVIOUS
<1>b. PICK mine : mine = [number |-> hitsTaken, at |-> clock, era |-> stepBacks]
  OBVIOUS
<1>1. PICK x : /\ x = [phase |-> "limiting", client |-> c, hit |-> mine,
                       limited |-> Cardinality(hits) >= RateMax, hits |-> NewHits(hits, mine)]
               /\ thread' = [thread EXCEPT ![t] = x]
  BY <1>a, <1>b DEF ReadRate, Accept
<1>2. /\ x.phase = "limiting" /\ x.client = c /\ x.hit = mine /\ mine.at = clock /\ mine.era = stepBacks
      /\ x.limited = (Cardinality(hits) >= RateMax) /\ x.hits = NewHits(hits, mine)
  BY <1>1, <1>b
<1>3. /\ clock' = clock /\ stepBacks' = stepBacks /\ rateState' = rateState /\ admitted' = admitted
      /\ thread[t].phase = "idle"
      /\ overlapped' = IF Limiting(c) = {} THEN overlapped ELSE overlapped \cup {c}
  BY DEF ReadRate, Accept, Idle
<1>4. SoundHits(c) /\ InEra(mine)
  BY <1>2 DEF RateInv, InEra
<1>5. IsFiniteSet(hits) /\ Cardinality(hits) \in Nat /\ hits \subseteq admitted[c]
  <2>1. hits \subseteq admitted[c] /\ IsFiniteSet(admitted[c])
    BY <1>4, <1>a DEF SoundHits
  <2> QED
    BY <2>1, FS_Subset, FS_CardinalityType
<1>6. IsFiniteSet(hits \cup {mine}) /\ Cardinality(hits \cup {mine}) =< Cardinality(hits) + 1
                                    /\ Cardinality(hits \cup {mine}) \in Nat
  <2>1. Cardinality(hits \cup {mine}) = IF mine \in hits THEN Cardinality(hits) ELSE Cardinality(hits) + 1
    BY <1>5, FS_AddElement
  <2> QED
    BY <1>5, <2>1, FS_AddElement
<1>7. PutsBack(x)
  <2>1. CASE x.limited
    <3>1. x.hits = hits
      BY <1>2, <2>1 DEF NewHits
    <3>2. \A hit \in hits : Recent(hit, x.hit.at)
      BY <1>2, <1>a
    <3>3. x.hits \subseteq admitted[x.client] /\ IsFiniteSet(x.hits) /\ Cardinality(x.hits) >= RateMax
      BY <1>2, <1>5, <2>1, <3>1
    <3> QED
      BY <1>2, <1>4, <2>1, <3>1, <3>2, <3>3 DEF PutsBack
  <2>2. CASE ~x.limited
    <3>1. x.hits = hits \cup {mine} /\ Cardinality(hits) < RateMax
      <4>1. ~(Cardinality(hits) >= RateMax)
        BY <1>2, <2>2
      <4> QED
        BY <1>2, <1>5, <4>1, RateAssumption DEF NewHits
    <3>2. Cardinality(hits \cup {mine}) =< RateMax
      BY <1>5, <1>6, <3>1, RateAssumption
    <3>3. x.hits \subseteq admitted[x.client] \cup {x.hit} /\ x.hit \in x.hits
      BY <1>2, <1>5, <3>1
    <3> QED
      BY <1>2, <1>4, <1>5, <1>6, <2>2, <3>1, <3>2, <3>3 DEF PutsBack
  <2> QED
    BY <2>1, <2>2
<1>8. (c \notin overlapped) => KeepsRecent(x, c)
  <2> SUFFICES ASSUME c \notin overlapped PROVE KeepsRecent(x, c)
    OBVIOUS
  <2>1. \A hit \in admitted[c] : hit.era = stepBacks /\ Recent(hit, clock) => hit \in hits
    BY <1>a DEF RateInv, AloneClient
  <2>2. hits \subseteq x.hits
    BY <1>2 DEF NewHits
  <2>3. \A hit \in admitted[c] : hit.era =< stepBacks
    BY <1>4 DEF SoundHits, InEra
  <2> QED
    BY <1>2, <2>1, <2>2, <2>3 DEF KeepsRecent
<1>9. \A u \in Threads : thread'[u] = IF u = t THEN x ELSE thread[u]
  BY <1>1 DEF RateInv
<1>10. thread' = [u \in Threads |-> thread'[u]]
  BY <1>1 DEF RateInv
<1>11. \A u \in Threads : thread'[u].phase = "limiting" => PutsBack(thread[u])'
  <2>1. \A u \in Threads : thread'[u].phase = "limiting" => PutsBack(thread'[u])
    BY <1>7, <1>9 DEF RateInv
  <2> QED
    BY <1>3, <2>1 DEF PutsBack, InEra
<1>12. \A d \in Clients : SoundHits(d)'
  BY <1>3 DEF RateInv, SoundHits, InEra
<1>13. ASSUME NEW d \in Clients \ overlapped'
       PROVE  AloneClient(d)'
  <2>1. d \notin overlapped /\ AloneClient(d)
    BY <1>3, <1>13 DEF RateInv
  <2>2. Limiting(d)' \subseteq Limiting(d) \cup {t} /\ (t \in Limiting(d)' => d = c)
    BY <1>2, <1>9 DEF Limiting
  <2>3. \A u, v \in Limiting(d)' : u = v
    BY <1>3, <1>13, <2>1, <2>2 DEF AloneClient
  <2>4. \A u \in Limiting(d)' : KeepsRecent(thread'[u], d)
    <3> SUFFICES ASSUME NEW u \in Limiting(d)' PROVE KeepsRecent(thread'[u], d)
      OBVIOUS
    <3>1. u \in Threads
      BY DEF Limiting
    <3>2. CASE u = t
      BY <1>8, <1>9, <2>1, <2>2, <3>1, <3>2
    <3>3. CASE u # t
      BY <1>9, <2>1, <2>2, <3>1, <3>3 DEF AloneClient
    <3> QED
      BY <3>2, <3>3
  <2>5. \A u \in Limiting(d)' : KeepsRecent(thread[u], d)'
    BY <1>3, <2>4 DEF KeepsRecent
  <2>6. LimitHolds(admitted[d])'
    BY <1>3, <2>1 DEF AloneClient, LimitHolds
  <2> QED
    BY <1>3, <2>1, <2>3, <2>5, <2>6 DEF AloneClient
<1> QED
  BY <1>3, <1>10, <1>11, <1>12, <1>13 DEF RateInv

(* A hit that is let through keeps the limit: those in any window that     *)
(* holds it are in the list put back with it.                              *)
LEMMA OneMoreHit ==
    ASSUME NEW hits, NEW kept, NEW hit, IsFiniteSet(kept), Cardinality(kept) =< RateMax,
           \A h \in hits \cup {hit} : h.at \in Nat, hit \in kept, LimitHolds(hits),
           \A h \in hits : h.era = hit.era /\ Recent(h, hit.at) => h \in kept
    PROVE  LimitHolds(hits \cup {hit})
<1> SUFFICES ASSUME NEW era \in Nat, NEW now \in 0 .. MaxClock
             PROVE  Cardinality(InWindow(hits \cup {hit}, era, now)) =< RateMax
  BY DEF LimitHolds
<1>1. CASE era # hit.era \/ now < hit.at
  <2>1. InWindow(hits \cup {hit}, era, now) = InWindow(hits, era, now)
    <3>1. ~(hit.era = era /\ hit.at =< now)
      BY <1>1, RateAssumption
    <3> QED
      BY <3>1 DEF InWindow
  <2> QED
    BY <2>1 DEF LimitHolds
<1>2. CASE era = hit.era /\ now >= hit.at
  <2>1. InWindow(hits \cup {hit}, era, now) \subseteq kept
    <3> SUFFICES ASSUME NEW h \in hits \cup {hit}, h.era = era, h.at + Window >= now PROVE h \in kept
      BY DEF InWindow
    <3>1. h.at \in Nat /\ hit.at \in Nat
      OBVIOUS
    <3>2. h.at + Window >= hit.at
      BY <1>2, <3>1, RateAssumption
    <3> QED
      BY <1>2, <3>2 DEF Recent
  <2>2. PICK w : w = InWindow(hits \cup {hit}, era, now)
    OBVIOUS
  <2>3. Cardinality(w) =< Cardinality(kept) /\ Cardinality(w) \in Nat /\ Cardinality(kept) \in Nat
    BY <2>1, <2>2, FS_Subset, FS_CardinalityType
  <2> QED
    BY <2>2, <2>3, RateAssumption
<1>3. hit.at \in Nat
  OBVIOUS
<1> QED
  BY <1>1, <1>2, <1>3, RateAssumption

(* The list is put back.                                                   *)
LEMMA WriteRateStep ==
    ASSUME RateInv, NEW t \in Threads, WriteRate(t)
    PROVE  RateInv'
<1>1. PICK run : run = thread[t]
  OBVIOUS
<1>2. PICK c : c = run.client
  OBVIOUS
<1>3. PICK x : thread' = [thread EXCEPT ![t] = x] /\ x.phase # "limiting"
  <2>1. PICK issuing : issuing = [phase |-> "issuing"]
    OBVIOUS
  <2>2. \/ thread' = [thread EXCEPT ![t] = Idle]
        \/ thread' = [thread EXCEPT ![t] = issuing]
    BY <2>1 DEF WriteRate, Finish, Continue
  <2>3. issuing.phase # "limiting"
    BY <2>1
  <2> QED
    BY <2>2, <2>3, IdleRun
<1>4. run.phase = "limiting" /\ PutsBack(run) /\ c \in Clients /\ t \in Limiting(c)
  BY <1>1, <1>2 DEF RateInv, WriteRate, PutsBack, Limiting
<1>5. /\ clock' = clock /\ stepBacks' = stepBacks /\ overlapped' = overlapped
      /\ rateState' = [rateState EXCEPT ![c] = run.hits]
      /\ admitted' = IF run.limited THEN admitted ELSE [admitted EXCEPT ![c] = @ \cup {run.hit}]
  BY <1>1, <1>2 DEF WriteRate
<1>6. /\ rateState' = [d \in Clients |-> rateState'[d]]
      /\ admitted' = [d \in Clients |-> admitted'[d]]
      /\ thread' = [u \in Threads |-> thread'[u]]
  BY <1>3, <1>5 DEF RateInv
<1>7. /\ \A d \in Clients : d # c => rateState'[d] = rateState[d] /\ admitted'[d] = admitted[d]
      /\ rateState'[c] = run.hits
      /\ admitted'[c] = IF run.limited THEN admitted[c] ELSE admitted[c] \cup {run.hit}
  BY <1>4, <1>5 DEF RateInv
<1>8. /\ \A d \in Clients : admitted[d] \subseteq admitted'[d]
      /\ \A u \in Threads : u # t => thread'[u] = thread[u]
      /\ thread'[t].phase # "limiting"
  BY <1>3, <1>7 DEF RateInv
<1>9. \A d \in Clients : SoundHits(d)'
  <2> SUFFICES ASSUME NEW d \in Clients PROVE SoundHits(d)'
    OBVIOUS
  <2>1. SoundHits(d) /\ SoundHits(c)
    BY <1>4 DEF RateInv
  <2>2. CASE d # c
    BY <1>5, <1>7, <2>1, <2>2 DEF SoundHits, InEra
  <2>3. CASE d = c
    <3>1. IsFiniteSet(admitted'[c])
      <4>1. PICK a : a = admitted[c] /\ IsFiniteSet(a)
        BY <2>1 DEF SoundHits
      <4>2. IsFiniteSet(a \cup {run.hit})
        BY <4>1, FS_AddElement
      <4> QED
        BY <1>7, <4>1, <4>2
    <3>2. rateState'[c] \subseteq admitted'[c]
      BY <1>4, <1>2, <1>7 DEF PutsBack
    <3>3. \A hit \in admitted'[c] : InEra(hit)
      BY <1>4, <1>7, <2>1 DEF PutsBack, SoundHits
    <3> QED
      BY <1>5, <2>3, <3>1, <3>2, <3>3 DEF SoundHits, InEra
  <2> QED
    BY <2>2, <2>3
<1>10. \A u \in Threads : thread'[u].phase = "limiting" => PutsBack(thread[u])'
  <2> SUFFICES ASSUME NEW u \in Threads, thread'[u].phase = "limiting" PROVE PutsBack(thread[u])'
    OBVIOUS
  <2>1. u # t /\ thread'[u] = thread[u] /\ PutsBack(thread[u])
    BY <1>8 DEF RateInv
  <2>2. admitted[thread[u].client] \subseteq admitted'[thread[u].client]
    BY <1>8, <2>1 DEF PutsBack
  <2> QED
    BY <1>5, <2>1, <2>2 DEF PutsBack, InEra
<1>11. ASSUME NEW d \in Clients \ overlapped'
       PROVE  AloneClient(d)'
  <2>1. AloneClient(d)
    BY <1>5, <1>11 DEF RateInv
  <2>2. Limiting(d)' \subseteq Limiting(d) \ {t}
    BY <1>8 DEF Limiting
  <2>3. CASE d # c
    <3>1. \A u \in Limiting(d)' : thread'[u] = thread[u] /\ KeepsRecent(thread[u], d)
      BY <1>8, <2>1, <2>2 DEF AloneClient, Limiting
    <3>2. \A u \in Limiting(d)' : KeepsRecent(thread[u], d)'
      BY <1>7, <2>3, <3>1 DEF KeepsRecent
    <3>3. LimitHolds(admitted[d])'
      BY <1>5, <1>7, <2>1, <2>3 DEF AloneClient, LimitHolds
    <3> QED
      BY <1>5, <1>7, <2>1, <2>2, <2>3, <3>2, <3>3 DEF AloneClient
  <2>4. CASE d = c
    <3>1. Limiting(c)' = {}
      BY <1>4, <2>1, <2>2, <2>4 DEF AloneClient
    <3>2. KeepsRecent(run, c) /\ LimitHolds(admitted[c])
      BY <1>1, <1>4, <2>1, <2>4 DEF AloneClient
    <3>3. \A hit \in admitted'[c] :
            /\ hit.era =< run.hit.era
            /\ hit.era = run.hit.era /\ Recent(hit, run.hit.at) => hit \in run.hits
      BY <1>4, <1>7, <3>2 DEF KeepsRecent, PutsBack, InEra
    <3>4. SoundHits(c) /\ clock \in Nat /\ stepBacks \in Nat /\ InEra(run.hit)
      BY <1>4 DEF RateInv, PutsBack
    <3>5. \A hit \in admitted'[c] : hit.era = stepBacks /\ Recent(hit, clock) => hit \in run.hits
      <4>1. \A hit \in admitted'[c] : hit.at \in Nat
        BY <1>4, <1>7, <3>4 DEF PutsBack, SoundHits, InEra
      <4>2. run.hit.at \in Nat /\ run.hit.era \in 0 .. stepBacks
        BY <3>4 DEF InEra
      <4>3. run.hit.era = stepBacks => run.hit.at =< clock
        BY <3>4 DEF InEra
      <4> QED
        BY <3>3, <3>4, <4>1, <4>2, <4>3, RateAssumption DEF Recent
    <3>6. LimitHolds(admitted'[c])
      <4>1. CASE run.limited
        BY <1>7, <3>2, <4>1
      <4>2. CASE ~run.limited
        <5>1. /\ IsFiniteSet(run.hits) /\ run.hit \in run.hits
              /\ Cardinality(run.hits) =< RateMax
          BY <1>4, <4>2 DEF PutsBack
        <5>2. \A h \in admitted[c] \cup {run.hit} : h.at \in Nat
          BY <3>4 DEF SoundHits, InEra
        <5>3. \A h \in admitted[c] : h.era = run.hit.era /\ Recent(h, run.hit.at) => h \in run.hits
          BY <3>2 DEF KeepsRecent
        <5>4. PICK a : a = admitted[c]
          OBVIOUS
        <5>5. LimitHolds(a \cup {run.hit})
          BY <3>2, <5>1, <5>2, <5>3, <5>4, OneMoreHit
        <5> QED
          BY <1>7, <4>2, <5>4, <5>5
      <4> QED
        BY <4>1, <4>2
    <3>7. LimitHolds(admitted[c])'
      BY <1>5, <3>6 DEF LimitHolds
    <3> QED
      BY <1>5, <1>7, <2>4, <3>1, <3>5, <3>7 DEF AloneClient
  <2> QED
    BY <2>3, <2>4
<1> QED
  BY <1>5, <1>6, <1>9, <1>10, <1>11 DEF RateInv

(* Time passes, or is corrected.  Hits leave the window, and none enters   *)
(* it; a new era has none yet, and who is in the limiter came before it.   *)
LEMMA ClockStep ==
    ASSUME RateInv, Tick \/ StepBack
    PROVE  RateInv'
<1>1. /\ rateState' = rateState /\ admitted' = admitted
      /\ overlapped' = overlapped /\ thread' = thread
      /\ \/ stepBacks' = stepBacks /\ clock' = clock + 1
         \/ stepBacks' = stepBacks + 1 /\ clock' \in Nat
  BY DEF Tick, StepBack
<1>2. clock \in Nat /\ stepBacks \in Nat /\ clock' \in Nat /\ stepBacks' \in Nat
  BY <1>1 DEF RateInv
<1>3. \A hit : InEra(hit) => InEra(hit)'
  BY <1>1, <1>2 DEF InEra
<1>4. \A c \in Clients : SoundHits(c)'
  BY <1>1, <1>3 DEF RateInv, SoundHits, InEra
<1>5. \A t \in Threads : thread[t].phase = "limiting" => PutsBack(thread[t])'
  BY <1>1, <1>3 DEF RateInv, PutsBack, InEra
<1>6. ASSUME NEW c \in Clients \ overlapped
      PROVE  AloneClient(c)'
  <2>1. AloneClient(c) /\ SoundHits(c)
    BY DEF RateInv
  <2>2. Limiting(c)' = Limiting(c)
    BY <1>1 DEF Limiting
  <2>3. \A t \in Limiting(c) : KeepsRecent(thread[t], c)'
    BY <1>1, <2>1 DEF AloneClient, KeepsRecent
  <2>4. \A hit \in admitted[c] : hit.era = stepBacks' /\ Recent(hit, clock') =>
            hit.era = stepBacks /\ Recent(hit, clock)
    <3>1. \A hit \in admitted[c] : hit.at \in Nat /\ hit.era \in 0 .. stepBacks
      BY <2>1 DEF SoundHits, InEra
    <3> QED
      BY <1>1, <1>2, <3>1, RateAssumption DEF Recent
  <2>5. LimitHolds(admitted[c])'
    BY <1>1, <2>1 DEF AloneClient, LimitHolds
  <2> QED
    BY <1>1, <2>1, <2>2, <2>3, <2>4, <2>5 DEF AloneClient
<1> QED
  BY <1>1, <1>2, <1>4, <1>5, <1>6 DEF RateInv

(* A restart forgets every hit, and every client that was let through.     *)
LEMMA RestartRate ==
    ASSUME RateInv, Restart
    PROVE  RateInv'
<1>1. /\ thread' = [t \in Threads |-> Idle] /\ clock' = clock /\ stepBacks' = stepBacks
      /\ rateState' = [c \in Clients |-> {}] /\ admitted' = [c \in Clients |-> {}]
  BY DEF Restart
<1>2. clock \in Nat /\ stepBacks \in Nat
  BY DEF RateInv
<1>3. \A t \in Threads : thread'[t].phase # "limiting"
  BY <1>1 DEF Idle
<1>4. \A c \in Clients : Limiting(c)' = {}
  BY <1>3 DEF Limiting
<1>5. \A c \in Clients : rateState'[c] = {} /\ admitted'[c] = {}
  BY <1>1
<1>6. \A c \in Clients : SoundHits(c)'
  BY <1>5, FS_EmptySet DEF SoundHits
<1>7. \A c \in Clients : LimitHolds(admitted[c])'
  <2>1. \A era, now : InWindow({}, era, now) = {}
    BY DEF InWindow
  <2> QED
    BY <1>5, <2>1, FS_EmptySet, RateAssumption DEF LimitHolds
<1>8. \A c \in Clients : AloneClient(c)'
  BY <1>4, <1>5, <1>7 DEF AloneClient
<1> QED
  BY <1>1, <1>2, <1>3, <1>6, <1>8 DEF RateInv

(* The threads of /pay/url-summary are not in the limiter.                 *)
LEMMA PayRate ==
    ASSUME RateInv, PayNext, UNCHANGED demoVars
    PROVE  RateInv'
<1>1. PICK phases : phases = {"idle", "fetching", "verifying", "settling", "settled", "ingesting"}
  OBVIOUS
<1>2. Idle.phase \in phases /\ Idle.phase # "limiting"
  BY <1>1 DEF Idle
<1>3. \A phase \in phases : \A req, evidence, tx :
          LET run == Run(phase, req, evidence, tx) IN run.phase \in phases /\ run.phase # "limiting"
  BY <1>1 DEF Run
<1>4. \A req, evidence, tx : Assembled(req, evidence, tx).phase # "limiting"
  BY <1>1, <1>2, <1>3 DEF Assembled
<1>5. ASSUME NEW t \in Threads, NEW x, thread' = [thread EXCEPT ![t] = x],
             thread[t].phase \in phases, x.phase # "limiting"
      PROVE  RateInv'
  BY <1>1, <1>5, RateKept
<1>d. \A req : Delivered(req).phase # "limiting"
  BY <1>1, <1>2, <1>3, <1>4 DEF Delivered, FirstWait
<1>6. ASSUME NEW t \in Threads, NEW req \in Requests, PostUrlSummary(t, req)
      PROVE  RateInv'
  <2>1. PICK x : x = IF req.source = "url" THEN [phase |-> "fetching", req |-> req] ELSE Delivered(req)
    OBVIOUS
  <2>2. thread[t].phase \in phases
    BY <1>2, <1>6 DEF PostUrlSummary, Accept
  <2>3. thread' = [thread EXCEPT ![t] = x]
    BY <1>6, <2>1 DEF PostUrlSummary, Accept
  <2>4. x.phase # "limiting"
    BY <1>d, <2>1
  <2> QED
    BY <1>5, <2>2, <2>3, <2>4
<1>7. ASSUME NEW t \in Threads, PayStep(t) \/ FacilitatorSettles(t)
      PROVE  RateInv'
  <2>1. thread[t].phase \in phases
    BY <1>1, <1>7 DEF PayStep, Fetched, FetchFails, FacilitatorSettles, VerifyReplies, SettleReplies, SettleFails, Ingested, IngestFails
  <2>2. PICK x : Continue(t, x) /\ x.phase # "limiting"
    <3>a. CASE Fetched(t) \/ FetchFails(t)
      BY <1>2, <1>d, <3>a DEF Fetched, FetchFails, Finish
    <3>1. CASE VerifyReplies(t)
      BY <1>1, <1>2, <1>3, <1>4, <3>1 DEF VerifyReplies, Finish
    <3>2. CASE SettleReplies(t)
      BY <1>4, <3>2 DEF SettleReplies
    <3>3. CASE SettleFails(t) \/ Ingested(t) \/ IngestFails(t)
      BY <1>2, <3>3 DEF SettleFails, Ingested, IngestFails, Finish
    <3>4. CASE FacilitatorSettles(t)
      BY <1>1, <1>3, <3>4 DEF FacilitatorSettles
    <3> QED
      BY <1>7, <3>a, <3>1, <3>2, <3>3, <3>4 DEF PayStep
  <2> QED
    BY <1>5, <2>1, <2>2 DEF Continue
<1>8. ASSUME NEW payment, LateSettlement(payment)
      PROVE  RateInv'
  BY <1>8 DEF LateSettlement, demoVars, RateInv, SoundHits, PutsBack, AloneClient, KeepsRecent, LimitHolds, InEra, Limiting
<1> QED
  BY <1>6, <1>7, <1>8 DEF PayNext

LEMMA NextRateInv == RateInv /\ [Next]_vars => RateInv'
<1> SUFFICES ASSUME RateInv, [Next]_vars PROVE RateInv'
  OBVIOUS
<1>1. CASE UNCHANGED vars
  BY <1>1 DEF vars, demoVars, RateInv, SoundHits, PutsBack, AloneClient, KeepsRecent, LimitHolds, InEra, Limiting
<1>2. CASE DemoNext
  <2>1. ASSUME NEW t \in Threads, SarReplies(t)
        PROVE  RateInv'
    <3>1. thread[t].phase # "limiting" /\ thread' = [thread EXCEPT ![t] = Idle] /\ UNCHANGED demoVars
      BY <2>1 DEF SarReplies, Finish, Continue
    <3>2. Idle.phase # "limiting"
      BY DEF Idle
    <3> QED
      BY <3>1, <3>2, RateKept
  <2> QED
    BY <1>2, <2>1, ReadRateStep, WriteRateStep, ClockStep DEF DemoNext
<1>3. CASE PayNext /\ UNCHANGED demoVars
  BY <1>3, PayRate
<1>4. CASE Restart
  BY <1>4, RestartRate
<1> QED
  BY <1>1, <1>2, <1>3, <1>4 DEF Next

LEMMA RateInductive == Spec => []RateInv
BY InitRateInv, NextRateInv, PTL DEF Spec

(* No client is let through more than RateMax times in a window between a  *)
(* step back of the clock and the next, unless two of its requests were in *)
(* the limiter at once (_demo_rate_limited).                               *)
THEOREM LimitHoldsForAll == Spec => []LimitHoldsAlone
<1>1. RateInv => LimitHoldsAlone
  <2> SUFFICES ASSUME RateInv, NEW c \in Clients \ overlapped,
                      NEW era \in 0 .. stepBacks, NEW now \in 0 .. MaxClock
               PROVE  Cardinality(InWindow(admitted[c], era, now)) =< RateMax
    BY DEF LimitHoldsAlone, InWindow
  <2>1. LimitHolds(admitted[c])
    BY Zenon DEF RateInv, AloneClient
  <2>2. era \in Nat /\ now \in Nat
    OBVIOUS
  <2> QED
    BY <2>1, <2>2 DEF LimitHolds
<1> QED
  BY <1>1, RateInductive, PTL

(* Nobody is answered 429 who was not let through RateMax times within the *)
(* window, however the limiter's threads overwrite each other's lists      *)
(* (_demo_rate_limited).                                                   *)
THEOREM LimitedIsAlwaysJustified == Spec => []LimitedIsJustified
<1>1. RateInv => LimitedIsJustified
  <2> SUFFICES ASSUME RateInv, NEW t \in Threads, thread[t].phase = "limiting", thread[t].limited
               PROVE  Cardinality({hit \in admitted[thread[t].client] : hit.at + Window >= thread[t].hit.at}) >= RateMax
    BY DEF LimitedIsJustified
  <2>1. PICK run : run = thread[t] /\ PutsBack(run) /\ run.limited
    BY DEF RateInv
  <2>2. PICK recent : recent = {hit \in admitted[run.client] : hit.at + Window >= run.hit.at}
    OBVIOUS
  <2>3. run.hits \subseteq recent
    BY <2>1, <2>2 DEF PutsBack, Recent
  <2>4. IsFiniteSet(recent)
    <3>1. PICK all : all = admitted[run.client] /\ IsFiniteSet(all)
      BY <2>1 DEF RateInv, SoundHits, PutsBack
    <3> QED
      BY <2>2, <3>1, FS_Subset
  <2>5. /\ Cardinality(run.hits) =< Cardinality(recent)
        /\ Cardinality(run.hits) \in Nat /\ Cardinality(recent) \in Nat
    BY <2>3, <2>4, FS_Subset, FS_CardinalityType
  <2>6. Cardinality(run.hits) >= RateMax
    BY <2>1 DEF PutsBack
  <2> QED
    BY <2>1, <2>2, <2>5, <2>6, RateAssumption
<1> QED
  BY <1>1, RateInductive, PTL

-----------------------------------------------------------------------------
(* Types.                                                                  *)
Phases == DemoPhases \cup PayPhases

LEMMA PayRunType ==
    ASSUME NEW phase \in {"verifying", "settling", "settled", "ingesting"}, NEW req \in Requests,
           NEW evidence \in {Demo, Live}, NEW tx \in Payments \cup {None}
    PROVE  /\ Run(phase, req, evidence, tx) \in Phases
           /\ Assembled(req, evidence, tx) \in Phases
BY DEF Run, Assembled, Phases, PayPhases

LEMMA IdleType == Idle \in Phases
BY DEF Phases, PayPhases

LEMMA DeliveredType ==
    ASSUME NEW req \in Requests
    PROVE  Delivered(req) \in Phases
BY PayRunType, IdleType DEF Delivered, FirstWait

LEMMA DemoTypes ==
    ASSUME TypeOK, DemoNext
    PROVE  thread' \in [Threads -> Phases] /\ accepted' \in 0 .. MaxRequests /\ DemoTypeOK'
<1>1. /\ thread \in [Threads -> Phases] /\ accepted \in 0 .. MaxRequests
      /\ clock \in 0 .. MaxClock /\ stepBacks \in 0 .. MaxStepBacks /\ hitsTaken \in 0 .. accepted /\ overlapped \subseteq Clients
      /\ rateState \in [Clients -> SUBSET Hits] /\ admitted \in [Clients -> SUBSET Hits]
  BY DEF TypeOK, DemoTypeOK, Phases
<1>2. ASSUME NEW t \in Threads, NEW c \in Clients, ReadRate(t, c)
      PROVE  thread' \in [Threads -> Phases] /\ accepted' \in 0 .. MaxRequests /\ DemoTypeOK'
  <2>1. PICK hits, mine, x :
            /\ hits = {hit \in rateState[c] : Recent(hit, clock)}
            /\ mine = [number |-> hitsTaken, at |-> clock, era |-> stepBacks]
            /\ x = [phase |-> "limiting", client |-> c, hit |-> mine,
                    limited |-> Cardinality(hits) >= RateMax, hits |-> NewHits(hits, mine)]
            /\ thread' = [thread EXCEPT ![t] = x]
    BY <1>2 DEF ReadRate, Accept
  <2>2. /\ accepted' = accepted + 1 /\ accepted < MaxRequests
        /\ hitsTaken' = hitsTaken \/ hitsTaken' = hitsTaken + 1
        /\ clock' = clock /\ stepBacks' = stepBacks /\ rateState' = rateState /\ admitted' = admitted
        /\ overlapped' \subseteq overlapped \cup {c}
    BY <1>2 DEF ReadRate, Accept
  <2>3. mine \in Hits
    BY <1>1, <2>1, PoolAssumption DEF Hits
  <2>4. NewHits(hits, mine) \in SUBSET Hits
    BY <1>1, <2>1, <2>3 DEF NewHits
  <2>5. x \in DemoPhases
    BY <2>1, <2>3, <2>4 DEF DemoPhases
  <2>6. accepted' \in 0 .. MaxRequests /\ hitsTaken' \in 0 .. accepted'
    BY <1>1, <2>2, PoolAssumption
  <2> QED
    BY <1>1, <2>1, <2>2, <2>5, <2>6 DEF DemoTypeOK, Phases
<1>3. ASSUME NEW t \in Threads, WriteRate(t)
      PROVE  thread' \in [Threads -> Phases] /\ accepted' \in 0 .. MaxRequests /\ DemoTypeOK'
  <2>1. PICK run : run = thread[t] /\ run \in Phases /\ run.phase = "limiting"
    BY <1>1, <1>3 DEF WriteRate
  <2>2. run \in DemoPhases /\ run.client \in Clients /\ run.hit \in Hits /\ run.hits \in SUBSET Hits
    BY <2>1 DEF Phases, DemoPhases, PayPhases, Idle
  <2>3. /\ rateState' = [rateState EXCEPT ![run.client] = run.hits]
        /\ admitted' = admitted \/ admitted' = [admitted EXCEPT ![run.client] = @ \cup {run.hit}]
        /\ clock' = clock /\ stepBacks' = stepBacks /\ overlapped' = overlapped
        /\ hitsTaken' = hitsTaken /\ accepted' = accepted
        /\ \/ thread' = [thread EXCEPT ![t] = Idle]
           \/ thread' = [thread EXCEPT ![t] = [phase |-> "issuing"]]
    BY <1>3, <2>1 DEF WriteRate, Finish, Continue
  <2>4. [phase |-> "issuing"] \in Phases
    BY DEF Phases, DemoPhases
  <2>5. thread' \in [Threads -> Phases]
    BY <1>1, <2>3, <2>4, IdleType
  <2>6. rateState' \in [Clients -> SUBSET Hits] /\ admitted' \in [Clients -> SUBSET Hits]
    BY <1>1, <2>2, <2>3
  <2> QED
    BY <1>1, <2>3, <2>5, <2>6 DEF DemoTypeOK
<1>4. ASSUME NEW t \in Threads, SarReplies(t)
      PROVE  thread' \in [Threads -> Phases] /\ accepted' \in 0 .. MaxRequests /\ DemoTypeOK'
  BY <1>1, <1>4, IdleType DEF SarReplies, Finish, Continue, demoVars, DemoTypeOK
<1>5. CASE Tick
  <2>1. clock' \in 0 .. MaxClock
    BY <1>1, <1>5, RateAssumption DEF Tick
  <2> QED
    BY <1>1, <1>5, <2>1 DEF Tick, DemoTypeOK
<1>6. CASE StepBack
  <2>1. clock' \in 0 .. MaxClock /\ stepBacks' \in 0 .. MaxStepBacks
    BY <1>1, <1>6, RateAssumption DEF StepBack
  <2> QED
    BY <1>1, <1>6, <2>1 DEF StepBack, DemoTypeOK
<1> QED
  BY <1>2, <1>3, <1>4, <1>5, <1>6 DEF DemoNext

LEMMA PayTypes ==
    ASSUME TypeOK, IInv, PayNext
    PROVE  thread' \in [Threads -> Phases] /\ accepted' \in accepted .. MaxRequests /\ PayTypeOK'
<1>1. /\ thread \in [Threads -> Phases] /\ accepted \in 0 .. MaxRequests
      /\ env \in Environments /\ settled \subseteq Payments /\ inflight \subseteq Payments
      /\ receipts \in Seq(Records) /\ unresolved \subseteq Payments
  BY DEF TypeOK, PayTypeOK, Phases, Records
<1>2. ASSUME NEW t \in Threads, NEW req \in Requests, PostUrlSummary(t, req)
      PROVE  thread' \in [Threads -> Phases] /\ accepted' \in accepted .. MaxRequests /\ PayTypeOK'
  <2>1. PICK fetching : fetching = [phase |-> "fetching", req |-> req]
    OBVIOUS
  <2>f. fetching \in Phases
    <3>1. fetching \in [phase : {"fetching"}, req : Requests]
      BY <2>1
    <3> QED
      BY <3>1 DEF Phases, PayPhases
  <2>2. /\ \/ thread' = [thread EXCEPT ![t] = fetching]
           \/ thread' = [thread EXCEPT ![t] = Delivered(req)]
        /\ accepted' = accepted + 1 /\ accepted < MaxRequests
    BY <1>2, <2>1 DEF PostUrlSummary, Accept
  <2>3. thread' \in [Threads -> Phases] /\ accepted' \in accepted .. MaxRequests
    BY <1>1, <2>f, <2>2, DeliveredType, PoolAssumption
  <2> QED
    BY <1>2, <2>3 DEF PostUrlSummary, payVars, TypeOK, PayTypeOK
<1>3. ASSUME NEW t \in Threads, PayStep(t) \/ FacilitatorSettles(t)
      PROVE  thread' \in [Threads -> Phases] /\ accepted' \in accepted .. MaxRequests /\ PayTypeOK'
  <2>1. PICK run : run = thread[t] /\ run \in Phases
    BY <1>1
  <2>2. run.phase \in {"fetching", "verifying", "settling", "settled", "ingesting"}
    BY <1>3, <2>1 DEF PayStep, Fetched, FetchFails, FacilitatorSettles, VerifyReplies, SettleReplies, SettleFails, Ingested, IngestFails
  <2>3. /\ run.req \in Requests
        /\ run.phase # "fetching" => run.evidence \in {Demo, Live} /\ run.tx \in Payments \cup {None}
    BY <2>1, <2>2 DEF Phases, DemoPhases, PayPhases, Idle
  <2>4. run.phase \in {"settling", "settled"} => run.req.payment \in Payments
    BY <2>1, <2>2 DEF IInv, SoundRun
  <2>5. PICK x : Continue(t, x) /\ x \in Phases
    <3>a. CASE Fetched(t) \/ FetchFails(t)
      BY <2>1, <2>3, <3>a, IdleType, DeliveredType DEF Fetched, FetchFails, Finish
    <3>1. CASE VerifyReplies(t)
      BY <2>1, <2>3, <3>1, IdleType, PayRunType DEF VerifyReplies, Finish
    <3>2. CASE SettleReplies(t)
      BY <2>1, <2>3, <3>2, PayRunType DEF SettleReplies
    <3>3. CASE SettleFails(t) \/ Ingested(t) \/ IngestFails(t)
      BY <3>3, IdleType DEF SettleFails, Ingested, IngestFails, Finish
    <3>4. CASE FacilitatorSettles(t)
      BY <2>1, <2>3, <2>4, <3>4, PayRunType DEF FacilitatorSettles
    <3> QED
      BY <1>3, <3>a, <3>1, <3>2, <3>3, <3>4 DEF PayStep
  <2>6. thread' \in [Threads -> Phases] /\ accepted' = accepted
    BY <1>1, <2>5 DEF Continue
  <2>7. PayTypeOK'
    <3>1. CASE Fetched(t) \/ FetchFails(t) \/ VerifyReplies(t) \/ SettleReplies(t)
      BY <1>1, <3>1 DEF Fetched, FetchFails, VerifyReplies, SettleReplies, payVars, PayTypeOK, Records
    <3>2. CASE SettleFails(t)
      BY <1>1, <2>1, <2>4, <3>2 DEF SettleFails, PayTypeOK, Records
    <3>3. CASE Ingested(t)
      <4>1. PICK r : r = [req |-> run.req, evidence |-> run.evidence, tx |-> run.tx] /\ receipts' = Append(receipts, r)
        BY <2>1, <3>3 DEF Ingested
      <4>p. run.phase = "ingesting"
        BY <2>1, <3>3 DEF Ingested
      <4>2. r \in Records
        BY <2>3, <4>1, <4>p DEF Records
      <4>3. receipts' \in Seq(Records)
        BY <1>1, <4>1, <4>2, AppendProperties
      <4> QED
        BY <1>1, <3>3, <4>3 DEF Ingested, PayTypeOK, Records
    <3>4. CASE IngestFails(t)
      BY <1>1, <2>1, <2>3, <3>4 DEF IngestFails, PayTypeOK, Records
    <3>5. CASE FacilitatorSettles(t)
      BY <1>1, <2>1, <2>4, <3>5 DEF FacilitatorSettles, PayTypeOK, Records
    <3> QED
      BY <1>3, <3>1, <3>2, <3>3, <3>4, <3>5 DEF PayStep
  <2> QED
    BY <1>1, <2>6, <2>7
<1>4. ASSUME NEW payment \in Payments, LateSettlement(payment)
      PROVE  thread' \in [Threads -> Phases] /\ accepted' \in accepted .. MaxRequests /\ PayTypeOK'
  BY <1>1, <1>4 DEF LateSettlement, PayTypeOK, Records
<1> QED
  BY <1>2, <1>3, <1>4 DEF PayNext

(* The state of both endpoints keeps its shape.                            *)
THEOREM TypeCorrect == Spec => []TypeOK
<1>1. Init => TypeOK
  <2> SUFFICES ASSUME Init PROVE TypeOK
    OBVIOUS
  <2>1. thread \in [Threads -> Phases] /\ accepted \in 0 .. MaxRequests
    BY IdleType, PoolAssumption DEF Init, PoolInit
  <2>2. DemoTypeOK
    BY <2>1, RateAssumption DEF Init, PoolInit, DemoInit, DemoTypeOK
  <2>3. PayTypeOK
    BY EmptySeq DEF Init, PayInit, PayTypeOK
  <2> QED
    BY <2>1, <2>2, <2>3, RestartAssumption DEF Init, TypeOK, Phases
<1>2. TypeOK /\ IInv /\ [Next]_vars => TypeOK'
  <2> SUFFICES ASSUME TypeOK, IInv, [Next]_vars PROVE TypeOK'
    OBVIOUS
  <2>1. CASE UNCHANGED vars
    BY <2>1 DEF vars, demoVars, payVars, TypeOK, DemoTypeOK, PayTypeOK
  <2>2. CASE DemoNext /\ UNCHANGED <<payVars, restarts>>
    <3>1. PayTypeOK' /\ restarts' = restarts
      BY <2>2 DEF payVars, TypeOK, PayTypeOK
    <3> QED
      BY <2>2, <3>1, DemoTypes DEF TypeOK, Phases
  <2>3. CASE PayNext /\ UNCHANGED <<demoVars, restarts>>
    <3>1. /\ thread' \in [Threads -> Phases] /\ PayTypeOK'
          /\ accepted \in 0 .. MaxRequests /\ accepted' \in accepted .. MaxRequests
      BY <2>3, PayTypes DEF TypeOK
    <3>2. accepted' \in 0 .. MaxRequests /\ 0 .. accepted \subseteq 0 .. accepted'
      BY <3>1, PoolAssumption
    <3>3. DemoTypeOK' /\ restarts' = restarts
      BY <2>3, <3>2 DEF demoVars, TypeOK, DemoTypeOK
    <3> QED
      BY <3>1, <3>2, <3>3 DEF TypeOK, Phases
  <2>4. CASE Restart
    <3>1. /\ thread' = [t \in Threads |-> Idle] /\ env' \in Environments /\ restarts' \in 0 .. MaxRestarts
          /\ settled' = settled /\ receipts' = receipts /\ accepted' = accepted
          /\ clock' = clock /\ stepBacks' = stepBacks
          /\ rateState' = [c \in Clients |-> {}] /\ admitted' = [c \in Clients |-> {}]
          /\ overlapped' = {} /\ hitsTaken' = 0
      BY <2>4, RestartAssumption DEF Restart, TypeOK
    <3>2. {thread[t].req.payment : t \in Asked} \subseteq Payments
      BY DEF Asked, IInv, SoundRun
    <3>3. InProgress \ {None} \subseteq Payments
      <4> SUFFICES ASSUME NEW t \in Threads, thread[t].phase \in {"settled", "ingesting"}
                   PROVE  thread[t].tx \in Payments \cup {None}
        BY DEF InProgress
      <4>1. PICK run : run = thread[t] /\ run \in Phases
        BY DEF TypeOK, Phases
      <4> QED
        BY <4>1 DEF Phases, DemoPhases, PayPhases, Idle
    <3>4. inflight' \subseteq Payments /\ unresolved' \subseteq Payments
      BY <2>4, <3>2, <3>3 DEF Restart, TypeOK, PayTypeOK
    <3>5. PayTypeOK'
      BY <3>1, <3>4 DEF TypeOK, PayTypeOK
    <3>6. DemoTypeOK'
      BY <3>1 DEF TypeOK, DemoTypeOK
    <3>7. thread' \in [Threads -> Phases]
      BY <3>1, IdleType
    <3> QED
      BY <3>1, <3>5, <3>6, <3>7 DEF TypeOK, Phases
  <2> QED
    BY <2>1, <2>2, <2>3, <2>4 DEF Next
<1> QED
  BY <1>1, <1>2, Inductive, PTL DEF Spec
=============================================================================
