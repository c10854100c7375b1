---------------------------- MODULE PathC_proofs ----------------------------
(***************************************************************************)
(* SpecBinding and ReceiptBacked hold for every pool of workers and every  *)
(* set of commitments, outputs and instants.  The strengthening carries    *)
(* both facts over the requests in flight: a record is bound, or backed,   *)
(* from the moment a worker builds it, and ledgers only grow, so it still  *)
(* is when it is appended.                                                 *)
(* The evaluator comes last: what its aggregation loop computes for checks *)
(* arrays of every length, what a signed PASS therefore says of the output *)
(* it is over, and the three properties of EvaluatorInputs.                *)
(***************************************************************************)
EXTENDS PathC, EvaluatorInputs, SequenceTheorems, FiniteSetTheorems, WellFoundedInduction, TLAPS

(* e is the verdict of the committed spec on the output it records.        *)
Bound(e) ==
    /\ \E c \in Stored("commitments") : c.ref = e.ref
    /\ \A c \in Commitments : c.ref = e.ref => e = EvaluationOf(c, e.output)

(* r states the outcome of a stored evaluation.                            *)
Backed(r) ==
    \E e \in Stored("evaluations") : r.ref = e.ref /\ r.state = e.result /\ r.reason = e.reason

(* What requests in flight carry.                                          *)
InFlight(w) ==
    /\ worker[w].phase = "evaluated" => Bound(worker[w].record)
    /\ worker[w].phase = "found" => worker[w].evaluation \in Stored("evaluations")
    /\ worker[w].phase = "signed" => Backed(worker[w].record)
    /\ worker[w].phase = "append" /\ worker[w].store = "evaluations" => Bound(worker[w].record)
    /\ worker[w].phase = "append" /\ worker[w].store = "receipts" => Backed(worker[w].record)

IInv ==
    /\ TypeOK
    /\ \A w \in Workers : InFlight(w)
    /\ SpecBinding
    /\ ReceiptBacked

-----------------------------------------------------------------------------
(* A nonempty set of positions of a log has a last one.                    *)
LEMMA LastPosition ==
    ASSUME NEW n \in Nat, NEW S \in SUBSET (1 .. n), S # {}
    PROVE  \E i \in S : \A j \in S : j =< i
<1> DEFINE D == {n - i : i \in S}
<1>1. D \subseteq Nat /\ D # {}
  <2>1. \A i \in S : n - i \in Nat
    OBVIOUS
  <2>2. D \subseteq Nat
    BY <2>1
  <2>3. D # {}
    OBVIOUS
  <2> QED
    BY <2>2, <2>3
<1>2. PICK x \in D : \A y \in D : ~(<<y, x>> \in OpToRel(<, Nat))
  BY <1>1, NatLessThanWellFounded, WFMin
<1>3. \A y \in D : ~(y < x)
  BY <1>1, <1>2 DEF OpToRel
<1>4. PICK i \in S : x = n - i
  BY <1>2
<1>5. \A j \in S : j =< i
  BY <1>3, <1>4
<1> QED
  BY <1>5

(* The search of a log finds a record of the log with the ref asked for.   *)
LEMMA LatestFinds ==
    ASSUME NEW R, NEW log \in Seq(R), NEW ref, Latest(log, ref) # None
    PROVE  \E i \in 1 .. Len(log) : Latest(log, ref) = log[i] /\ log[i].ref = ref
<1> DEFINE matching == {i \in 1 .. Len(log) : log[i].ref = ref}
           last == CHOOSE i \in matching : \A j \in matching : j =< i
<1>1. matching # {} /\ Latest(log, ref) = log[last]
  BY DEF Latest
<1>2. matching \in SUBSET (1 .. Len(log)) /\ Len(log) \in Nat
  BY LenProperties
<1>3. \E i \in matching : \A j \in matching : j =< i
  BY ONLY <1>1, <1>2, LastPosition
<1>4. last \in matching
  BY ONLY <1>3
<1> QED
  BY <1>1, <1>4

(* What a get finds is on the ledger, under the ref asked for.             *)
LEMMA LatestIsStored ==
    ASSUME TypeOK, NEW s \in Stores, NEW ref, Latest(ledger[s], ref) # None
    PROVE  /\ Latest(ledger[s], ref) \in Stored(s)
           /\ Latest(ledger[s], ref) \in RecordsOf[s]
           /\ Latest(ledger[s], ref).ref = ref
<1>1. ledger[s] \in Seq(RecordsOf[s])
  BY DEF TypeOK
<1>2. PICK i \in 1 .. Len(ledger[s]) : Latest(ledger[s], ref) = ledger[s][i] /\ ledger[s][i].ref = ref
  BY <1>1, LatestFinds
<1>3. ledger[s][i] \in RecordsOf[s]
  BY <1>1, ElementOfSeq
<1> QED
  BY <1>2, <1>3 DEF Stored

(* What an append does to the records stored.                              *)
LEMMA StoredGrows ==
    ASSUME NEW s \in Stores, NEW record \in RecordsOf[s], ledger[s] \in Seq(RecordsOf[s]),
           DOMAIN ledger = Stores,
           ledger' = [ledger EXCEPT ![s] = Append(@, record)]
    PROVE  /\ DOMAIN ledger' = Stores
           /\ ledger'[s] \in Seq(RecordsOf[s])
           /\ Stored(s)' = Stored(s) \cup {record}
           /\ \A t \in Stores \ {s} : ledger'[t] = ledger[t] /\ Stored(t)' = Stored(t)
<1> DEFINE log == ledger[s]
           n == Len(log)
<1>1. ledger'[s] = Append(log, record) /\ n \in Nat
  BY LenProperties
<1>2. /\ Append(log, record) \in Seq(RecordsOf[s])
      /\ Len(Append(log, record)) = n + 1
      /\ \A i \in 1 .. n : Append(log, record)[i] = log[i]
      /\ Append(log, record)[n + 1] = record
  BY AppendProperties
<1>3. Stored(s)' = {Append(log, record)[i] : i \in 1 .. n + 1}
  BY <1>1, <1>2 DEF Stored
<1>4. 1 .. n + 1 = (1 .. n) \cup {n + 1}
  BY <1>1
<1>5. Stored(s)' = {log[i] : i \in 1 .. n} \cup {record}
  BY <1>2, <1>3, <1>4
<1>6. \A t \in Stores \ {s} : ledger'[t] = ledger[t]
  OBVIOUS
<1> QED
  BY <1>1, <1>2, <1>5, <1>6 DEF Stored

(* The fields each phase of a request carries.                             *)
LEMMA PhaseFields ==
    ASSUME NEW x \in Phases
    PROVE  /\ x.phase \in {"idle", "evaluated", "found", "signed", "append"}
           /\ x.phase = "evaluated" => x.record \in Evaluations
           /\ x.phase = "found" => x.evaluation \in Evaluations
           /\ x.phase = "signed" => x.record \in Receipts
           /\ x.phase = "append" => x.store \in Stores /\ x.record \in RecordsOf[x.store]
BY DEF Phases, Idle

LEMMA IdlePhases ==
    ASSUME NEW reply \in Replies
    PROVE  Idle(reply) \in Phases /\ Idle(reply).phase = "idle"
BY DEF Phases, Idle

(* Records of the stores are of the three kinds.                           *)
LEMMA StoreRecords ==
    /\ RecordsOf["commitments"] = Commitments
    /\ RecordsOf["evaluations"] = Evaluations
    /\ RecordsOf["receipts"] = Receipts
    /\ DOMAIN RecordsOf = Stores
BY DEF RecordsOf, Stores

(* Records under one action_ref get one verdict for one output: the digest *)
(* chain fixes the profile the verdict is a function of.                   *)
LEMMA OneVerdict ==
    ASSUME NEW c \in Commitments, NEW d \in Commitments, c.ref = d.ref, NEW output
    PROVE  EvaluationOf(c, output) = EvaluationOf(d, output)
<1>1. c.profile = d.profile
  BY ChainAssumption
<1> QED
  BY <1>1 DEF EvaluationOf, BoundaryReason, ReleasePolicy, AcceptanceSpec

LEMMA EvaluationFields ==
    ASSUME NEW c, NEW output
    PROVE  EvaluationOf(c, output).ref = c.ref /\ EvaluationOf(c, output).output = output
BY DEF EvaluationOf

(* Every record is under an action_ref of a commitment.                    *)
LEMMA RecordRefs ==
    ASSUME NEW s \in Stores, NEW record \in RecordsOf[s]
    PROVE  record.ref \in Refs
<1>1. \A c \in Commitments : c.ref \in Refs
  BY DEF Refs
<1>2. \A e \in Evaluations : e.ref \in Refs
  BY <1>1, EvaluationFields DEF Evaluations
<1>3. \A q \in Receipts : q.ref \in Refs
  BY <1>2 DEF Receipts, ReceiptFor
<1> QED
  BY <1>1, <1>2, <1>3, StoreRecords DEF Stores

(* The key of a worker about to append is a store and an action_ref.       *)
LEMMA AppendKeys ==
    ASSUME NEW x \in Phases, x.phase = "append"
    PROVE  Key(x) \in Stores \X Refs
BY PhaseFields, RecordRefs DEF Key

-----------------------------------------------------------------------------
LEMMA InitIInv == Init => IInv
<1> SUFFICES ASSUME Init PROVE IInv
  OBVIOUS
<1>1. \A s \in Stores : ledger[s] = <<>> /\ Stored(s) = {}
  BY DEF Init, Stored
<1>2. \A w \in Workers : worker[w] = Idle(None) /\ worker[w].phase = "idle"
  BY DEF Init, Idle
<1>3. TypeOK
  BY <1>1, <1>2 DEF Init, TypeOK, Phases, Replies
<1>4. SpecBinding /\ ReceiptBacked
  BY <1>1 DEF SpecBinding, ReceiptBacked, Stores
<1> QED
  BY <1>2, <1>3, <1>4 DEF IInv, InFlight

(* What holds of a request, were x its state.                              *)
Sound(x) ==
    /\ x.phase = "evaluated" => Bound(x.record)
    /\ x.phase = "found" => x.evaluation \in Stored("evaluations")
    /\ x.phase = "signed" => Backed(x.record)
    /\ x.phase = "append" /\ x.store = "evaluations" => Bound(x.record)
    /\ x.phase = "append" /\ x.store = "receipts" => Backed(x.record)

(* A step that leaves the ledgers alone and one worker in a sound phase.   *)
LEMMA BecomeStep ==
    ASSUME IInv, NEW w \in Workers, NEW x \in Phases, Sound(x), Become(w, x)
    PROVE  IInv'
<1>1. /\ worker' \in [Workers -> Phases]
      /\ worker'[w] = x
      /\ \A v \in Workers : v # w => worker'[v] = worker[v]
  BY DEF Become, IInv, TypeOK
<1>2. ledger' = ledger /\ configured' = configured
  BY DEF Become
<1>3. contended' \subseteq Stores \X Refs
  BY AppendKeys DEF Become, IInv, TypeOK
<1>4. TypeOK' /\ SpecBinding' /\ ReceiptBacked'
  BY <1>1, <1>2, <1>3 DEF IInv, TypeOK, SpecBinding, ReceiptBacked, Stored
<1>5. \A v \in Workers : InFlight(v)'
  BY <1>1, <1>2, SMTT(30) DEF IInv, InFlight, Sound, Bound, Backed, Stored
<1> QED
  BY <1>4, <1>5 DEF IInv

(* store_* keeps what the record it is given has.                          *)
LEMMA StoreStep ==
    ASSUME IInv, NEW w \in Workers, NEW s \in Stores, NEW record \in RecordsOf[s],
           s = "evaluations" => Bound(record), s = "receipts" => Backed(record),
           Store(w, s, record)
    PROVE  IInv'
<1> DEFINE x == [phase |-> "append", store |-> s, record |-> record]
<1>1. x \in Phases /\ Sound(x)
  BY DEF Phases, Sound
<1>2. Become(w, x) \/ Become(w, Idle(200)) \/ Become(w, Idle(409))
  BY DEF Store
<1>3. \A reply \in {200, 409} : Idle(reply) \in Phases /\ Sound(Idle(reply))
  BY IdlePhases DEF Sound, Replies
<1> QED
  BY <1>1, <1>2, <1>3, BecomeStep

LEMMA EvaluateStep ==
    ASSUME IInv, NEW w \in Workers, NEW ref, NEW output \in Outputs, PostEvaluate(w, ref, output)
    PROVE  IInv'
<1> DEFINE c == Latest(ledger["commitments"], ref)
           x == [phase |-> "evaluated", record |-> EvaluationOf(c, output)]
<1>1. CASE c = None \/ EvaluationRaises(c)
  <2>1. \E reply \in {404, 500} : Become(w, Idle(reply))
    BY <1>1 DEF PostEvaluate
  <2>2. \A reply \in {404, 500} : Idle(reply) \in Phases /\ Sound(Idle(reply))
    BY IdlePhases DEF Sound, Replies
  <2> QED
    BY <2>1, <2>2, BecomeStep
<1>2. CASE c # None /\ ~EvaluationRaises(c)
  <2>1. c \in Stored("commitments") /\ c \in Commitments
    BY <1>2, LatestIsStored, StoreRecords DEF IInv, Stores
  <2>2. EvaluationOf(c, output) \in Evaluations
    BY <2>1 DEF Evaluations
  <2>3. Bound(EvaluationOf(c, output))
    BY <2>1, OneVerdict, EvaluationFields DEF Bound
  <2>4. x \in Phases /\ Sound(x)
    BY <2>2, <2>3 DEF Phases, Sound
  <2>5. Become(w, x)
    BY <1>2 DEF PostEvaluate
  <2> QED
    BY <2>4, <2>5, BecomeStep
<1> QED
  BY <1>1, <1>2

LEMMA FindStep ==
    ASSUME IInv, NEW w \in Workers, NEW ref, PostReceipt(w, ref)
    PROVE  IInv'
<1> DEFINE e == Latest(ledger["evaluations"], ref)
           x == [phase |-> "found", evaluation |-> e]
<1>1. CASE e = None
  <2>1. Idle(404) \in Phases /\ Sound(Idle(404))
    BY IdlePhases DEF Sound, Replies
  <2>2. Become(w, Idle(404))
    BY <1>1 DEF PostReceipt
  <2> QED
    BY <2>1, <2>2, BecomeStep
<1>2. CASE e # None
  <2>1. e \in Stored("evaluations") /\ e \in Evaluations
    BY <1>2, LatestIsStored, StoreRecords DEF IInv, Stores
  <2>2. x \in Phases /\ Sound(x)
    BY <2>1 DEF Phases, Sound
  <2>3. Become(w, x)
    BY <1>2 DEF PostReceipt
  <2> QED
    BY <2>2, <2>3, BecomeStep
<1> QED
  BY <1>1, <1>2

LEMMA SignStep ==
    ASSUME IInv, NEW w \in Workers, SignReceipt(w)
    PROVE  IInv'
<1> DEFINE e == worker[w].evaluation
           x(instant) == [phase |-> "signed", record |-> ReceiptFor(e, instant)]
<1>1. e \in Evaluations /\ e \in Stored("evaluations")
  BY PhaseFields DEF SignReceipt, IInv, TypeOK, InFlight
<1>2. \A reply \in {200, 503} : Idle(reply) \in Phases /\ Sound(Idle(reply))
  BY IdlePhases DEF Sound, Replies
<1>3. ASSUME NEW instant \in Instants, Become(w, x(instant)) PROVE IInv'
  <2>1. ReceiptFor(e, instant) \in Receipts /\ Backed(ReceiptFor(e, instant))
    BY <1>1 DEF Receipts, Backed, ReceiptFor
  <2>2. x(instant) \in Phases /\ Sound(x(instant))
    BY <2>1 DEF Phases, Sound
  <2> QED
    BY <1>3, <2>2, BecomeStep
<1>4. \/ \E reply \in {200, 503} : Become(w, Idle(reply))
      \/ \E instant \in Instants : Become(w, x(instant))
  BY DEF SignReceipt
<1>5. ASSUME NEW reply \in {200, 503}, Become(w, Idle(reply)) PROVE IInv'
  BY <1>2, <1>5, BecomeStep
<1> HIDE DEF x
<1> QED
  BY <1>3, <1>4, <1>5

(* The append: the ledger grows by a record its worker has vouched for.    *)
LEMMA AppendStep ==
    ASSUME IInv, NEW w \in Workers, AppendRecord(w)
    PROVE  IInv'
<1>0. PICK s \in Stores : s = worker[w].store
  BY PhaseFields DEF AppendRecord, IInv, TypeOK
<1>1. PICK record \in RecordsOf[s] : record = worker[w].record
  BY <1>0, PhaseFields DEF AppendRecord, IInv, TypeOK
<1>2. /\ ledger' = [ledger EXCEPT ![s] = Append(@, record)]
      /\ configured' = configured /\ contended' = contended
  BY <1>0, <1>1 DEF AppendRecord
<1>3. /\ worker' \in [Workers -> Phases] /\ worker'[w].phase = "idle"
      /\ \A v \in Workers : v # w => worker'[v] = worker[v]
  BY IdlePhases DEF AppendRecord, IInv, TypeOK, Replies
<1>4. /\ DOMAIN ledger' = Stores
      /\ ledger'[s] \in Seq(RecordsOf[s])
      /\ Stored(s)' = Stored(s) \cup {record}
      /\ \A t \in Stores \ {s} : ledger'[t] = ledger[t] /\ Stored(t)' = Stored(t)
  BY <1>2, StoredGrows DEF IInv, TypeOK
<1>5. TypeOK'
  BY <1>2, <1>3, <1>4 DEF IInv, TypeOK
<1>6. (s = "evaluations" => Bound(record)) /\ (s = "receipts" => Backed(record))
  BY <1>0, <1>1 DEF IInv, InFlight, AppendRecord
<1>7. \A t \in Stores : Stored(t) \subseteq Stored(t)'
  BY <1>4
<1>8. /\ \A e : Bound(e) => Bound(e)'
      /\ \A r : Backed(r) => Backed(r)'
  BY <1>7 DEF Bound, Backed, Stores
<1>9. \A v \in Workers : InFlight(v)'
  BY <1>3, <1>7, <1>8 DEF IInv, InFlight, Stores
<1>10. SpecBinding'
  <2> SUFFICES ASSUME NEW e \in Stored("evaluations")' PROVE Bound(e)'
    BY DEF SpecBinding, Bound
  <2>1. e \in Stored("evaluations") \/ (s = "evaluations" /\ e = record)
    BY <1>4 DEF Stores
  <2>2. Bound(e)
    BY <1>6, <2>1 DEF IInv, SpecBinding, Bound
  <2> QED
    BY <1>8, <2>2
<1>11. ReceiptBacked'
  <2> SUFFICES ASSUME NEW r \in Stored("receipts")' PROVE Backed(r)'
    BY DEF ReceiptBacked, Backed
  <2>1. r \in Stored("receipts") \/ (s = "receipts" /\ r = record)
    BY <1>4 DEF Stores
  <2>2. Backed(r)
    BY <1>6, <2>1 DEF IInv, ReceiptBacked, Backed
  <2> QED
    BY <1>8, <2>2
<1> QED
  BY <1>5, <1>9, <1>10, <1>11 DEF IInv

LEMMA RestartStep ==
    ASSUME IInv, Restart
    PROVE  IInv'
<1>1. /\ ledger' = ledger /\ configured' \in BOOLEAN /\ contended' = contended
      /\ worker' \in [Workers -> Phases]
      /\ \A w \in Workers : worker'[w].phase = "idle"
  BY IdlePhases DEF Restart, Replies
<1>2. TypeOK'
  BY <1>1 DEF IInv, TypeOK
<1>3. SpecBinding' /\ ReceiptBacked'
  BY <1>1 DEF IInv, SpecBinding, ReceiptBacked, Stored
<1> QED
  BY <1>1, <1>2, <1>3 DEF IInv, InFlight

LEMMA NextIInv == IInv /\ [Next]_vars => IInv'
<1> SUFFICES ASSUME IInv, [Next]_vars PROVE IInv'
  OBVIOUS
<1>1. CASE UNCHANGED vars
  BY <1>1 DEF vars, IInv, TypeOK, InFlight, Bound, Backed, SpecBinding, ReceiptBacked, Stored
<1>2. CASE Restart
  BY <1>2, RestartStep
<1>3. ASSUME NEW w \in Workers, Step(w) PROVE IInv'
  <2>1. CASE \E c \in Commitments : PostCommitment(w, c)
    BY <2>1, StoreStep, StoreRecords DEF PostCommitment, Stores
  <2>2. CASE \E ref \in Refs, output \in Outputs : PostEvaluate(w, ref, output)
    BY <2>2, EvaluateStep
  <2>3. CASE StoreEvaluation(w)
    <3>1. worker[w].record \in RecordsOf["evaluations"] /\ Bound(worker[w].record)
      BY <2>3, PhaseFields, StoreRecords DEF StoreEvaluation, IInv, TypeOK, InFlight
    <3> QED
      BY <2>3, <3>1, StoreStep DEF StoreEvaluation, Stores
  <2>4. CASE \E ref \in Refs : PostReceipt(w, ref)
    BY <2>4, FindStep
  <2>5. CASE SignReceipt(w)
    BY <2>5, SignStep
  <2>6. CASE StoreReceipt(w)
    <3>1. worker[w].record \in RecordsOf["receipts"] /\ Backed(worker[w].record)
      BY <2>6, PhaseFields, StoreRecords DEF StoreReceipt, IInv, TypeOK, InFlight
    <3> QED
      BY <2>6, <3>1, StoreStep DEF StoreReceipt, Stores
  <2>7. CASE AppendRecord(w)
    BY <2>7, AppendStep
  <2>8. CASE AppendFails(w)
    <3>1. Idle(500) \in Phases /\ Sound(Idle(500))
      BY IdlePhases DEF Sound, Replies
    <3> QED
      BY <2>8, <3>1, BecomeStep DEF AppendFails
  <2> QED
    BY <1>3, <2>1, <2>2, <2>3, <2>4, <2>5, <2>6, <2>7, <2>8 DEF Step
<1> QED
  BY <1>1, <1>2, <1>3 DEF Next

-----------------------------------------------------------------------------
LEMMA Inductive == Spec => []IInv
BY InitIInv, NextIInv, PTL DEF Spec

(* Ledgers hold records of their kind, whatever the handlers interleave.   *)
THEOREM TypeCorrect == Spec => []TypeOK
<1>1. IInv => TypeOK
  BY DEF IInv
<1> QED
  BY <1>1, Inductive, PTL

(* No stored evaluation judges an output by another spec than the one      *)
(* committed under its action_ref (post_evaluate_deterministic).           *)
THEOREM NoSpecSubstitution == Spec => []SpecBinding
<1>1. IInv => SpecBinding
  BY DEF IInv
<1> QED
  BY <1>1, Inductive, PTL

(* No receipt is issued for an outcome that was not evaluated and stored   *)
(* first (post_continuity_evaluation_receipt).                             *)
THEOREM NoUnbackedReceipt == Spec => []ReceiptBacked
<1>1. IInv => ReceiptBacked
  BY DEF IInv
<1> QED
  BY <1>1, Inductive, PTL
-----------------------------------------------------------------------------
(* The stores as write-once registers.  A worker about to append found its *)
(* key free; it still is, and nobody else is about to append to it, unless *)
(* the key was contended for.  So a key nobody contended for has one       *)
(* record, and what is served under it is what was first written.          *)
Waits(v) ==
    worker[v].phase = "append" /\ Key(worker[v]) \notin contended =>
        /\ Latest(ledger[worker[v].store], worker[v].record.ref) = None
        /\ \A u \in Workers \ {v} : worker[u].phase = "append" => Key(worker[u]) # Key(worker[v])

OneRecord(s, ref) ==
    <<s, ref>> \notin contended =>
        \A e, f \in Stored(s) : e.ref = ref /\ f.ref = ref => e = f

RegisterInv ==
    /\ IInv
    /\ \A v \in Workers : Waits(v)
    /\ \A s \in Stores, ref \in Refs : OneRecord(s, ref)

NoRecordIsNone ==
    \A s \in Stores : None \notin RecordsOf[s]

LEMMA RecordsAreSomething == NoRecordIsNone
BY NoneAssumption, RecordAssumption, StoreRecords DEF NoRecordIsNone, Stores

(* Where nothing is found, nothing is stored.                              *)
LEMMA LatestMisses ==
    ASSUME NEW R, None \notin R, NEW log \in Seq(R), NEW ref, Latest(log, ref) = None
    PROVE  \A i \in 1 .. Len(log) : log[i].ref # ref
<1> DEFINE matching == {i \in 1 .. Len(log) : log[i].ref = ref}
           last == CHOOSE i \in matching : \A j \in matching : j =< i
<1>1. matching \in SUBSET (1 .. Len(log)) /\ Len(log) \in Nat
  BY LenProperties
<1>2. ASSUME matching # {} PROVE FALSE
  <2>1. Latest(log, ref) = log[last]
    BY <1>2 DEF Latest
  <2>2. \E i \in matching : \A j \in matching : j =< i
    BY ONLY <1>1, <1>2, LastPosition
  <2>3. last \in matching
    BY ONLY <2>2
  <2>4. log[last] \in R
    BY <1>1, <2>3, ElementOfSeq
  <2> QED
    BY <2>1, <2>4
<1> QED
  BY <1>2

(* What is found after an append.                                          *)
LEMMA LatestAfterAppend ==
    ASSUME NEW R, NEW log \in Seq(R), NEW record \in R, NEW ref
    PROVE  Latest(Append(log, record), ref) = IF record.ref = ref THEN record ELSE Latest(log, ref)
<1> DEFINE n == Len(log)
           longer == Append(log, record)
           before == {i \in 1 .. Len(log) : log[i].ref = ref}
           after == {i \in 1 .. Len(longer) : longer[i].ref = ref}
<1>1. /\ n \in Nat
      /\ Len(longer) = n + 1
      /\ \A i \in 1 .. n : longer[i] = log[i]
      /\ longer[n + 1] = record
  BY AppendProperties, LenProperties
<1>2. CASE record.ref = ref
  <2>1. n + 1 \in after /\ \A j \in after : j =< n + 1
    BY <1>1, <1>2
  <2>2. \A i \in after : (\A j \in after : j =< i) => i = n + 1
    BY <1>1, <2>1
  <2>3. (CHOOSE i \in after : \A j \in after : j =< i) = n + 1
    BY ONLY <2>1, <2>2
  <2>4. Latest(longer, ref) = longer[CHOOSE i \in after : \A j \in after : j =< i]
    BY <2>1 DEF Latest
  <2> QED
    BY <1>1, <1>2, <2>3, <2>4
<1>3. CASE record.ref # ref
  <2>1. after = before
    BY <1>1, <1>3
  <2> DEFINE last == CHOOSE i \in before : \A j \in before : j =< i
  <2>2. CASE before = {}
    BY <1>3, <2>1, <2>2 DEF Latest
  <2>3. CASE before # {}
    <3>1. before \in SUBSET (1 .. n)
      OBVIOUS
    <3>2. \E i \in before : \A j \in before : j =< i
      BY ONLY <1>1, <2>3, <3>1, LastPosition
    <3>3. last \in before
      BY ONLY <3>2
    <3>4. longer[last] = log[last]
      BY <1>1, <3>3
    <3>5. Latest(longer, ref) = longer[last] /\ Latest(log, ref) = log[last]
      BY <2>1, <2>3 DEF Latest
    <3> QED
      BY <1>3, <3>4, <3>5
  <2> QED
    BY <2>2, <2>3
<1> QED
  BY <1>2, <1>3

-----------------------------------------------------------------------------
(* Every step but an append turns one worker into a request that, if it is *)
(* to append, has found its key free.                                      *)
FoundFree(x) ==
    x.phase = "append" =>
        /\ x.store \in Stores /\ x.record \in RecordsOf[x.store]
        /\ Latest(ledger[x.store], x.record.ref) = None

LEMMA StoreFindsFree ==
    ASSUME NEW w \in Workers, NEW s \in Stores, NEW record \in RecordsOf[s], Store(w, s, record)
    PROVE  \E x : Become(w, x) /\ FoundFree(x)
<1> DEFINE x == [phase |-> "append", store |-> s, record |-> record]
<1>1. CASE Latest(ledger[s], record.ref) = None
  <2>1. Latest(ledger[s], record.ref) # record
    BY <1>1, RecordsAreSomething DEF NoRecordIsNone
  <2>2. Become(w, x)
    BY <1>1, <2>1 DEF Store
  <2>3. FoundFree(x)
    BY <1>1 DEF FoundFree
  <2> QED
    BY <2>2, <2>3
<1>2. CASE Latest(ledger[s], record.ref) # None
  <2>1. \A reply : FoundFree(Idle(reply))
    BY DEF FoundFree, Idle
  <2>2. Become(w, Idle(200)) \/ Become(w, Idle(409))
    BY <1>2 DEF Store
  <2> QED
    BY <2>1, <2>2
<1> QED
  BY <1>1, <1>2

LEMMA StepShape ==
    ASSUME IInv, NEW w \in Workers, Step(w)
    PROVE  AppendRecord(w) \/ \E x : Become(w, x) /\ FoundFree(x)
<1>0. \A reply : FoundFree(Idle(reply))
  BY DEF FoundFree, Idle
<1>1. CASE \E c \in Commitments : PostCommitment(w, c)
  BY <1>1, StoreFindsFree, StoreRecords DEF PostCommitment, Stores
<1>2. CASE \E ref \in Refs, output \in Outputs : PostEvaluate(w, ref, output)
  <2>1. PICK ref \in Refs, output \in Outputs : PostEvaluate(w, ref, output)
    BY <1>2
  <2> DEFINE x == [phase |-> "evaluated", record |-> EvaluationOf(Latest(ledger["commitments"], ref), output)]
  <2>2. FoundFree(x)
    BY DEF FoundFree
  <2>3. Become(w, Idle(404)) \/ Become(w, Idle(500)) \/ Become(w, x)
    BY <2>1 DEF PostEvaluate
  <2> QED
    BY <1>0, <2>2, <2>3
<1>3. CASE StoreEvaluation(w)
  <2>1. worker[w].record \in RecordsOf["evaluations"]
    BY <1>3, PhaseFields, StoreRecords DEF StoreEvaluation, IInv, TypeOK
  <2> QED
    BY <1>3, <2>1, StoreFindsFree DEF StoreEvaluation, Stores
<1>4. CASE \E ref \in Refs : PostReceipt(w, ref)
  <2>1. PICK ref \in Refs : PostReceipt(w, ref)
    BY <1>4
  <2> DEFINE x == [phase |-> "found", evaluation |-> Latest(ledger["evaluations"], ref)]
  <2>2. FoundFree(x)
    BY DEF FoundFree
  <2>3. Become(w, Idle(404)) \/ Become(w, x)
    BY <2>1 DEF PostReceipt
  <2> QED
    BY <1>0, <2>2, <2>3
<1>5. CASE SignReceipt(w)
  <2> DEFINE x(instant) == [phase |-> "signed", record |-> ReceiptFor(worker[w].evaluation, instant)]
  <2>1. \A instant : FoundFree(x(instant))
    BY DEF FoundFree
  <2>2. Become(w, Idle(200)) \/ Become(w, Idle(503)) \/ \E instant : Become(w, x(instant))
    BY <1>5 DEF SignReceipt
  <2> QED
    BY <1>0, <2>1, <2>2, ZenonT(30)
<1>6. CASE StoreReceipt(w)
  <2>1. worker[w].record \in RecordsOf["receipts"]
    BY <1>6, PhaseFields, StoreRecords DEF StoreReceipt, IInv, TypeOK
  <2> QED
    BY <1>6, <2>1, StoreFindsFree DEF StoreReceipt, Stores
<1>7. CASE AppendRecord(w) \/ AppendFails(w)
  BY <1>0, <1>7 DEF AppendFails
<1> QED
  BY <1>1, <1>2, <1>3, <1>4, <1>5, <1>6, <1>7 DEF Step

(* A worker that joins those about to append: a key it shares with another *)
(* is contended for from now on.                                           *)
LEMMA BecomeRegisters ==
    ASSUME RegisterInv, IInv', NEW w \in Workers, NEW x, Become(w, x), FoundFree(x)
    PROVE  RegisterInv'
<1>1. /\ worker'[w] = x
      /\ \A v \in Workers \ {w} : worker'[v] = worker[v]
  BY DEF Become, RegisterInv, IInv, TypeOK
<1>2. ledger' = ledger /\ contended \subseteq contended'
  BY DEF Become
<1>3. ASSUME NEW v \in Workers \ {w}, x.phase = "append", worker[v].phase = "append", Key(worker[v]) = Key(x)
      PROVE  Key(x) \in contended'
  BY <1>3 DEF Become, Appending
<1>4. \A v \in Workers : Waits(v)'
  <2> SUFFICES ASSUME NEW v \in Workers, worker'[v].phase = "append", Key(worker'[v]) \notin contended'
               PROVE  /\ Latest(ledger'[worker'[v].store], worker'[v].record.ref) = None
                      /\ \A u \in Workers \ {v} : worker'[u].phase = "append" => Key(worker'[u]) # Key(worker'[v])
    BY DEF Waits, Key
  <2>1. CASE v = w
    BY <1>1, <1>2, <1>3, <2>1 DEF FoundFree
  <2>2. CASE v # w
    <3>1. Waits(v) /\ worker'[v] = worker[v]
      BY <1>1, <2>2 DEF RegisterInv
    <3>2. \A u \in Workers \ {v, w} : worker'[u].phase = "append" => Key(worker'[u]) # Key(worker'[v])
      BY <1>1, <1>2, <3>1 DEF Waits
    <3>3. worker'[w].phase = "append" => Key(worker'[w]) # Key(worker'[v])
      BY <1>1, <1>3, <2>2, <3>1
    <3> QED
      BY <1>2, <3>1, <3>2, <3>3 DEF Waits
  <2> QED
    BY <2>1, <2>2
<1>5. \A s \in Stores, ref \in Refs : OneRecord(s, ref)'
  BY <1>2 DEF RegisterInv, OneRecord, Stored
<1> QED
  BY <1>4, <1>5 DEF RegisterInv

(* An append to a key nobody contended for is its first.                   *)
LEMMA AppendRegisters ==
    ASSUME RegisterInv, IInv', NEW w \in Workers, AppendRecord(w)
    PROVE  /\ RegisterInv'
           /\ \E s \in Stores, ref \in Refs :
                /\ Latest(ledger[s], ref) = None \/ <<s, ref>> \in contended
                /\ \A t \in Stores, other \in Refs :
                        <<t, other>> # <<s, ref>> => Latest(ledger'[t], other) = Latest(ledger[t], other)
<1>0. PICK s \in Stores : s = worker[w].store
  BY PhaseFields DEF AppendRecord, RegisterInv, IInv, TypeOK
<1>1. PICK record \in RecordsOf[s] : record = worker[w].record
  BY <1>0, PhaseFields DEF AppendRecord, RegisterInv, IInv, TypeOK
<1>2. PICK ref \in Refs : ref = record.ref
  BY <1>1, RecordRefs
<1>3. Key(worker[w]) = <<s, ref>>
  BY <1>0, <1>1, <1>2 DEF Key
<1>4. /\ ledger' = [ledger EXCEPT ![s] = Append(@, record)]
      /\ contended' = contended
      /\ worker'[w].phase = "idle"
      /\ \A v \in Workers \ {w} : worker'[v] = worker[v]
  BY <1>0, <1>1 DEF AppendRecord, Idle, RegisterInv, IInv, TypeOK
<1>5. /\ ledger[s] \in Seq(RecordsOf[s])
      /\ ledger'[s] = Append(ledger[s], record)
      /\ \A t \in Stores \ {s} : ledger'[t] = ledger[t]
  BY <1>4 DEF RegisterInv, IInv, TypeOK
<1>6. /\ Stored(s)' = Stored(s) \cup {record}
      /\ \A t \in Stores \ {s} : Stored(t)' = Stored(t)
  BY <1>4, StoredGrows DEF RegisterInv, IInv, TypeOK
<1>7. \A t \in Stores, other \in Refs :
        <<t, other>> # <<s, ref>> => Latest(ledger'[t], other) = Latest(ledger[t], other)
  <2>1. \A other : other # ref => Latest(Append(ledger[s], record), other) = Latest(ledger[s], other)
    BY <1>2, <1>5, LatestAfterAppend
  <2> QED
    BY <1>5, <2>1
<1>8. <<s, ref>> \notin contended => Latest(ledger[s], ref) = None
  BY <1>0, <1>1, <1>2, <1>3 DEF RegisterInv, Waits, AppendRecord
<1>9. \A v \in Workers : Waits(v)'
  <2> SUFFICES ASSUME NEW v \in Workers, worker'[v].phase = "append", Key(worker'[v]) \notin contended'
               PROVE  /\ Latest(ledger'[worker'[v].store], worker'[v].record.ref) = None
                      /\ \A u \in Workers \ {v} : worker'[u].phase = "append" => Key(worker'[u]) # Key(worker'[v])
    BY DEF Waits, Key
  <2>1. v # w /\ worker'[v] = worker[v] /\ Waits(v)
    BY <1>4 DEF RegisterInv
  <2>2. Key(worker[w]) # Key(worker[v])
    BY <1>4, <2>1 DEF Waits, AppendRecord
  <2>3. worker[v].store \in Stores /\ worker[v].record.ref \in Refs
    BY <2>1, PhaseFields, RecordRefs DEF RegisterInv, IInv, TypeOK
  <2>4. <<worker[v].store, worker[v].record.ref>> # <<s, ref>>
    BY <1>3, <2>2 DEF Key
  <2>5. Latest(ledger'[worker[v].store], worker[v].record.ref)
          = Latest(ledger[worker[v].store], worker[v].record.ref)
    BY <1>7, <2>3, <2>4
  <2>6. \A u \in Workers \ {v} : worker'[u].phase = "append" => u # w /\ worker'[u] = worker[u]
    BY <1>4
  <2> QED
    BY <1>4, <2>1, <2>5, <2>6 DEF Waits
<1>10. \A t \in Stores, other \in Refs : OneRecord(t, other)'
  <2> SUFFICES ASSUME NEW t \in Stores, NEW other \in Refs, <<t, other>> \notin contended',
                      NEW e \in Stored(t)', NEW f \in Stored(t)', e.ref = other, f.ref = other
               PROVE  e = f
    BY DEF OneRecord
  <2>1. e \in Stored(t) /\ f \in Stored(t) => e = f
    BY <1>4 DEF RegisterInv, OneRecord
  <2>2. CASE t # s \/ other # ref
    BY <1>2, <1>6, <2>1, <2>2
  <2>3. CASE t = s /\ other = ref
    <3>1. Latest(ledger[s], ref) = None
      BY <1>4, <1>8, <2>3
    <3>2. \A i \in 1 .. Len(ledger[s]) : ledger[s][i].ref # ref
      BY <1>5, <3>1, LatestMisses, RecordsAreSomething DEF NoRecordIsNone
    <3>3. \A r \in Stored(s) : r.ref # ref
      BY <3>2 DEF Stored
    <3> QED
      BY <1>6, <2>3, <3>3
  <2> QED
    BY <2>2, <2>3
<1> QED
  BY <1>7, <1>8, <1>9, <1>10 DEF RegisterInv

LEMMA InitRegisters == Init => RegisterInv
<1> SUFFICES ASSUME Init PROVE RegisterInv
  OBVIOUS
<1>1. \A s \in Stores : Stored(s) = {}
  BY DEF Init, Stored
<1>2. \A w \in Workers : worker[w].phase = "idle"
  BY DEF Init, Idle
<1> QED
  BY <1>1, <1>2, InitIInv DEF RegisterInv, Waits, OneRecord

(* One step of one store as its register sees it: a write to a key that is *)
(* free or contended for, a key contended for from now on, or nothing.     *)
Written(s, ref) ==
    /\ Latest(ledger[s], ref) = None \/ <<s, ref>> \in contended
    /\ \A other \in Refs \ {ref} : Latest(ledger'[s], other) = Latest(ledger[s], other)
    /\ Contended(s)' = Contended(s)

Untouched(s) == Register(s)' = Register(s)

RegisterStep(s) ==
    \/ \E ref \in Refs : Written(s, ref)
    \/ Untouched(s) /\ \E ref \in Refs : Contended(s)' = Contended(s) \cup {ref}
    \/ Untouched(s) /\ Contended(s)' = Contended(s)

LEMMA NextRegisters ==
    ASSUME RegisterInv, [Next]_vars
    PROVE  RegisterInv' /\ \A s \in Stores : RegisterStep(s)
<1>0. IInv'
  BY NextIInv DEF RegisterInv
<1>1. ASSUME ledger' = ledger, contended' = contended
      PROVE  \A s \in Stores : RegisterStep(s)
  BY <1>1 DEF RegisterStep, Untouched, Register, Contended
<1>2. CASE UNCHANGED vars
  <2>1. RegisterInv'
    BY <1>0, <1>2 DEF vars, RegisterInv, Waits, OneRecord, Stored
  <2> QED
    BY <1>1, <1>2, <2>1 DEF vars
<1>3. CASE Restart
  <2>1. ledger' = ledger /\ contended' = contended /\ \A v \in Workers : worker'[v].phase = "idle"
    BY <1>3 DEF Restart, Idle
  <2>2. RegisterInv'
    BY <1>0, <2>1 DEF RegisterInv, Waits, OneRecord, Stored
  <2> QED
    BY <1>1, <2>1, <2>2
<1>4. ASSUME NEW w \in Workers, NEW x, Become(w, x), FoundFree(x)
      PROVE  RegisterInv' /\ \A s \in Stores : RegisterStep(s)
  <2>1. RegisterInv'
    BY <1>0, <1>4, BecomeRegisters
  <2>2. ledger' = ledger
    BY <1>4 DEF Become
  <2>3. contended' = contended \/ (x.phase = "append" /\ contended' = contended \cup {Key(x)})
    BY <1>4 DEF Become
  <2>4. x.phase = "append" => \E t \in Stores, ref \in Refs : Key(x) = <<t, ref>>
    BY <1>4, RecordRefs DEF FoundFree, Key
  <2>5. ASSUME NEW t \in Stores, NEW ref \in Refs, contended' = contended \cup {<<t, ref>>}, NEW s \in Stores
        PROVE  RegisterStep(s)
    <3>1. Untouched(s)
      BY <2>2 DEF Untouched, Register
    <3>2. CASE s = t
      BY <2>5, <3>1, <3>2 DEF RegisterStep, Contended
    <3>3. CASE s # t
      BY <2>5, <3>1, <3>3 DEF RegisterStep, Contended
    <3> QED
      BY <3>2, <3>3
  <2> QED
    BY <1>1, <2>1, <2>2, <2>3, <2>4, <2>5
<1>5. ASSUME NEW w \in Workers, AppendRecord(w)
      PROVE  RegisterInv' /\ \A s \in Stores : RegisterStep(s)
  <2>1. RegisterInv'
    BY <1>0, <1>5, AppendRegisters
  <2>2. contended' = contended
    BY <1>5 DEF AppendRecord
  <2>3. PICK t \in Stores, ref \in Refs :
          /\ Latest(ledger[t], ref) = None \/ <<t, ref>> \in contended
          /\ \A u \in Stores, other \in Refs :
                <<u, other>> # <<t, ref>> => Latest(ledger'[u], other) = Latest(ledger[u], other)
    BY <1>0, <1>5, AppendRegisters
  <2>4. ASSUME NEW s \in Stores PROVE RegisterStep(s)
    <3>1. Contended(s)' = Contended(s)
      BY <2>2 DEF Contended
    <3>2. CASE s = t
      <4>1. Written(s, ref)
        BY <2>3, <3>1, <3>2 DEF Written
      <4> QED
        BY <4>1 DEF RegisterStep
    <3>3. CASE s # t
      <4>1. \A other \in Refs : Latest(ledger'[s], other) = Latest(ledger[s], other)
        BY <2>3, <3>3
      <4> QED
        BY <3>1, <4>1 DEF RegisterStep, Untouched, Register
    <3> QED
      BY <3>2, <3>3
  <2> QED
    BY <2>1, <2>4
<1>6. ASSUME NEW w \in Workers, Step(w)
      PROVE  RegisterInv' /\ \A s \in Stores : RegisterStep(s)
  BY <1>4, <1>5, <1>6, StepShape DEF RegisterInv
<1> QED
  BY <1>2, <1>3, <1>6 DEF Next

(* Nothing is ever taken off a ledger.                                     *)
LEMMA RecordsAreKept ==
    ASSUME IInv, [Next]_vars
    PROVE  \A s \in Stores : Stored(s) \subseteq Stored(s)'
<1>1. ASSUME ledger' = ledger PROVE \A s \in Stores : Stored(s) \subseteq Stored(s)'
  BY <1>1 DEF Stored
<1>2. ASSUME NEW w \in Workers, AppendRecord(w)
      PROVE  \A s \in Stores : Stored(s) \subseteq Stored(s)'
  <2>1. worker[w].store \in Stores /\ worker[w].record \in RecordsOf[worker[w].store]
    BY <1>2, PhaseFields DEF AppendRecord, IInv, TypeOK
  <2>2. PICK t \in Stores : t = worker[w].store
    BY <2>1
  <2>3. PICK record \in RecordsOf[t] : record = worker[w].record
    BY <2>1, <2>2
  <2>4. ledger' = [ledger EXCEPT ![t] = Append(@, record)]
    BY <1>2, <2>2, <2>3 DEF AppendRecord
  <2>5. ledger[t] \in Seq(RecordsOf[t]) /\ DOMAIN ledger = Stores
    BY DEF IInv, TypeOK
  <2> QED
    BY <2>4, <2>5, StoredGrows
<1>3. ASSUME NEW w \in Workers, Step(w)
      PROVE  \A s \in Stores : Stored(s) \subseteq Stored(s)'
  BY <1>1, <1>2, <1>3, StepShape DEF Become
<1> QED
  BY <1>1, <1>3 DEF Next, Restart, vars

(* What is stored under an action_ref is found there.                      *)
LEMMA StoredIsFound ==
    ASSUME TypeOK, NEW s \in Stores, NEW record \in Stored(s)
    PROVE  Latest(ledger[s], record.ref) # None
<1>1. ledger[s] \in Seq(RecordsOf[s]) /\ None \notin RecordsOf[s]
  BY RecordsAreSomething DEF TypeOK, NoRecordIsNone
<1> QED
  BY <1>1, LatestMisses DEF Stored

LEMMA RegistersInductive == Spec => []RegisterInv
BY InitRegisters, NextRegisters, PTL DEF Spec

(* Two clients reading an action_ref see a receipt and an evaluation that  *)
(* agree, unless evaluations contended for the action_ref.                 *)
THEOREM ReceiptAgreesWithEvaluation == Spec => []ServedReceiptAgrees
<1>1. RegisterInv => ServedReceiptAgrees
  <2> SUFFICES ASSUME RegisterInv, NEW ref \in Refs,
                      Latest(ledger["receipts"], ref) # None, <<"evaluations", ref>> \notin contended
               PROVE  /\ Latest(ledger["evaluations"], ref) # None
                      /\ Latest(ledger["receipts"], ref).state = Latest(ledger["evaluations"], ref).result
                      /\ Latest(ledger["receipts"], ref).reason = Latest(ledger["evaluations"], ref).reason
    BY DEF ServedReceiptAgrees
  <2>1. TypeOK /\ ReceiptBacked /\ "receipts" \in Stores /\ "evaluations" \in Stores
    BY DEF RegisterInv, IInv, Stores
  <2>2. PICK r \in Stored("receipts") : r = Latest(ledger["receipts"], ref) /\ r.ref = ref
    BY <2>1, LatestIsStored
  <2>3. PICK e \in Stored("evaluations") : e.ref = ref /\ r.state = e.result /\ r.reason = e.reason
    BY <2>1, <2>2 DEF ReceiptBacked
  <2>5. Latest(ledger["evaluations"], ref) # None
    BY <2>1, <2>3, StoredIsFound
  <2>6. /\ Latest(ledger["evaluations"], ref) \in Stored("evaluations")
        /\ Latest(ledger["evaluations"], ref).ref = ref
    BY <2>1, <2>5, LatestIsStored
  <2>7. OneRecord("evaluations", ref)
    BY <2>1 DEF RegisterInv
  <2>8. Latest(ledger["evaluations"], ref) = e
    BY <2>3, <2>6, <2>7 DEF OneRecord
  <2> QED
    BY <2>2, <2>3, <2>5, <2>8
<1> QED
  BY <1>1, RegistersInductive, PTL

(* Each store implements a write-once register per action_ref: what is     *)
(* read under one never changes, unless two requests contended for it      *)
(* (store_* of the three stores).                                          *)
THEOREM ImplementsWriteOnce == Spec => StoresWriteOnce
<1>1. Init => CommitmentRegister!Init /\ EvaluationRegister!Init /\ ReceiptRegister!Init
  <2> SUFFICES ASSUME Init
               PROVE  CommitmentRegister!Init /\ EvaluationRegister!Init /\ ReceiptRegister!Init
    OBVIOUS
  <2>1. \A ref : Latest(<<>>, ref) = None
    BY DEF Latest
  <2>2. \A s \in Stores : Register(s) = [ref \in Refs |-> None] /\ Contended(s) = {}
    BY <2>1 DEF Init, Register, Contended
  <2> QED
    BY <2>2 DEF CommitmentRegister!Init, EvaluationRegister!Init, ReceiptRegister!Init, Stores
<1>2. RegisterInv /\ [Next]_vars =>
        /\ [CommitmentRegister!Next]_<<Register("commitments"), Contended("commitments")>>
        /\ [EvaluationRegister!Next]_<<Register("evaluations"), Contended("evaluations")>>
        /\ [ReceiptRegister!Next]_<<Register("receipts"), Contended("receipts")>>
  <2> SUFFICES ASSUME RegisterInv, [Next]_vars
               PROVE  /\ [CommitmentRegister!Next]_<<Register("commitments"), Contended("commitments")>>
                      /\ [EvaluationRegister!Next]_<<Register("evaluations"), Contended("evaluations")>>
                      /\ [ReceiptRegister!Next]_<<Register("receipts"), Contended("receipts")>>
    OBVIOUS
  <2>1. \A s \in Stores : RegisterStep(s)
    BY NextRegisters
  <2>2. \A s \in Stores, ref \in Refs : Written(s, ref) =>
          /\ Register(s)[ref] = None \/ ref \in Contended(s)
          /\ \A other \in Refs \ {ref} : Register(s)'[other] = Register(s)[other]
          /\ DOMAIN Register(s)' = Refs
          /\ Contended(s)' = Contended(s)
    BY DEF Written, Register, Contended
  <2>3. [CommitmentRegister!Next]_<<Register("commitments"), Contended("commitments")>>
    BY <2>1, <2>2 DEF RegisterStep, Untouched, Stores,
       CommitmentRegister!Next, CommitmentRegister!Write, CommitmentRegister!Contend
  <2>4. [EvaluationRegister!Next]_<<Register("evaluations"), Contended("evaluations")>>
    BY <2>1, <2>2 DEF RegisterStep, Untouched, Stores,
       EvaluationRegister!Next, EvaluationRegister!Write, EvaluationRegister!Contend
  <2>5. [ReceiptRegister!Next]_<<Register("receipts"), Contended("receipts")>>
    BY <2>1, <2>2 DEF RegisterStep, Untouched, Stores,
       ReceiptRegister!Next, ReceiptRegister!Write, ReceiptRegister!Contend
  <2> QED
    BY <2>3, <2>4, <2>5
<1> QED
  BY <1>1, <1>2, InitRegisters, NextRegisters, PTL
  DEF Spec, StoresWriteOnce, CommitmentRegister!Spec, EvaluationRegister!Spec, ReceiptRegister!Spec

-----------------------------------------------------------------------------
(* How far a race goes: a worker joins those about to append to a key only *)
(* while nothing is stored under it, so records and workers about to       *)
(* append are together never more than the pool.                           *)
Positions(s, ref) == {i \in 1 .. Len(ledger[s]) : ledger[s][i].ref = ref}

AboutTo(s, ref) == {v \in Workers : worker[v].phase = "append" /\ Key(worker[v]) = <<s, ref>>}

Budget(s, ref) == Cardinality(Positions(s, ref)) + Cardinality(AboutTo(s, ref)) =< Cardinality(Workers)

BudgetInv ==
    /\ RegisterInv
    /\ \A s \in Stores, ref \in Refs : Budget(s, ref)

LEMMA FiniteBudget ==
    ASSUME IInv, NEW s \in Stores, NEW ref
    PROVE  /\ IsFiniteSet(Positions(s, ref)) /\ Cardinality(Positions(s, ref)) \in Nat
           /\ IsFiniteSet(AboutTo(s, ref)) /\ Cardinality(AboutTo(s, ref)) \in Nat
           /\ Cardinality(AboutTo(s, ref)) =< Cardinality(Workers)
           /\ Cardinality(Workers) \in Nat
<1>1. Len(ledger[s]) \in Nat
  BY LenProperties DEF IInv, TypeOK
<1>2. IsFiniteSet(1 .. Len(ledger[s]))
  BY <1>1, FS_Interval
<1>3. IsFiniteSet(Positions(s, ref))
  BY <1>2, FS_Subset DEF Positions
<1>4. IsFiniteSet(AboutTo(s, ref)) /\ Cardinality(AboutTo(s, ref)) =< Cardinality(Workers)
  BY WorkersAssumption, FS_Subset DEF AboutTo
<1> QED
  BY <1>3, <1>4, WorkersAssumption, FS_CardinalityType

(* Nothing is stored under a free key.                                     *)
LEMMA FreeHasNoPosition ==
    ASSUME IInv, NEW s \in Stores, NEW ref, Latest(ledger[s], ref) = None
    PROVE  Positions(s, ref) = {}
BY LatestMisses, RecordsAreSomething DEF NoRecordIsNone, IInv, TypeOK, Positions

LEMMA BecomeBudget ==
    ASSUME BudgetInv, RegisterInv', NEW w \in Workers, NEW x, Become(w, x), FoundFree(x)
    PROVE  BudgetInv'
<1>1. /\ worker'[w] = x
      /\ \A v \in Workers \ {w} : worker'[v] = worker[v]
  BY DEF Become, BudgetInv, RegisterInv, IInv, TypeOK
<1>2. ledger' = ledger
  BY DEF Become
<1> SUFFICES ASSUME NEW s \in Stores, NEW ref \in Refs PROVE Budget(s, ref)'
  BY DEF BudgetInv
<1>3. Positions(s, ref)' = Positions(s, ref)
  BY <1>2 DEF Positions
<1>4. IInv /\ IInv'
  BY DEF BudgetInv, RegisterInv
<1>5. CASE x.phase = "append" /\ Key(x) = <<s, ref>>
  <2>1. Latest(ledger[s], ref) = None
    BY <1>5 DEF FoundFree, Key
  <2>2. Positions(s, ref)' = {}
    BY <1>3, <1>4, <2>1, FreeHasNoPosition
  <2>3. Cardinality(Positions(s, ref)') = 0
    BY <2>2, FS_EmptySet
  <2>4. /\ Cardinality(AboutTo(s, ref)') \in Nat
        /\ Cardinality(AboutTo(s, ref)') =< Cardinality(Workers)
    BY <1>4, FiniteBudget, WorkersAssumption, FS_Subset, FS_CardinalityType DEF AboutTo
  <2> QED
    BY <2>3, <2>4 DEF Budget
<1>6. CASE ~(x.phase = "append" /\ Key(x) = <<s, ref>>)
  <2>1. AboutTo(s, ref)' \subseteq AboutTo(s, ref)
    BY <1>1, <1>6 DEF AboutTo, Key
  <2>2. IsFiniteSet(AboutTo(s, ref)) /\ Cardinality(AboutTo(s, ref)) \in Nat
    BY <1>4, FiniteBudget
  <2>3. /\ Cardinality(AboutTo(s, ref)') \in Nat
        /\ Cardinality(AboutTo(s, ref)') =< Cardinality(AboutTo(s, ref))
    BY <2>1, <2>2, FS_Subset, FS_CardinalityType
  <2>4. Budget(s, ref) /\ Cardinality(Positions(s, ref)) \in Nat /\ Cardinality(Workers) \in Nat
    BY <1>4, FiniteBudget DEF BudgetInv
  <2> QED
    BY <1>3, <2>2, <2>3, <2>4 DEF Budget
<1> QED
  BY <1>5, <1>6

LEMMA AppendBudget ==
    ASSUME BudgetInv, RegisterInv', NEW w \in Workers, AppendRecord(w)
    PROVE  BudgetInv'
<1>1. IInv /\ IInv'
  BY DEF BudgetInv, RegisterInv
<1>2. PICK t \in Stores : t = worker[w].store
  BY <1>1, PhaseFields DEF AppendRecord, IInv, TypeOK
<1>3. PICK record \in RecordsOf[t] : record = worker[w].record
  BY <1>1, <1>2, PhaseFields DEF AppendRecord, IInv, TypeOK
<1>4. /\ worker'[w].phase = "idle"
      /\ \A v \in Workers \ {w} : worker'[v] = worker[v]
      /\ ledger[t] \in Seq(RecordsOf[t])
      /\ ledger'[t] = Append(ledger[t], record)
      /\ \A s \in Stores \ {t} : ledger'[s] = ledger[s]
  BY <1>1, <1>2, <1>3 DEF AppendRecord, Idle, IInv, TypeOK
<1> DEFINE n == Len(ledger[t])
<1>5. /\ n \in Nat
      /\ Len(ledger'[t]) = n + 1
      /\ \A i \in 1 .. n : ledger'[t][i] = ledger[t][i]
      /\ ledger'[t][n + 1] = record
  BY <1>4, LenProperties, AppendProperties
<1> SUFFICES ASSUME NEW s \in Stores, NEW ref \in Refs PROVE Budget(s, ref)'
  BY DEF BudgetInv
<1>6. /\ Budget(s, ref)
      /\ IsFiniteSet(Positions(s, ref)) /\ Cardinality(Positions(s, ref)) \in Nat
      /\ IsFiniteSet(AboutTo(s, ref)) /\ Cardinality(AboutTo(s, ref)) \in Nat
      /\ Cardinality(Workers) \in Nat
  BY <1>1, FiniteBudget DEF BudgetInv
<1>7. CASE s = t /\ record.ref = ref
  <2>1. Positions(s, ref)' = Positions(s, ref) \cup {n + 1} /\ n + 1 \notin Positions(s, ref)
    BY <1>5, <1>7, SMTT(30) DEF Positions
  <2>2. Cardinality(Positions(s, ref)') = Cardinality(Positions(s, ref)) + 1
    BY <1>6, <2>1, FS_AddElement
  <2>3. AboutTo(s, ref)' = AboutTo(s, ref) \ {w} /\ w \in AboutTo(s, ref)
    BY <1>2, <1>3, <1>4, <1>7 DEF AboutTo, Key, AppendRecord
  <2>4. Cardinality(AboutTo(s, ref)') = Cardinality(AboutTo(s, ref)) - 1
    <3>1. PICK about : about = AboutTo(s, ref)
      OBVIOUS
    <3>2. Cardinality(about \ {w}) = Cardinality(about) - 1
      BY <1>6, <2>3, <3>1, FS_RemoveElement
    <3> QED
      BY <2>3, <3>1, <3>2
  <2> QED
    BY <1>6, <2>2, <2>4 DEF Budget
<1>8. CASE ~(s = t /\ record.ref = ref)
  <2>1. Positions(s, ref)' = Positions(s, ref)
    <3>1. CASE s = t
      BY <1>5, <1>8, <3>1 DEF Positions
    <3>2. CASE s # t
      BY <1>4, <3>2 DEF Positions
    <3> QED
      BY <3>1, <3>2
  <2>2. AboutTo(s, ref)' \subseteq AboutTo(s, ref)
    BY <1>4 DEF AboutTo, Key
  <2>3. /\ Cardinality(AboutTo(s, ref)') \in Nat
        /\ Cardinality(AboutTo(s, ref)') =< Cardinality(AboutTo(s, ref))
    BY <1>6, <2>2, FS_Subset, FS_CardinalityType
  <2> QED
    BY <1>6, <2>1, <2>3 DEF Budget
<1> QED
  BY <1>7, <1>8

LEMMA InitBudget == Init => BudgetInv
<1> SUFFICES ASSUME Init, NEW s \in Stores, NEW ref \in Refs PROVE Budget(s, ref)
  BY InitRegisters DEF BudgetInv
<1>1. Positions(s, ref) = {} /\ AboutTo(s, ref) = {}
  BY DEF Init, Positions, AboutTo, Idle
<1> QED
  BY <1>1, FS_EmptySet, WorkersAssumption, FS_CardinalityType DEF Budget

LEMMA NextBudget ==
    ASSUME BudgetInv, [Next]_vars
    PROVE  BudgetInv'
<1>0. RegisterInv'
  BY NextRegisters DEF BudgetInv
<1>1. CASE UNCHANGED vars
  BY <1>0, <1>1 DEF vars, BudgetInv, Budget, Positions, AboutTo
<1>2. CASE Restart
  <2>1. ledger' = ledger /\ \A v \in Workers : worker'[v].phase = "idle"
    BY <1>2 DEF Restart, Idle
  <2> SUFFICES ASSUME NEW s \in Stores, NEW ref \in Refs PROVE Budget(s, ref)'
    BY <1>0 DEF BudgetInv
  <2>2. Positions(s, ref)' = Positions(s, ref) /\ AboutTo(s, ref)' = {}
    BY <2>1 DEF Positions, AboutTo
  <2>3. /\ Budget(s, ref) /\ Cardinality(Positions(s, ref)) \in Nat
        /\ Cardinality(AboutTo(s, ref)) \in Nat /\ Cardinality(Workers) \in Nat
    BY FiniteBudget DEF BudgetInv, RegisterInv
  <2> QED
    BY <2>2, <2>3, FS_EmptySet DEF Budget
<1>3. ASSUME NEW w \in Workers, Step(w) PROVE BudgetInv'
  BY <1>0, <1>3, StepShape, BecomeBudget, AppendBudget DEF BudgetInv, RegisterInv
<1> QED
  BY <1>1, <1>2, <1>3 DEF Next

(* A race appends at most one record per worker to one action_ref          *)
(* (store_*: the gap between get_* and append_jsonl).                      *)
THEOREM RacesAreBounded == Spec => []RaceIsBounded
<1>1. BudgetInv => RaceIsBounded
  <2> SUFFICES ASSUME BudgetInv, NEW s \in Stores, NEW ref \in Refs
               PROVE  Cardinality(Positions(s, ref)) =< Cardinality(Workers)
    BY DEF RaceIsBounded, Positions
  <2> QED
    BY FiniteBudget DEF BudgetInv, RegisterInv, Budget
<1> QED
  BY <1>1, InitBudget, NextBudget, PTL DEF Spec
-----------------------------------------------------------------------------
(* The evaluator.  What its aggregation loop computes for every array of   *)
(* checks is proved by a least counterexample: the flags after n checks    *)
(* are the two summaries below.                                            *)

Less == {pair \in Nat \X Nat : pair[1] < pair[2]}

LEMMA LeastElement ==
    ASSUME NEW T, T \subseteq Nat, T # {}
    PROVE  \E m \in T : \A n \in T : m =< n
<1>1. IsWellFoundedOn(Less, Nat)
  BY NatLessThanWellFounded DEF OpToRel, Less
<1>2. PICK m \in T : \A n \in T : <<n, m>> \notin Less
  BY <1>1, WFMin
<1>3. \A n \in T : ~(n < m)
  BY <1>2 DEF Less
<1> QED
  BY <1>2, <1>3

FailsHard(check, out) ==
    CheckStatus(check, out) = "unsatisfied" /\ check.failure_behavior \in {None, "FAIL"}

LeavesOpen(check, out) ==
    \/ CheckStatus(check, out) = "unevaluable"
    \/ CheckStatus(check, out) = "unsatisfied" /\ check.failure_behavior \notin {None, "FAIL"}

Summary(checks, out, n) ==
    [hard_fail     |-> \E i \in 1 .. n : FailsHard(checks[i], out),
     indeterminate |-> \E i \in 1 .. n : LeavesOpen(checks[i], out)]

(* f is the run of the aggregation loop over the checks.                   *)
NoFlags == [hard_fail |-> FALSE, indeterminate |-> FALSE]

Turn(f, checks, out, n) == IF n = 0 THEN NoFlags ELSE Aggregate(f[n - 1], checks[n], out)

IsLoop(f, checks, out) == f = [n \in 0 .. Len(checks) |-> Turn(f, checks, out, n)]

LEMMA StatusRange ==
    ASSUME NEW check, NEW out
    PROVE  CheckStatus(check, out) \in {"satisfied", "unsatisfied", "unevaluable"}
BY DEF CheckStatus, HashStatus, PathStatus, Verdict

(* One more check adds its own share to the summary.                       *)
LEMMA SummaryStep ==
    ASSUME NEW checks, NEW out, NEW n \in Nat \ {0}
    PROVE  Summary(checks, out, n) = Aggregate(Summary(checks, out, n - 1), checks[n], out)
<1> DEFINE before == Summary(checks, out, n - 1)
           after == Summary(checks, out, n)
           hard == before.hard_fail \/ FailsHard(checks[n], out)
           open == before.indeterminate \/ LeavesOpen(checks[n], out)
<1>1. 1 .. n = (1 .. n - 1) \cup {n}
  OBVIOUS
<1>2. /\ before.hard_fail = (\E i \in 1 .. n - 1 : FailsHard(checks[i], out))
      /\ before.indeterminate = (\E i \in 1 .. n - 1 : LeavesOpen(checks[i], out))
  BY DEF Summary
<1>3. (\E i \in 1 .. n : FailsHard(checks[i], out)) <=> hard
  BY <1>1, <1>2, Zenon
<1>4. (\E i \in 1 .. n : LeavesOpen(checks[i], out)) <=> open
  BY <1>1, <1>2, Zenon
<1>5. after = [hard_fail |-> hard, indeterminate |-> open]
  BY <1>3, <1>4, Zenon DEF Summary
<1>6. Aggregate(before, checks[n], out) = [hard_fail |-> hard, indeterminate |-> open]
  BY Zenon DEF Aggregate, FailsHard, LeavesOpen
<1> QED
  BY <1>5, <1>6

LEMMA SummaryIsLoop ==
    ASSUME NEW checks, NEW out, Len(checks) \in Nat
    PROVE  IsLoop([n \in 0 .. Len(checks) |-> Summary(checks, out, n)], checks, out)
<1> DEFINE g == [n \in 0 .. Len(checks) |-> Summary(checks, out, n)]
<1>1. ASSUME NEW n \in 0 .. Len(checks) PROVE g[n] = Turn(g, checks, out, n)
  <2>1. CASE n = 0
    <3>1. Summary(checks, out, 0) = NoFlags
      <4>1. 1 .. 0 = {}
        OBVIOUS
      <4> QED
        BY <4>1, Zenon DEF Summary, NoFlags
    <3> QED
      BY <2>1, <3>1 DEF Turn
  <2>2. CASE n # 0
    <3>1. n \in Nat \ {0} /\ n - 1 \in 0 .. Len(checks)
      BY <2>2
    <3>2. g[n - 1] = Summary(checks, out, n - 1) /\ g[n] = Summary(checks, out, n)
      BY <3>1
    <3> QED
      BY <2>2, <3>1, <3>2, SummaryStep DEF Turn
  <2> QED
    BY <2>1, <2>2
<1> QED
  BY <1>1, Zenon DEF IsLoop

LEMMA FlagsAreLoop ==
    ASSUME NEW checks, NEW out, Len(checks) \in Nat
    PROVE  IsLoop(FlagsAfter(checks, out), checks, out)
<1>1. FlagsAfter(checks, out) = CHOOSE f : IsLoop(f, checks, out)
  BY DEF FlagsAfter, IsLoop, Turn, NoFlags
<1>2. \E f : IsLoop(f, checks, out)
  BY SummaryIsLoop
<1> QED
  BY <1>1, <1>2

(* After n checks the loop has summarised the first n.                     *)
LEMMA LoopSummarises ==
    ASSUME NEW checks, NEW out, Len(checks) \in Nat, NEW n \in 0 .. Len(checks)
    PROVE  FlagsAfter(checks, out)[n] = Summary(checks, out, n)
<1> DEFINE f == FlagsAfter(checks, out)
           g == [k \in 0 .. Len(checks) |-> Summary(checks, out, k)]
           Wrong == {k \in 0 .. Len(checks) : f[k] # g[k]}
<1>1. \A k \in 0 .. Len(checks) : f[k] = Turn(f, checks, out, k)
  BY FlagsAreLoop DEF IsLoop
<1>2. \A k \in 0 .. Len(checks) : g[k] = Turn(g, checks, out, k)
  BY SummaryIsLoop DEF IsLoop
<1>3. Wrong = {}
  <2> SUFFICES ASSUME Wrong # {} PROVE FALSE
    OBVIOUS
  <2>1. PICK k \in Wrong : \A j \in Wrong : k =< j
    <3>1. Wrong \subseteq Nat
      OBVIOUS
    <3> QED
      BY <3>1, LeastElement
  <2>2. k # 0
    BY <1>1, <1>2, <2>1 DEF Turn
  <2>3. k - 1 \in 0 .. Len(checks) /\ k - 1 \notin Wrong
    BY <2>1, <2>2
  <2>4. f[k - 1] = g[k - 1]
    BY <2>3
  <2> QED
    BY <1>1, <1>2, <2>1, <2>2, <2>4 DEF Turn
<1> QED
  BY <1>3

(* The verdict, stated of the checks and not of the loop.                  *)
LEMMA VerdictMeaning ==
    ASSUME NEW s, NEW out, Len(s.checks) \in Nat
    PROVE  LET n == Len(s.checks) IN
           EvaluateSpec(s, out) =
                IF \E i \in 1 .. n : FailsHard(s.checks[i], out) THEN "FAIL"
                ELSE IF \E i \in 1 .. n : LeavesOpen(s.checks[i], out) THEN "INDETERMINATE"
                ELSE "PASS"
<1> DEFINE n == Len(s.checks)
           flags == FlagsAfter(s.checks, out)[n]
<1>1. flags = Summary(s.checks, out, n)
  BY LoopSummarises
<1>2. /\ flags.hard_fail = (\E i \in 1 .. n : FailsHard(s.checks[i], out))
      /\ flags.indeterminate = (\E i \in 1 .. n : LeavesOpen(s.checks[i], out))
  BY <1>1 DEF Summary
<1>3. EvaluateSpec(s, out) = IF flags.hard_fail THEN "FAIL"
                             ELSE IF flags.indeterminate THEN "INDETERMINATE" ELSE "PASS"
  BY DEF EvaluateSpec
<1> HIDE DEF flags
<1> QED
  BY <1>2, <1>3

(* PASS is the verdict exactly when every check is satisfied.              *)
LEMMA PassMeaning ==
    ASSUME NEW s, NEW out, Len(s.checks) \in Nat
    PROVE  EvaluateSpec(s, out) = "PASS" <=>
                \A i \in 1 .. Len(s.checks) : CheckStatus(s.checks[i], out) = "satisfied"
<1>1. \A i : CheckStatus(s.checks[i], out) = "satisfied" <=>
                ~FailsHard(s.checks[i], out) /\ ~LeavesOpen(s.checks[i], out)
  BY StatusRange DEF FailsHard, LeavesOpen
<1>2. EvaluateSpec(s, out) = "PASS" <=>
            /\ ~\E i \in 1 .. Len(s.checks) : FailsHard(s.checks[i], out)
            /\ ~\E i \in 1 .. Len(s.checks) : LeavesOpen(s.checks[i], out)
  BY VerdictMeaning
<1> QED
  BY <1>1, <1>2

(* Everything the checks of a committed spec asked for was in the output.  *)
Satisfies(c, out) ==
    /\ c.profile # None /\ c.profile.spec # None
    /\ SpecError(c.profile.spec) = None
    /\ \A i \in 1 .. Len(c.profile.spec.checks) :
            CheckStatus(c.profile.spec.checks[i], out) = "satisfied"

LEMMA PassIsEarned ==
    ASSUME NEW c \in Commitments, NEW out, EvaluationOf(c, out).result = "PASS"
    PROVE  Satisfies(c, out)
<1>1. BoundaryReason(c) = None /\ EvaluateSpec(c.profile.spec, out) = "PASS"
  BY DEF EvaluationOf
<1>2. c.profile # None /\ c.profile.spec # None /\ SpecError(c.profile.spec) = None
  <2>1. None \notin {"MISSING_CONDITIONAL_RELEASE_PROFILE", "MISSING_ACCEPTANCE_SPEC",
                     "INVALID_ACCEPTANCE_SPEC"}
    BY NoneAssumption
  <2> QED
    BY <1>1, <2>1 DEF BoundaryReason
<1>3. c.profile.spec.checks # None
  BY <1>2, NoneAssumption DEF SpecError
<1>4. Len(c.profile.spec.checks) \in Nat
  BY <1>2, <1>3, SpecAssumption, LenProperties
<1> QED
  BY <1>1, <1>2, <1>4, PassMeaning DEF Satisfies

(* A signed PASS was earned: the output of a stored evaluation satisfies   *)
(* every check of every commitment record under the action_ref, whatever   *)
(* raced the three requests (post_continuity_evaluation_receipt).          *)
SignedPassIsEarned ==
    \A r \in Stored("receipts") : r.state = "PASS" =>
        \E e \in Stored("evaluations") :
            /\ e.ref = r.ref
            /\ \E c \in Stored("commitments") : c.ref = r.ref
            /\ \A c \in Commitments : c.ref = r.ref => Satisfies(c, e.output)

THEOREM ReceiptsAreEarned == Spec => []SignedPassIsEarned
<1>1. SpecBinding /\ ReceiptBacked => SignedPassIsEarned
  <2> SUFFICES ASSUME SpecBinding, ReceiptBacked,
                      NEW r \in Stored("receipts"), r.state = "PASS"
               PROVE  \E e \in Stored("evaluations") :
                        /\ e.ref = r.ref
                        /\ \E c \in Stored("commitments") : c.ref = r.ref
                        /\ \A c \in Commitments : c.ref = r.ref => Satisfies(c, e.output)
    BY DEF SignedPassIsEarned
  <2>1. PICK e \in Stored("evaluations") : r.ref = e.ref /\ r.state = e.result
    BY DEF ReceiptBacked
  <2>2. /\ \E c \in Stored("commitments") : c.ref = e.ref
        /\ \A c \in Commitments : c.ref = e.ref => e = EvaluationOf(c, e.output)
    BY DEF SpecBinding
  <2>3. ASSUME NEW c \in Commitments, c.ref = r.ref PROVE Satisfies(c, e.output)
    <3>1. EvaluationOf(c, e.output).result = "PASS"
      BY <2>1, <2>2, <2>3
    <3> QED
      BY <3>1, PassIsEarned
  <2> QED
    BY <2>1, <2>2, <2>3
<1> QED
  BY <1>1, NoSpecSubstitution, NoUnbackedReceipt, PTL
-----------------------------------------------------------------------------
(* The evaluator over every spec, policy and output (EvaluatorInputs).     *)

InputInv ==
    \E n \in Nat : committed.checks \in [1 .. n -> Checks]

LEMMA InputShape ==
    ASSUME InputInv
    PROVE  /\ Len(committed.checks) \in Nat
           /\ DOMAIN committed.checks = 1 .. Len(committed.checks)
           /\ \A i \in 1 .. Len(committed.checks) : committed.checks[i] \in Checks
<1>1. PICK n \in Nat : committed.checks \in [1 .. n -> Checks]
  BY DEF InputInv
<1>2. committed.checks \in Seq(Checks) /\ Len(committed.checks) = n
  BY <1>1
<1> QED
  BY <1>1, <1>2

LEMMA InitInputs ==
    ASSUME InputInit
    PROVE  InputInv
BY InputAssumption DEF InputInit, InputInv

LEMMA NextInputs ==
    ASSUME InputInv, [InputNext]_inputVars
    PROVE  InputInv'
<1>1. CASE DropField
  BY <1>1 DEF DropField, InputInv
<1>2. CASE UNCHANGED inputVars
  BY <1>2 DEF inputVars, InputInv
<1> QED
  BY <1>1, <1>2 DEF InputNext

LEMMA InputsHold == InputSpec => []InputInv
BY InitInputs, NextInputs, PTL DEF InputSpec

LEMMA CommittedBehaviours ==
    ASSUME NEW check \in Checks
    PROVE  check.failure_behavior \in {None, "FAIL", "INDETERMINATE"}
<1>1. CheckError(check) = None /\ None # "SpecError" /\ None # "TypeError"
  BY InputAssumption
<1> QED
  BY <1>1 DEF CheckError

(* The verdict aggregates as evaluate_acceptance_spec documents, for specs *)
(* of every length: FAIL when a check that fails hard is unsatisfied, else *)
(* PASS when every check is satisfied, else INDETERMINATE.                 *)
THEOREM AggregatesAsDocumented == InputSpec => []AggregationAsDocumented
<1>1. InputInv => AggregationAsDocumented
  <2> SUFFICES ASSUME InputInv PROVE AggregationAsDocumented
    OBVIOUS
  <2> DEFINE n == Len(committed.checks)
             status(i) == CheckStatus(committed.checks[i], answered)
             soft(i) == committed.checks[i].failure_behavior = "INDETERMINATE"
             passed == \A i \in 1 .. n : status(i) = "satisfied"
             failed == \E i \in 1 .. n : status(i) = "unsatisfied" /\ ~soft(i)
  <2>1. \A i \in 1 .. n : FailsHard(committed.checks[i], answered) <=>
                                status(i) = "unsatisfied" /\ ~soft(i)
    <3>1. None # "INDETERMINATE"
      BY InputAssumption DEF Results
    <3> QED
      BY <3>1, InputShape, CommittedBehaviours DEF FailsHard
  <2>2. EvaluateSpec(committed, answered) = "PASS" <=> passed
    BY InputShape, PassMeaning
  <2>3. EvaluateSpec(committed, answered) =
            IF failed THEN "FAIL" ELSE IF passed THEN "PASS" ELSE "INDETERMINATE"
    <3>1. n \in Nat
      BY InputShape
    <3>2. EvaluateSpec(committed, answered) =
            IF \E i \in 1 .. n : FailsHard(committed.checks[i], answered) THEN "FAIL"
            ELSE IF \E i \in 1 .. n : LeavesOpen(committed.checks[i], answered)
            THEN "INDETERMINATE" ELSE "PASS"
      BY <3>1, VerdictMeaning
    <3>3. failed <=> \E i \in 1 .. n : FailsHard(committed.checks[i], answered)
      BY <2>1
    <3> HIDE DEF failed, passed
    <3> QED
      BY <2>2, <3>2, <3>3
  <2>4. Statuses = {<<status(i), committed.checks[i].failure_behavior>> : i \in 1 .. n}
    BY InputShape DEF Statuses
  <2>5. (\A s \in Statuses : s[1] = "satisfied") <=> passed
    <3>1. \A i \in 1 .. n : <<status(i), committed.checks[i].failure_behavior>> \in Statuses
      BY <2>4
    <3>2. \A s \in Statuses : \E i \in 1 .. n : s[1] = status(i)
      BY <2>4
    <3> HIDE DEF status
    <3> QED
      BY <3>1, <3>2
  <2>6. (\E s \in Statuses : s[1] = "unsatisfied" /\ s[2] # "INDETERMINATE") <=> failed
    <3>1. \A i \in 1 .. n : <<status(i), committed.checks[i].failure_behavior>> \in Statuses
      BY <2>4
    <3>2. \A s \in Statuses : \E i \in 1 .. n :
            s[1] = status(i) /\ s[2] = committed.checks[i].failure_behavior
      BY <2>4
    <3> HIDE DEF status
    <3> QED
      BY <3>1, <3>2
  <2> HIDE DEF failed, passed
  <2> QED
    BY <2>3, <2>5, <2>6 DEF AggregationAsDocumented, Result
<1> QED
  BY <1>1, InputsHold, PTL

(* A release is declared only for a PASS or for the result the policy      *)
(* releases on, and never for one it also withholds or reviews             *)
(* (derive_declared_release_intent).                                       *)
THEOREM ReleasesNeedMandate == InputSpec => []ReleaseNeedsMandate
<1>1. ASSUME NEW result, NEW policy, ReleaseIntent(result, policy) = "should release"
      PROVE  /\ result = "PASS" \/ (policy # None /\ policy.release_on = result)
             /\ policy # None => result \notin {policy.withhold_on, policy.manual_review_on}
  BY <1>1 DEF ReleaseIntent, DefaultIntent
<1>2. ReleaseNeedsMandate
  BY <1>1 DEF ReleaseNeedsMandate
<1> QED
  BY <1>2, PTL

-----------------------------------------------------------------------------
(* The traversal, key by key.                                              *)

(* f stands on f[n] after n of the first m keys.                           *)
WalkTurn(f, out, keys, n) == IF n = 0 THEN out ELSE Child(f[n - 1], keys[n])

IsWalk(f, out, keys, m) == f = [n \in 0 .. m |-> WalkTurn(f, out, keys, n)]

LEMMA WalkExists ==
    ASSUME NEW out, NEW keys, NEW m \in Nat
    PROVE  \E f : IsWalk(f, out, keys, m)
<1> DEFINE Stuck == {k \in Nat : ~\E f : IsWalk(f, out, keys, k)}
<1> SUFFICES ASSUME Stuck # {} PROVE FALSE
  OBVIOUS
<1>1. PICK k \in Stuck : \A j \in Stuck : k =< j
  BY LeastElement
<1>2. CASE k = 0
  <2> DEFINE g == [n \in 0 .. 0 |-> out]
  <2>1. g = [n \in 0 .. 0 |-> WalkTurn(g, out, keys, n)]
    BY DEF WalkTurn
  <2>2. IsWalk(g, out, keys, 0)
    BY <2>1, Zenon DEF IsWalk
  <2> QED
    BY <1>1, <1>2, <2>2
<1>3. CASE k # 0
  <2>1. k - 1 \in Nat /\ k - 1 \notin Stuck
    BY <1>1, <1>3
  <2>2. PICK f : IsWalk(f, out, keys, k - 1)
    BY <2>1
  <2>3. \A n \in 0 .. k - 1 : f[n] = WalkTurn(f, out, keys, n)
    BY <2>1, <2>2 DEF IsWalk
  <2> DEFINE g == [n \in 0 .. k |-> IF n = k THEN Child(f[k - 1], keys[k]) ELSE f[n]]
  <2>4. \A n \in 0 .. k : WalkTurn(g, out, keys, n) = IF n = k THEN Child(f[k - 1], keys[k]) ELSE f[n]
    <3> TAKE n \in 0 .. k
    <3>1. k \in Nat \ {0}
      BY <1>1, <1>3
    <3>2. CASE n = k
      <4>1. g[k - 1] = f[k - 1]
        BY <3>1
      <4> QED
        BY <1>3, <3>2, <4>1 DEF WalkTurn
    <3>3. CASE n # k
      <4>1. n \in 0 .. k - 1
        BY <3>1, <3>3
      <4>2. n # 0 => g[n - 1] = f[n - 1]
        BY <3>1, <4>1
      <4> HIDE DEF g
      <4> QED
        BY <2>3, <3>3, <4>1, <4>2 DEF WalkTurn
    <3> QED
      BY <3>2, <3>3
  <2>5. g = [n \in 0 .. k |-> WalkTurn(g, out, keys, n)]
    BY <2>4
  <2>6. IsWalk(g, out, keys, k)
    BY <2>5, Zenon DEF IsWalk
  <2> QED
    BY <1>1, <2>6
<1> QED
  BY <1>2, <1>3

LEMMA WalkTurns ==
    ASSUME NEW out, NEW keys, Len(keys) \in Nat, NEW n \in 0 .. Len(keys)
    PROVE  Walk(out, keys)[n] = WalkTurn(Walk(out, keys), out, keys, n)
<1>1. Walk(out, keys) = CHOOSE f : IsWalk(f, out, keys, Len(keys))
  BY DEF Walk, IsWalk, WalkTurn
<1>2. IsWalk(Walk(out, keys), out, keys, Len(keys))
  BY <1>1, WalkExists
<1> QED
  BY <1>2 DEF IsWalk

(* A walk that has left the output does not come back.                     *)
LEMMA AbsentStays ==
    ASSUME NEW out, NEW keys, Len(keys) \in Nat, NEW n \in 0 .. Len(keys),
           Walk(out, keys)[n] = Absent
    PROVE  Walk(out, keys)[Len(keys)] = Absent
<1> DEFINE N == Len(keys)
           f == Walk(out, keys)
           Back == {k \in n .. N : f[k] # Absent}
<1> SUFFICES ASSUME Back # {} PROVE FALSE
  OBVIOUS
<1>1. PICK k \in Back : \A j \in Back : k =< j
  <2>1. Back \subseteq Nat
    OBVIOUS
  <2> QED
    BY <2>1, LeastElement
<1>2. k - 1 \in n .. N /\ k \in 1 .. N
  BY <1>1
<1>3. f[k - 1] = Absent
  BY <1>1, <1>2
<1>4. f[k] = Child(f[k - 1], keys[k])
  BY <1>2, WalkTurns DEF WalkTurn
<1>5. ~IsObject(Absent)
  BY DEF IsObject, Absent
<1> QED
  BY <1>1, <1>3, <1>4, <1>5 DEF Child

(* Above a field that is there stand objects that hold the way to it.      *)
LEMMA OnTrail ==
    ASSUME NEW out, NEW keys, Len(keys) \in Nat, Walk(out, keys)[Len(keys)] # Absent,
           NEW n \in 1 .. Len(keys)
    PROVE  LET above == Walk(out, keys)[n - 1] IN
           /\ IsObject(above)
           /\ keys[n] \in DOMAIN above.object
           /\ Walk(out, keys)[n] = above.object[keys[n]]
<1>1. Walk(out, keys)[n] # Absent
  BY AbsentStays
<1>2. Walk(out, keys)[n] = Child(Walk(out, keys)[n - 1], keys[n])
  BY WalkTurns DEF WalkTurn
<1> QED
  BY <1>1, <1>2 DEF Child

(* The object m keys above the field, without it; below is the one under.  *)
CutTurn(f, trail, keys, m) ==
    LET above == trail[Len(keys) - m].object
        key == keys[Len(keys) - m + 1]
    IN  [object |-> IF m = 1 THEN [k \in DOMAIN above \ {key} |-> above[k]]
                    ELSE [above EXCEPT ![key] = f[m - 1]]]

IsCut(f, trail, keys, n) == f = [m \in 1 .. n |-> CutTurn(f, trail, keys, m)]

LEMMA CutExists ==
    ASSUME NEW trail, NEW keys, NEW n \in Nat
    PROVE  \E f : IsCut(f, trail, keys, n)
<1> DEFINE Stuck == {k \in Nat : ~\E f : IsCut(f, trail, keys, k)}
<1> SUFFICES ASSUME Stuck # {} PROVE FALSE
  OBVIOUS
<1>1. PICK k \in Stuck : \A j \in Stuck : k =< j
  BY LeastElement
<1>2. CASE k = 0
  <2> DEFINE g == [m \in 1 .. 0 |-> trail]
  <2>1. g = [m \in 1 .. 0 |-> CutTurn(g, trail, keys, m)]
    OBVIOUS
  <2>2. IsCut(g, trail, keys, 0)
    BY <2>1, Zenon DEF IsCut
  <2> QED
    BY <1>1, <1>2, <2>2
<1>3. CASE k # 0
  <2>1. k - 1 \in Nat /\ k - 1 \notin Stuck
    BY <1>1, <1>3
  <2>2. PICK f : IsCut(f, trail, keys, k - 1)
    BY <2>1
  <2>3. \A m \in 1 .. k - 1 : f[m] = CutTurn(f, trail, keys, m)
    BY <2>1, <2>2 DEF IsCut
  <2> DEFINE g == [m \in 1 .. k |-> IF m = k THEN CutTurn(f, trail, keys, k) ELSE f[m]]
  <2>4. \A m \in 1 .. k : CutTurn(g, trail, keys, m) = IF m = k THEN CutTurn(f, trail, keys, k) ELSE f[m]
    <3> TAKE m \in 1 .. k
    <3>1. k \in Nat \ {0}
      BY <1>1, <1>3
    <3>2. m # 1 => g[m - 1] = f[m - 1]
      BY <3>1
    <3> HIDE DEF g
    <3>3. CutTurn(g, trail, keys, m) = CutTurn(f, trail, keys, m)
      BY <3>2 DEF CutTurn
    <3>4. m # k => m \in 1 .. k - 1
      BY <3>1
    <3> QED
      BY <2>3, <3>3, <3>4
  <2>5. g = [m \in 1 .. k |-> CutTurn(g, trail, keys, m)]
    BY <2>4
  <2>6. IsCut(g, trail, keys, k)
    BY <2>5, Zenon DEF IsCut
  <2> QED
    BY <1>1, <2>6
<1> QED
  BY <1>2, <1>3

LEMMA WithoutTurns ==
    ASSUME NEW out, NEW keys, Len(keys) \in Nat
    PROVE  \E cut : /\ Without(out, keys) = cut[Len(keys)]
                    /\ \A m \in 1 .. Len(keys) : cut[m] = CutTurn(cut, Walk(out, keys), keys, m)
<1> DEFINE cut == CHOOSE f : IsCut(f, Walk(out, keys), keys, Len(keys))
<1>1. Without(out, keys) = cut[Len(keys)]
  BY DEF Without, IsCut, CutTurn
<1>2. IsCut(cut, Walk(out, keys), keys, Len(keys))
  BY CutExists
<1> HIDE DEF cut
<1>3. \A m \in 1 .. Len(keys) : cut[m] = CutTurn(cut, Walk(out, keys), keys, m)
  BY <1>2 DEF IsCut
<1> QED
  BY <1>1, <1>3

(* What a path answers in the smaller output: nothing, what it answered    *)
(* before, or one of the objects the field was taken out of.               *)
Diminished(v, u) == v = Absent \/ v = u \/ ((\E f : v = [object |-> f]) /\ u # Absent)

LEMMA ResolvesDiminished ==
    ASSUME NEW out, NEW keys, Len(keys) \in Nat, keys # <<>>, keys \in Seq(Range(keys)),
           Resolve(out, Path(keys)) # Absent,
           NEW path, "keys" \in DOMAIN path => Len(path.keys) \in Nat
    PROVE  Diminished(Resolve(Without(out, keys), path), Resolve(out, path))
<1> DEFINE N == Len(keys)
           at == Walk(out, keys)
<1>1. N \in Nat \ {0}
  BY EmptySeq
<1>2. at[N] # Absent
  BY DEF Resolve, Path
<1>3. PICK cut : /\ Without(out, keys) = cut[N]
                 /\ \A m \in 1 .. N : cut[m] = CutTurn(cut, at, keys, m)
  BY WithoutTurns
<1>4. CASE "keys" \notin DOMAIN path
  BY <1>4 DEF Resolve, Diminished
<1>5. CASE "keys" \in DOMAIN path
  <2> DEFINE q == path.keys
             L == Len(q)
             less == Walk(Without(out, keys), q)
             more == Walk(out, q)
             Above(n) == n < N /\ less[n] = cut[N - n] /\ more[n] = at[n]
             Strays == {n \in 0 .. L : ~(less[n] = Absent \/ less[n] = more[n] \/ Above(n))}
  <2>1. L \in Nat
    BY <1>5
  <2>2. less[0] = Without(out, keys) /\ more[0] = out /\ at[0] = out
    BY <1>1, <2>1, WalkTurns DEF WalkTurn
  <2>3. ASSUME NEW n \in 1 .. L
        PROVE  less[n] = Child(less[n - 1], q[n]) /\ more[n] = Child(more[n - 1], q[n])
    BY <2>1, WalkTurns DEF WalkTurn
  <2>4. Strays = {}
    <3> SUFFICES ASSUME Strays # {} PROVE FALSE
      OBVIOUS
    <3>1. PICK n \in Strays : \A j \in Strays : n =< j
      <4>1. Strays \subseteq Nat
        BY <2>1
      <4> HIDE DEF Strays
      <4> QED
        BY <4>1, LeastElement
    <3>2. n # 0
      BY <1>1, <1>3, <2>2, <3>1
    <3>3. n \in 1 .. L /\ n - 1 \in 0 .. L /\ n - 1 \notin Strays
      BY <2>1, <3>1, <3>2
    <3>4. CASE less[n - 1] = Absent
      <4>1. ~IsObject(Absent)
        BY DEF IsObject, Absent
      <4>2. less[n] = Absent
        BY <2>3, <3>3, <3>4, <4>1 DEF Child
      <4> QED
        BY <3>1, <4>2
    <3>5. CASE less[n - 1] = more[n - 1]
      <4>1. less[n] = more[n]
        BY <2>3, <3>3, <3>5
      <4> QED
        BY <3>1, <4>1
    <3>6. CASE Above(n - 1)
      <4> DEFINE m == N - (n - 1)
                 above == at[n - 1].object
                 key == keys[n]
                 smaller == IF m = 1 THEN [k \in DOMAIN above \ {key} |-> above[k]]
                            ELSE [above EXCEPT ![key] = cut[m - 1]]
      <4>1. m \in 1 .. N /\ N - m = n - 1 /\ N - m + 1 = n /\ n \in 1 .. N
        BY <1>1, <3>3, <3>6
      <4>2. IsObject(at[n - 1]) /\ key \in DOMAIN above /\ at[n] = above[key]
        <5>1. PICK j \in 1 .. N : j = n
          BY <4>1
        <5>2. /\ IsObject(at[j - 1]) /\ keys[j] \in DOMAIN at[j - 1].object
              /\ at[j] = at[j - 1].object[keys[j]]
          BY <1>1, <1>2, OnTrail
        <5> QED
          BY <5>1, <5>2
      <4>3. less[n - 1] = [object |-> smaller]
        <5>1. cut[m] = CutTurn(cut, at, keys, m)
          BY <1>3, <4>1
        <5>2. CutTurn(cut, at, keys, m) = [object |-> smaller]
          BY <4>1 DEF CutTurn
        <5> HIDE DEF smaller, m
        <5> QED
          BY <3>6, <5>1, <5>2 DEF m
      <4>4. /\ less[n] = IF q[n] \in DOMAIN smaller THEN smaller[q[n]] ELSE Absent
            /\ more[n] = IF q[n] \in DOMAIN above THEN above[q[n]] ELSE Absent
        <5> HIDE DEF smaller
        <5>1. less[n] = IF q[n] \in DOMAIN smaller THEN smaller[q[n]] ELSE Absent
          BY <2>3, <3>3, <4>3 DEF Child, IsObject
        <5>2. more[n] = IF q[n] \in DOMAIN above THEN above[q[n]] ELSE Absent
          BY <2>3, <3>3, <3>6, <4>2 DEF Child
        <5> QED
          BY <5>1, <5>2
      <4>5. CASE m = 1
        <5>1. less[n] = Absent \/ less[n] = more[n]
          BY <4>4, <4>5
        <5> QED
          BY <3>1, <5>1
      <4>6. CASE m # 1 /\ q[n] = key
        <5>1. less[n] = cut[N - n] /\ more[n] = at[n] /\ n < N
          BY <4>1, <4>2, <4>4, <4>6
        <5> QED
          BY <3>1, <5>1
      <4>7. CASE m # 1 /\ q[n] # key
        <5>1. less[n] = more[n]
          BY <4>4, <4>7
        <5> QED
          BY <3>1, <5>1
      <4> QED
        BY <4>5, <4>6, <4>7
    <3> QED
      BY <3>3, <3>4, <3>5, <3>6
  <2>5. less[L] = Absent \/ less[L] = more[L] \/ Above(L)
    BY <2>1, <2>4
  <2>6. ASSUME Above(L) PROVE (\E f : less[L] = [object |-> f]) /\ more[L] # Absent
    <3>1. N - L \in 1 .. N /\ L + 1 \in 1 .. N /\ (L + 1) - 1 = L
      BY <1>1, <2>1, <2>6
    <3>2. \E f : cut[N - L] = [object |-> f]
      BY <1>3, <3>1 DEF CutTurn
    <3>3. IsObject(at[L])
      BY <1>1, <1>2, <3>1, OnTrail
    <3>4. ~IsObject(Absent)
      BY DEF IsObject, Absent
    <3> QED
      BY <2>6, <3>2, <3>3, <3>4
  <2>7. Resolve(Without(out, keys), path) = less[L] /\ Resolve(out, path) = more[L]
    BY <1>5 DEF Resolve
  <2> QED
    BY <2>5, <2>6, <2>7 DEF Diminished
<1> QED
  BY <1>4, <1>5

(* The check holds an object to a committed value.                         *)
Compares(expected) ==
    IsObject(expected) \/ (IsContentAddressed(expected) /\ IsObject(expected.digest))

LEMMA AbsentSatisfiesNothing ==
    ASSUME NEW check
    PROVE  PathStatus(check, Absent) # "satisfied" /\ HashStatus(check, Absent) # "satisfied"
BY DEF PathStatus, HashStatus, Verdict

LEMMA StatusIsMonotone ==
    ASSUME NEW check, ~Compares(check.expected), NEW v, NEW u, Diminished(v, u)
    PROVE  /\ HashStatus(check, v) = "satisfied" => HashStatus(check, u) = "satisfied"
           /\ PathStatus(check, v) = "satisfied" => PathStatus(check, u) = "satisfied"
<1>1. CASE v = Absent \/ v = u
  BY <1>1, AbsentSatisfiesNothing
<1>2. CASE (\E f : v = [object |-> f]) /\ u # Absent
  <2>1. IsObject(v) /\ ~IsNumber(v)
    BY <1>2 DEF IsObject, IsNumber
  <2>2. HashStatus(check, v) # "satisfied"
    <3>1. ASSUME HashStatus(check, v) = "satisfied"
          PROVE  IsContentAddressed(check.expected) /\ check.expected = [digest |-> v]
      BY <3>1 DEF HashStatus, Verdict
    <3> QED
      BY <2>1, <3>1 DEF Compares
  <2>3. CASE check.kind = "field_present"
    BY <1>2, <2>2, <2>3 DEF PathStatus, Verdict
  <2>4. CASE check.kind # "field_present"
    <3>1. PathStatus(check, v) = "satisfied" => Meets(check, v)
      BY <2>4 DEF PathStatus, Verdict
    <3>2. ~Meets(check, v)
      BY <2>1 DEF Meets, Compares
    <3> QED
      BY <2>2, <3>1, <3>2
  <2> QED
    BY <2>3, <2>4
<1> QED
  BY <1>1, <1>2 DEF Diminished

(* Leaving fields out of an output, at any depth, never earns a PASS, for  *)
(* specs of every length and outputs of every size, unless the spec        *)
(* compares an object (evaluate_acceptance_spec).                          *)
THEOREM DroppingNeverPasses == InputSpec => DroppingFieldsNeverPasses
<1>1. ASSUME InputInv, DropField, ~ComparesObject,
             EvaluateSpec(committed, answered') = "PASS"
      PROVE  EvaluateSpec(committed, answered) = "PASS"
  <2> DEFINE n == Len(committed.checks)
  <2>1. /\ n \in Nat /\ DOMAIN committed.checks = 1 .. n
        /\ \A i \in 1 .. n : committed.checks[i] \in Checks
    BY <1>1, InputShape
  <2>2. PICK keys \in Fields :
          Resolve(answered, Path(keys)) # Absent /\ answered' = Without(answered, keys)
    BY <1>1 DEF DropField
  <2>3. keys # <<>> /\ keys \in Seq(Range(keys)) /\ Len(keys) \in Nat
    BY InputAssumption DEF IsKeys
  <2>4. ASSUME NEW i \in 1 .. n
        PROVE  CheckStatus(committed.checks[i], answered) = "satisfied"
    <3>1. PICK check \in Checks : check = committed.checks[i]
      BY <2>1
    <3>2. ~Compares(check.expected)
      BY <1>1, <2>1, <3>1 DEF ComparesObject, Compares
    <3>3. \A path : ("keys" \in DOMAIN path => Len(path.keys) \in Nat) =>
                Diminished(Resolve(answered', path), Resolve(answered, path))
      BY <2>2, <2>3, ResolvesDiminished
    <3>4. "keys" \in DOMAIN check.path => Len(check.path.keys) \in Nat
      BY InputAssumption DEF IsKeys
    <3>5. Diminished(answered', answered)
      <4>1. "keys" \in DOMAIN Path(<<>>) /\ Path(<<>>).keys = <<>> /\ Len(<<>>) = 0
        BY DEF Path
      <4>2. \A o : Resolve(o, Path(<<>>)) = o
        BY <4>1, WalkTurns DEF Resolve, WalkTurn
      <4> QED
        BY <3>3, <4>1, <4>2
    <3>6. CheckStatus(check, answered') = "satisfied"
      BY <1>1, <2>1, <3>1, PassMeaning
    <3>7. CASE check.kind = "hash_equals"
      <4> DEFINE target(o) == IF check.path = NoPath THEN o ELSE Resolve(o, check.path)
      <4>1. \A o : CheckStatus(check, o) = HashStatus(check, target(o))
        BY <3>7 DEF CheckStatus, EqualityKinds
      <4>2. Diminished(target(answered'), target(answered))
        BY <3>3, <3>4, <3>5
      <4> HIDE DEF target
      <4> QED
        BY <3>1, <3>2, <3>6, <4>1, <4>2, StatusIsMonotone
    <3>8. CASE check.kind # "hash_equals"
      <4>1. \A o : CheckStatus(check, o) = "satisfied" =>
                    CheckStatus(check, o) = PathStatus(check, Resolve(o, check.path))
        BY <3>8 DEF CheckStatus
      <4>2. /\ check.kind \in EqualityKinds \cup {"field_present", "numeric_threshold"}
            /\ check.path \notin {NoPath, NotAPath}
        BY <3>6, <3>8 DEF CheckStatus
      <4>3. CheckStatus(check, answered) = PathStatus(check, Resolve(answered, check.path))
        BY <3>8, <4>2 DEF CheckStatus
      <4> QED
        BY <3>1, <3>2, <3>3, <3>4, <3>6, <4>1, <4>3, StatusIsMonotone
    <3> QED
      BY <3>7, <3>8
  <2> QED
    BY <2>1, <2>4, PassMeaning
<1>2. ASSUME InputInv, [InputNext]_inputVars
      PROVE  [ComparesObject \/
                (EvaluateSpec(committed, answered') = "PASS" =>
                    EvaluateSpec(committed, answered) = "PASS")]_inputVars
  BY <1>1, <1>2 DEF InputNext
<1> QED
  BY <1>2, InputsHold, PTL DEF InputSpec, DroppingFieldsNeverPasses
=============================================================================
