-------------------- MODULE AuthenticatedSubmission_proofs --------------------
(***************************************************************************)
(* Proofs about AuthenticatedSubmission, for every set of workers,         *)
(* envelopes and registry documents and every value of the time constants. *)
(* Nothing is assumed of offsets, retention or lag: each property names    *)
(* the envelopes whose row outlasts their window.  With the code's         *)
(* Multiple = 4 an envelope on UTC or ahead of it is one of them whenever  *)
(* Lag =< 3 * Skew, fifteen minutes.                                       *)
(***************************************************************************)
EXTENDS AuthenticatedSubmission, TLAPS

(* What a request in flight has established, and how old its reading is.   *)
FreshVerdicts ==
    /\ latest - clock =< Lag
    /\ \A w \in InFlight :
        /\ latest - worker[w].now =< Lag
        /\ InWindow(worker[w].env, worker[w].now)
    /\ \A w \in Workers : worker[w].phase = "claiming" => worker[w].claimNow =< latest

(* A worker between claim and append is alone with its envelope, when the  *)
(* envelope's row outlasts its window.                                     *)
PendingRecords ==
    /\ \A e \in Envelopes : RowOutlastsWindow(e) => claims[e] =< 1 /\ recorded[e] =< claims[e]
    /\ \A w \in Workers : worker[w].phase = "claimed" /\ RowOutlastsWindow(worker[w].env) =>
        claims[worker[w].env] = 1 /\ recorded[worker[w].env] = 0
    /\ \A v, w \in Workers :
        (worker[v].phase = "claimed" /\ worker[w].phase = "claimed"
            /\ worker[v].env = worker[w].env /\ RowOutlastsWindow(worker[w].env))
            => v = w

(* Verification was against the registry this process is pinned to.        *)
PinnedVerdicts ==
    /\ ~up => \A w \in Workers : worker[w] = Idle
    /\ \A w \in Workers : worker[w].phase = "loaded" => worker[w].registry = pin
    /\ \A w \in InFlight :
        /\ worker[w].env.registry = pin
        /\ Authorized(pin, worker[w].env, worker[w].now)

IInv ==
    /\ TypeOK
    /\ RowsKeptToExpiry
    /\ FreshVerdicts
    /\ PendingRecords
    /\ NonceReuseOnlyAfterRetention
    /\ PinnedVerdicts

-----------------------------------------------------------------------------
(* The fields each phase of a request carries.                             *)
LEMMA PhaseFields ==
    ASSUME NEW x \in Phases
    PROVE  /\ x.phase \in {"idle", "loaded", "verified", "claiming", "claimed"}
           /\ x.phase = "idle" => x = Idle
           /\ x.phase # "idle" => x.env \in Envelopes
           /\ x.phase = "loaded" => x.registry \in Registries
           /\ x.phase \in {"verified", "claiming"} => x.now \in Int
           /\ x.phase = "claiming" => x.claimNow \in Int
BY DEF Phases, Idle

(* A new value for one worker's record is well typed if it is a phase.     *)
LEMMA WorkerUpdate ==
    ASSUME TypeOK, NEW w \in Workers, NEW x \in Phases,
           worker' = [worker EXCEPT ![w] = x]
    PROVE  /\ worker' \in [Workers -> Phases]
           /\ worker'[w] = x
           /\ \A v \in Workers : v # w => worker'[v] = worker[v]
BY DEF TypeOK

LEMMA RetentionInt == Retention \in Int /\ Skew \in Int /\ Lag \in Int
BY TimeAssumption DEF Retention

(* Init establishes the inductive invariant.                               *)
LEMMA InitIInv == Init => IInv
<1> SUFFICES ASSUME Init PROVE IInv
  OBVIOUS
<1>1. TypeOK
  BY DEF Init, TypeOK, Phases
<1>2. \A w \in Workers : worker[w].phase = "idle"
  BY DEF Init, Idle
<1>3. RowsKeptToExpiry /\ NonceReuseOnlyAfterRetention
  BY DEF Init, RowsKeptToExpiry, NonceReuseOnlyAfterRetention
<1>4. FreshVerdicts
  BY <1>2, TimeAssumption DEF Init, FreshVerdicts, InFlight
<1>5. PendingRecords /\ PinnedVerdicts
  BY <1>2 DEF Init, PendingRecords, PinnedVerdicts, InFlight
<1> QED
  BY <1>1, <1>3, <1>4, <1>5 DEF IInv

(* RowsKeptToExpiry and the reuse bound do not speak of requests: a step that  *)
(* leaves claims and rows alone keeps them.                                *)
LEMMA LedgerUntouched ==
    ASSUME IInv, claims' = claims, rows' = rows, latest' \in Int, latest' >= latest
    PROVE  RowsKeptToExpiry' /\ NonceReuseOnlyAfterRetention'
<1>1. latest \in Int /\ \A e \in Envelopes : e.ts + Retention + e.offset \in Int
  BY RetentionInt, EnvelopeAssumption DEF IInv, TypeOK
<1>2. RowsKeptToExpiry'
  BY <1>1 DEF IInv, RowsKeptToExpiry
<1> QED
  BY <1>2 DEF IInv, NonceReuseOnlyAfterRetention, RowOutlastsWindow, Retention

(* A worker's own step that only moves its request along: Submit, Verify,  *)
(* ReadClaimClock, ClaimRejected and RecordFails.                          *)
LEMMA QuietSteps ==
    ASSUME IInv, NEW w \in Workers,
           \/ \E e \in Envelopes : Submit(w, e)
           \/ Verify(w)
           \/ ReadClaimClock(w)
           \/ ClaimRejected(w)
           \/ RecordFails(w)
    PROVE  IInv'
<1>0. TypeOK /\ worker[w] \in Phases
  BY DEF IInv, TypeOK
<1>1. UNCHANGED <<clock, latest, file, pin, up, rows, claims, recorded>>
  BY DEF Submit, Verify, ReadClaimClock, ClaimRejected, RecordFails
<1>2. RowsKeptToExpiry' /\ NonceReuseOnlyAfterRetention'
  <2>1. latest' \in Int /\ latest' >= latest
    BY <1>0, <1>1 DEF TypeOK
  <2> QED
    BY <1>1, <2>1, LedgerUntouched
<1> DEFINE Sound(x) ==
        /\ x.phase # "claimed"
        /\ x.phase = "loaded" => x.registry = pin
        /\ x.phase = "claiming" => x.claimNow =< latest
        /\ x.phase \in {"verified", "claiming"} =>
            /\ latest - x.now =< Lag
            /\ InWindow(x.env, x.now)
            /\ x.env.registry = pin
            /\ Authorized(pin, x.env, x.now)
<1>3. PICK x \in Phases : /\ worker' = [worker EXCEPT ![w] = x]
                          /\ Sound(x)
                          /\ up \/ x = Idle
  <2>1. CASE \E e \in Envelopes : Submit(w, e)
    <3>1. PICK e \in Envelopes : Submit(w, e)
      BY <2>1
    <3> DEFINE x == [phase |-> "loaded", env |-> e, registry |-> file]
    <3>2. x \in Phases /\ Sound(x)
      BY <1>0, <3>1 DEF TypeOK, Phases, Submit, RegistryLoads
    <3> QED
      BY <3>1, <3>2 DEF Submit
  <2>2. CASE Verify(w)
    <3>1. worker[w].env \in Envelopes /\ worker[w].registry = pin /\ up
      BY <1>0, <2>2, PhaseFields DEF Verify, IInv, PinnedVerdicts, Idle
    <3>2. CASE ~Verified(w)
      BY <2>2, <3>2 DEF Verify, Phases, Idle
    <3>3. CASE Verified(w)
      <4> DEFINE x == [phase |-> "verified", env |-> worker[w].env, now |-> clock]
      <4>1. x \in Phases /\ Sound(x)
        BY <1>0, <3>1, <3>3 DEF TypeOK, Phases, Verified, IInv, FreshVerdicts
      <4> QED
        BY <2>2, <3>1, <3>3, <4>1 DEF Verify
    <3> QED
      BY <3>2, <3>3
  <2>3. CASE ReadClaimClock(w)
    <3> DEFINE x == [phase |-> "claiming", env |-> worker[w].env,
                     now |-> worker[w].now, claimNow |-> clock]
    <3>1. worker[w].env \in Envelopes /\ worker[w].now \in Int /\ w \in InFlight /\ up
      BY <1>0, <2>3, PhaseFields DEF ReadClaimClock, InFlight, IInv, PinnedVerdicts, Idle
    <3>2. x \in Phases
      BY <1>0, <3>1 DEF TypeOK, Phases
    <3>3. Sound(x)
      BY <1>0, <3>1 DEF TypeOK, IInv, FreshVerdicts, PinnedVerdicts
    <3> QED
      BY <2>3, <3>1, <3>2, <3>3 DEF ReadClaimClock
  <2>4. CASE ClaimRejected(w) \/ RecordFails(w)
    BY <2>4 DEF ClaimRejected, RecordFails, Phases, Idle
  <2> QED
    BY <2>1, <2>2, <2>3, <2>4
<1>4. /\ worker' \in [Workers -> Phases]
      /\ worker'[w] = x
      /\ \A v \in Workers : v # w => worker'[v] = worker[v]
  BY <1>0, <1>3, WorkerUpdate
<1>5. TypeOK'
  BY <1>0, <1>1, <1>4 DEF TypeOK
<1>6. FreshVerdicts'
  BY <1>1, <1>3, <1>4 DEF IInv, FreshVerdicts, InFlight
<1>7. PendingRecords'
  BY <1>1, <1>3, <1>4 DEF IInv, PendingRecords, RowOutlastsWindow, Retention
<1>8. PinnedVerdicts'
  BY <1>1, <1>3, <1>4 DEF IInv, PinnedVerdicts, InFlight
<1> QED
  BY <1>2, <1>5, <1>6, <1>7, <1>8 DEF IInv

(* The heart of the argument.  When w claims e, every envelope f accepted  *)
(* before under e's nonce has expired, so f's signed time lies more than   *)
(* retention, less the acceptance window and the lag, before e's.          *)
LEMMA ClaimGap ==
    ASSUME IInv, NEW w \in Workers, Claim(w),
           NEW f \in Envelopes, claims[f] > 0, Key(f) = Key(worker[w].env)
    PROVE  worker[w].env.ts - f.ts + Skew + Lag - f.offset > Retention
<1> DEFINE e == worker[w].env
<1>1. /\ e \in Envelopes /\ worker[w].now \in Int /\ worker[w].claimNow \in Int
      /\ w \in InFlight /\ latest \in Int
  BY PhaseFields DEF Claim, IInv, TypeOK, InFlight, Idle
<1>2. /\ latest - worker[w].now =< Lag
      /\ worker[w].claimNow =< latest
      /\ e.ts >= worker[w].now - Skew
  BY <1>1 DEF IInv, FreshVerdicts, Claim, InWindow
<1>3. latest > f.ts + Retention + f.offset
  <2>1. CASE Row(f) \in rows
    <3>1. Row(f) \notin Live(rows, worker[w].claimNow)
      BY DEF Claim, Taken, Row
    <3>2. ~(f.ts + Retention + f.offset >= worker[w].claimNow)
      BY <2>1, <3>1 DEF Live, ExpiryText, Row
    <3> QED
      BY <1>1, <1>2, <3>2, EnvelopeAssumption, RetentionInt
  <2>2. CASE Row(f) \notin rows
    BY <2>2 DEF IInv, RowsKeptToExpiry
  <2> QED
    BY <2>1, <2>2
<1>4. e.ts \in Int /\ f.ts \in Int /\ f.offset \in Int
  BY <1>1, EnvelopeAssumption
<1>5. latest =< e.ts + Skew + Lag
  BY <1>1, <1>2, <1>4, RetentionInt
<1> QED
  BY <1>1, <1>3, <1>4, <1>5, RetentionInt

LEMMA ClaimStep ==
    ASSUME IInv, NEW w \in Workers, Claim(w)
    PROVE  IInv'
<1> DEFINE e == worker[w].env
           x == [phase |-> "claimed", env |-> e]
<1>0. /\ TypeOK /\ worker[w] \in Phases /\ e \in Envelopes /\ w \in InFlight
      /\ worker[w].claimNow \in Int
  BY PhaseFields DEF IInv, TypeOK, Claim, InFlight, Idle
<1>1. UNCHANGED <<clock, latest, file, pin, up, recorded>>
  BY DEF Claim
<1>2. /\ worker' \in [Workers -> Phases] /\ worker'[w] = x
      /\ \A v \in Workers : v # w => worker'[v] = worker[v]
  <2>1. x \in Phases
    BY <1>0 DEF Phases
  <2> QED
    BY <1>0, <2>1, WorkerUpdate DEF Claim
<1>3. RowOutlastsWindow(e) => claims[e] = 0
  <2> SUFFICES ASSUME RowOutlastsWindow(e), claims[e] # 0 PROVE FALSE
    OBVIOUS
  <2>1. claims[e] > 0
    BY <1>0 DEF TypeOK
  <2>2. e.ts - e.ts + Skew + Lag - e.offset > Retention
    BY <1>0, <2>1, ClaimGap
  <2> QED
    BY <1>0, <2>2, EnvelopeAssumption, RetentionInt DEF RowOutlastsWindow
<1>4. /\ claims' \in [Envelopes -> Nat] /\ claims'[e] = claims[e] + 1
      /\ \A f \in Envelopes : f # e => claims'[f] = claims[f]
  BY <1>0 DEF TypeOK, Claim
<1>5. TypeOK'
  <2>1. rows' \subseteq {Row(f) : f \in Envelopes}
    BY <1>0 DEF TypeOK, Claim, Live
  <2>2. \A r, s \in rows' : r.key = s.key => r = s
    BY <1>0 DEF TypeOK, Claim, Live, Taken, Row
  <2> QED
    BY <1>0, <1>1, <1>2, <1>4, <2>1, <2>2 DEF TypeOK
<1>6. RowsKeptToExpiry'
  <2> SUFFICES ASSUME NEW f \in Envelopes, claims'[f] > 0, Row(f) \notin rows'
               PROVE  latest > f.ts + Retention + f.offset
    BY <1>1 DEF RowsKeptToExpiry, Row
  <2>1. f # e /\ claims[f] > 0 /\ Row(f) \notin Live(rows, worker[w].claimNow)
    BY <1>4 DEF Claim
  <2>2. CASE Row(f) \in rows
    <3>1. ~(f.ts + Retention + f.offset >= worker[w].claimNow)
      BY <2>1, <2>2 DEF Live, ExpiryText, Row
    <3>2. worker[w].claimNow =< latest
      BY DEF IInv, FreshVerdicts, Claim
    <3> QED
      BY <1>0, <3>1, <3>2, EnvelopeAssumption, RetentionInt DEF TypeOK
  <2>3. CASE Row(f) \notin rows
    BY <2>1, <2>3 DEF IInv, RowsKeptToExpiry
  <2> QED
    BY <2>2, <2>3
<1>7. NonceReuseOnlyAfterRetention'
  <2> SUFFICES ASSUME NEW f \in Envelopes, NEW g \in Envelopes, f # g, Key(f) = Key(g),
                      claims'[f] > 0, claims'[g] > 0, f.ts =< g.ts, RowOutlastsWindow(g)
               PROVE  g.ts - f.ts + Skew + Lag - f.offset > Retention
    BY DEF NonceReuseOnlyAfterRetention, Key, Retention, RowOutlastsWindow
  <2>1. CASE f # e /\ g # e
    BY <1>4, <2>1 DEF IInv, NonceReuseOnlyAfterRetention
  <2>2. CASE g = e
    BY <1>4, <2>2, ClaimGap
  <2>3. CASE f = e
    <3>1. f.ts - g.ts + Skew + Lag - g.offset > Retention
      BY <1>4, <2>3, ClaimGap
    <3> QED
      BY <3>1, EnvelopeAssumption, RetentionInt DEF RowOutlastsWindow
  <2> QED
    BY <2>1, <2>2, <2>3
<1>8. FreshVerdicts'
  BY <1>1, <1>2 DEF IInv, FreshVerdicts, InFlight
<1>9. PendingRecords'
  <2>1. RowOutlastsWindow(e) =>
            /\ recorded[e] = 0
            /\ \A v \in Workers : worker[v].phase = "claimed" => worker[v].env # e
    BY <1>0, <1>3 DEF IInv, PendingRecords, TypeOK
  <2>2. \A f \in Envelopes : RowOutlastsWindow(f) => claims'[f] =< 1 /\ recorded'[f] =< claims'[f]
    BY <1>0, <1>1, <1>3, <1>4, <2>1 DEF IInv, PendingRecords, TypeOK
  <2>3. \A v \in Workers : worker[v].phase = "claimed" =>
            /\ worker[v].env \in Envelopes
            /\ RowOutlastsWindow(worker[v].env) =>
                    claims[worker[v].env] = 1 /\ recorded[worker[v].env] = 0
    BY <1>0, PhaseFields DEF IInv, PendingRecords, TypeOK
  <2>4. \A v \in Workers :
            LET f == worker'[v].env IN
            worker'[v].phase = "claimed" /\ RowOutlastsWindow(f) => claims'[f] = 1 /\ recorded'[f] = 0
    BY <1>0, <1>1, <1>2, <1>3, <1>4, <2>1, <2>3
  <2>5. \A u, v \in Workers :
            (worker'[u].phase = "claimed" /\ worker'[v].phase = "claimed"
                /\ worker'[u].env = worker'[v].env /\ RowOutlastsWindow(worker'[v].env))
                => u = v
    BY <1>2, <2>1 DEF IInv, PendingRecords
  <2> QED
    BY <2>2, <2>4, <2>5 DEF PendingRecords, RowOutlastsWindow, Retention
<1>10. PinnedVerdicts'
  <2>1. up
    BY <1>0 DEF IInv, PinnedVerdicts, Claim, Idle
  <2> QED
    BY <1>1, <1>2, <2>1 DEF IInv, PinnedVerdicts, InFlight
<1> QED
  BY <1>5, <1>6, <1>7, <1>8, <1>9, <1>10 DEF IInv

LEMMA RecordStep ==
    ASSUME IInv, NEW w \in Workers, Record(w)
    PROVE  IInv'
<1> DEFINE e == worker[w].env
<1>0. TypeOK /\ worker[w] \in Phases /\ e \in Envelopes
  BY PhaseFields DEF IInv, TypeOK, Record, Idle
<1>1. UNCHANGED <<clock, latest, file, pin, up, rows, claims>>
  BY DEF Record
<1>2. /\ worker' \in [Workers -> Phases] /\ worker'[w] = Idle
      /\ \A v \in Workers : v # w => worker'[v] = worker[v]
  <2>1. Idle \in Phases
    BY DEF Phases
  <2> QED
    BY <1>0, <2>1, WorkerUpdate DEF Record
<1>3. RowsKeptToExpiry' /\ NonceReuseOnlyAfterRetention'
  BY <1>0, <1>1, LedgerUntouched DEF TypeOK
<1>4. RowOutlastsWindow(e) => recorded[e] = 0 /\ claims[e] = 1
  BY DEF IInv, PendingRecords, Record
<1>5. /\ recorded' \in [Envelopes -> Nat] /\ recorded'[e] = recorded[e] + 1
      /\ \A f \in Envelopes : f # e => recorded'[f] = recorded[f]
  BY <1>0 DEF TypeOK, Record
<1>6. TypeOK'
  BY <1>0, <1>1, <1>2, <1>5 DEF TypeOK
<1>7. FreshVerdicts' /\ PinnedVerdicts'
  BY <1>1, <1>2 DEF IInv, FreshVerdicts, PinnedVerdicts, InFlight, Idle
<1>8. PendingRecords'
  <2>1. RowOutlastsWindow(e) =>
            \A v \in Workers : v # w /\ worker[v].phase = "claimed" => worker[v].env # e
    BY DEF IInv, PendingRecords, Record
  <2>2. \A v \in Workers : worker[v].phase = "claimed" => worker[v].env \in Envelopes
    BY <1>0, PhaseFields DEF TypeOK
  <2>3. \A f \in Envelopes : RowOutlastsWindow(f) => claims'[f] =< 1 /\ recorded'[f] =< claims'[f]
    BY <1>0, <1>1, <1>4, <1>5 DEF IInv, PendingRecords, TypeOK
  <2>4. \A v \in Workers :
            LET f == worker'[v].env IN
            worker'[v].phase = "claimed" /\ RowOutlastsWindow(f) => claims'[f] = 1 /\ recorded'[f] = 0
    BY <1>0, <1>1, <1>2, <1>5, <2>1, <2>2 DEF IInv, PendingRecords, Idle
  <2>5. \A u, v \in Workers :
            (worker'[u].phase = "claimed" /\ worker'[v].phase = "claimed"
                /\ worker'[u].env = worker'[v].env /\ RowOutlastsWindow(worker'[v].env))
                => u = v
    BY <1>2 DEF IInv, PendingRecords, Idle
  <2> QED
    BY <2>3, <2>4, <2>5 DEF PendingRecords, RowOutlastsWindow, Retention
<1> QED
  BY <1>3, <1>6, <1>7, <1>8 DEF IInv

(* The clock, the operator and the process: no request changes its mind.   *)
LEMMA EnvironmentSteps ==
    ASSUME IInv,
           \/ Tick \/ StepBack
           \/ \E registry \in Registries : Publish(registry)
    PROVE  IInv'
<1>0. TypeOK
  BY DEF IInv
<1>1. UNCHANGED <<pin, up, worker, rows, claims, recorded>>
  BY DEF Tick, StepBack, Publish
<1>2. clock' \in Int /\ latest' \in Int /\ clock' =< latest' /\ latest' >= latest
  <2>1. CASE Tick
    BY <1>0, <2>1 DEF TypeOK, Tick
  <2>2. CASE StepBack
    BY <1>0, <2>2 DEF TypeOK, StepBack
  <2>3. CASE \E registry \in Registries : Publish(registry)
    BY <1>0, <2>3 DEF TypeOK, Publish
  <2> QED
    BY <2>1, <2>2, <2>3
<1>3. TypeOK'
  <2>1. file' \in Registries
    BY <1>0 DEF TypeOK, Tick, StepBack, Publish
  <2> QED
    BY <1>0, <1>1, <1>2, <2>1 DEF TypeOK
<1>4. RowsKeptToExpiry' /\ NonceReuseOnlyAfterRetention'
  BY <1>1, <1>2, LedgerUntouched
<1>5. latest' - clock' =< Lag /\ \A w \in InFlight : latest' - worker[w].now =< Lag
  <2>1. CASE Tick
    BY <1>0, <2>1, TimeAssumption DEF TypeOK, IInv, FreshVerdicts, Tick
  <2>2. CASE StepBack
    BY <1>0, <2>2, TimeAssumption DEF TypeOK, IInv, FreshVerdicts, StepBack
  <2>3. CASE \E registry \in Registries : Publish(registry)
    BY <2>3 DEF IInv, FreshVerdicts, Publish
  <2> QED
    BY <2>1, <2>2, <2>3
<1>6. FreshVerdicts'
  <2>1. \A w \in Workers : worker[w].phase = "claiming" => worker[w].claimNow \in Int
    BY <1>0, PhaseFields DEF TypeOK
  <2> QED
    BY <1>0, <1>1, <1>2, <1>5, <2>1 DEF IInv, FreshVerdicts, InFlight, InWindow, TypeOK
<1>7. PendingRecords' /\ PinnedVerdicts'
  BY <1>1 DEF IInv, PendingRecords, PinnedVerdicts, InFlight, RowOutlastsWindow, Retention
<1> QED
  BY <1>3, <1>4, <1>6, <1>7 DEF IInv

LEMMA ProcessSteps ==
    ASSUME IInv,
           Crash \/ \E newPin \in Registries \cup {None} : Restart(newPin)
    PROVE  IInv'
<1>0. TypeOK
  BY DEF IInv
<1>1. UNCHANGED <<clock, latest, file, rows, claims, recorded>>
  BY DEF Crash, Restart
<1>2. worker' = [w \in Workers |-> Idle]
  <2>1. CASE Crash
    BY <2>1 DEF Crash
  <2>2. CASE \E newPin \in Registries \cup {None} : Restart(newPin)
    BY <1>0, <2>2 DEF Restart, IInv, PinnedVerdicts, TypeOK
  <2> QED
    BY <2>1, <2>2
<1>3. TypeOK'
  BY <1>0, <1>1, <1>2 DEF TypeOK, Crash, Restart, Phases
<1>4. RowsKeptToExpiry' /\ NonceReuseOnlyAfterRetention'
  BY <1>0, <1>1, LedgerUntouched DEF TypeOK
<1>5. \A w \in Workers : worker'[w] = Idle /\ worker'[w].phase = "idle"
  BY <1>2 DEF Idle
<1>6. FreshVerdicts' /\ PinnedVerdicts'
  BY <1>1, <1>5 DEF IInv, FreshVerdicts, PinnedVerdicts, InFlight
<1>7. PendingRecords'
  BY <1>1, <1>5 DEF IInv, PendingRecords, RowOutlastsWindow, Retention
<1> QED
  BY <1>3, <1>4, <1>6, <1>7 DEF IInv

LEMMA CleanupStep ==
    ASSUME IInv, Cleanup
    PROVE  IInv'
<1>0. TypeOK
  BY DEF IInv
<1>1. UNCHANGED <<clock, latest, file, pin, up, worker, claims, recorded>>
  BY DEF Cleanup
<1>2. TypeOK'
  BY <1>0, <1>1 DEF TypeOK, Cleanup, Live
<1>3. RowsKeptToExpiry'
  <2> SUFFICES ASSUME NEW f \in Envelopes, claims[f] > 0, Row(f) \notin rows'
               PROVE  latest > f.ts + Retention + f.offset
    BY <1>1 DEF RowsKeptToExpiry, Row
  <2>1. CASE Row(f) \in rows
    <3>1. ~(f.ts + Retention + f.offset >= clock)
      BY <2>1 DEF Cleanup, Live, ExpiryText, Row
    <3> QED
      BY <1>0, <3>1, EnvelopeAssumption, RetentionInt DEF TypeOK
  <2>2. CASE Row(f) \notin rows
    BY <2>2 DEF IInv, RowsKeptToExpiry
  <2> QED
    BY <2>1, <2>2
<1>4. NonceReuseOnlyAfterRetention' /\ FreshVerdicts' /\ PendingRecords' /\ PinnedVerdicts'
  BY <1>1 DEF IInv, NonceReuseOnlyAfterRetention, FreshVerdicts, PendingRecords,
              PinnedVerdicts, InFlight, RowOutlastsWindow, Retention
<1> QED
  BY <1>2, <1>3, <1>4 DEF IInv

(* Every step of the specification keeps the inductive invariant.          *)
LEMMA StepIInv == IInv /\ [Next]_vars => IInv'
<1> SUFFICES ASSUME IInv, [Next]_vars PROVE IInv'
  OBVIOUS
<1>1. ASSUME NEW w \in Workers, Step(w) PROVE IInv'
  BY <1>1, QuietSteps, ClaimStep, RecordStep DEF Step
<1>2. CASE UNCHANGED vars
  BY <1>2 DEF vars, IInv, TypeOK, RowsKeptToExpiry, FreshVerdicts, PendingRecords,
              NonceReuseOnlyAfterRetention, PinnedVerdicts, InFlight, RowOutlastsWindow, Retention
<1> QED
  BY <1>1, <1>2, CleanupStep, EnvironmentSteps, ProcessSteps DEF Next

LEMMA InvariantHolds == Spec => []IInv
  BY InitIInv, StepIInv, PTL DEF Spec

-----------------------------------------------------------------------------
(* Types hold in every state.                                              *)
THEOREM TypeCorrect == Spec => []TypeOK
<1>1. IInv => TypeOK
  BY DEF IInv
<1> QED
  BY <1>1, InvariantHolds, PTL

(* However many workers race, however often the process restarts, and with *)
(* the clock falling back by up to Lag, no envelope whose row outlasts its *)
(* window is accepted twice.                                               *)
THEOREM NoDoubleAcceptance == Spec => []AcceptedAtMostOnce
<1>1. IInv => AcceptedAtMostOnce
  BY DEF IInv, PendingRecords, AcceptedAtMostOnce
<1> QED
  BY <1>1, InvariantHolds, PTL

(* Two accepted envelopes that share producer and nonce were signed more   *)
(* than retention, less skew, lag and offset, apart, when the row of the   *)
(* later one outlasts its window.                                          *)
THEOREM NonceReuse == Spec => []NonceReuseOnlyAfterRetention
<1>1. IInv => NonceReuseOnlyAfterRetention
  BY DEF IInv
<1> QED
  BY <1>1, InvariantHolds, PTL

(* The submission ledger holds at most one record of an envelope whose row *)
(* outlasts its window, and none whose nonce was not claimed.              *)
THEOREM NoDuplicateRecord == Spec => []RecordedAtMostOnce
<1>1. IInv => RecordedAtMostOnce
  <2> SUFFICES ASSUME IInv, NEW e \in Envelopes, RowOutlastsWindow(e)
               PROVE  recorded[e] =< claims[e] /\ recorded[e] =< 1
    BY DEF RecordedAtMostOnce
  <2> QED
    BY DEF IInv, TypeOK, PendingRecords
<1> QED
  BY <1>1, InvariantHolds, PTL

(* No cleanup, opportunistic or on demand, deletes a row before the instant *)
(* the text of its expiry names, for envelopes of any offset.              *)
THEOREM RowsKept == Spec => []RowsKeptToExpiry
<1>1. IInv => RowsKeptToExpiry
  BY DEF IInv
<1> QED
  BY <1>1, InvariantHolds, PTL

(* Every claim is by an envelope the pinned registry authorises.           *)
THEOREM AuthorizedClaims == Spec => ClaimsAreAuthorized
<1> DEFINE Checked(w) ==
        LET e == worker[w].env IN
        /\ e.registry = pin
        /\ Authorized(pin, e, worker[w].now)
        /\ e.ts - worker[w].now \in -Skew .. Skew
<1>1. IInv /\ [Next]_vars =>
        [\A w \in Workers :
            (worker[w].phase = "claiming" /\ worker'[w].phase = "claimed") => Checked(w)]_vars
  <2> SUFFICES ASSUME IInv, NEW w \in Workers, worker[w].phase = "claiming"
               PROVE  Checked(w)
    OBVIOUS
  <2>1. w \in InFlight /\ worker[w].now \in Int /\ worker[w].env \in Envelopes
    BY PhaseFields DEF InFlight, IInv, TypeOK
  <2>2. worker[w].env.registry = pin /\ Authorized(pin, worker[w].env, worker[w].now)
    BY <2>1 DEF IInv, PinnedVerdicts
  <2>3. worker[w].env.ts - worker[w].now \in -Skew .. Skew
    BY <2>1, EnvelopeAssumption, RetentionInt DEF IInv, FreshVerdicts, InWindow
  <2> QED
    BY <2>2, <2>3
<1> QED
  BY <1>1, InvariantHolds, PTL DEF Spec, ClaimsAreAuthorized
=============================================================================
