----------------------- MODULE AuthenticatedSubmission -----------------------
(***************************************************************************)
(* POST /v1/attest/authenticated (authenticated_submission_api.py), the    *)
(* envelope verification it calls (authenticated_submission.py) and the    *)
(* durable nonce ledger behind it (replay_ledger.py, SQLiteNonceStore).    *)
(*                                                                         *)
(* Handlers are synchronous functions in a thread pool: Workers run        *)
(* concurrently and are interleaved at every read of shared state (the     *)
(* registry file, the wall clock twice), at the SQLite transaction, and at *)
(* the append to the submission ledger.  The process may crash at any      *)
(* point and is restarted by systemd; the nonce ledger and the submission  *)
(* ledger survive.                                                         *)
(*                                                                         *)
(* Time.  clock is what datetime.now() reads; it may be stepped back (NTP, *)
(* a restart on a host whose clock lags).  latest is the highest value it  *)
(* has ever read.  Lag bounds, together, how far the clock may fall back   *)
(* and how long a request may stay between the reading its timestamp is    *)
(* checked against and its claim.                                          *)
(***************************************************************************)
EXTENDS ProducerRegistry

CONSTANTS
    Workers,        \* threads of the pool
    Envelopes,      \* envelopes producers may send, any number of times
    Registries,     \* registry documents operators publish
    Route,          \* ROUTE_ID, the route this handler serves
    Skew,           \* max_skew, DEFAULT_MAX_SKEW_SECONDS
    Multiple,       \* RETENTION_SKEW_MULTIPLE
    Lag,            \* environment: clock fall-back plus in-flight time
    MaxClock        \* bound: the clock stays in 0 .. MaxClock

(* ts is the instant the signed timestamp names, offset the UTC offset it  *)
(* is written with: its text shows the local time ts + offset.             *)
ASSUME EnvelopeAssumption ==
    \A e \in Envelopes : e.ts \in Int /\ e.offset \in Int

ASSUME TimeAssumption ==
    Skew \in Nat /\ Multiple \in Nat /\ Lag \in Nat /\ MaxClock \in Nat

VARIABLES
    clock, latest,  \* the wall clock, and the highest value it has had
    file,           \* the registry document on disk
    pin,            \* PRODUCER_REGISTRY_SHA256, read from the environment
    up,             \* the service process is running
    worker,         \* per worker: phase, envelope, registry, clock readings
    rows,           \* nonce_ledger
    claims,         \* history: how often each envelope's nonce was claimed
    recorded        \* attest_authenticated_submissions_master.jsonl, a bag

vars == <<clock, latest, file, pin, up, worker, rows, claims, recorded>>

Idle == [phase |-> "idle"]

Retention == Skew * Multiple

Key(e) == <<e.producer, e.nonce>>

(* Mutant: rows expire with their timestamp, without retention.            *)
ExpiryWithoutRetention(row) == row.ts + row.offset

(* expiry_at is (timestamp + retention).isoformat(), still in the offset   *)
(* of the timestamp; "expiry_at < now" compares the two texts, so the row's *)
(* local time is compared with the clock's UTC time.                       *)
ExpiryText(row) == row.ts + Retention + row.offset

(* Mutant: a row is deleted at its expiry instant already.                 *)
LiveStrictly(ledger, now) == {r \in ledger : ExpiryText(r) > now}

Live(ledger, now) == {r \in ledger : ExpiryText(r) >= now}

Row(e) == [key |-> Key(e), ts |-> e.ts, offset |-> e.offset]

InWindow(e, now) == e.ts =< now + Skew /\ e.ts >= now - Skew

(* A request whose timestamp has been checked and whose claim is pending.  *)
InFlight == {w \in Workers : worker[w].phase \in {"verified", "claiming"}}

Init ==
    /\ clock = 0 /\ latest = 0
    /\ file \in Registries /\ pin = file
    /\ up = TRUE
    /\ worker = [w \in Workers |-> Idle]
    /\ rows = {}
    /\ claims = [e \in Envelopes |-> 0]
    /\ recorded = [e \in Envelopes |-> 0]

-----------------------------------------------------------------------------
(* The request handler.  Every rejection answers 401 or 503 and leaves the *)
(* worker idle; nothing else has changed.                                  *)

Submit(w, e) ==
    /\ up /\ worker[w].phase = "idle"
    /\ e.route = Route
    /\ RegistryLoads(file, pin)
    /\ worker' = [worker EXCEPT ![w] = [phase |-> "loaded", env |-> e, registry |-> file]]
    /\ UNCHANGED <<clock, latest, file, pin, up, rows, claims, recorded>>

Verified(w) ==
    LET e == worker[w].env IN
    /\ e.registry = worker[w].registry
    /\ Authorized(worker[w].registry, e, clock)
    /\ e.genuine
    /\ InWindow(e, clock)

Verify(w) ==
    /\ worker[w].phase = "loaded"
    /\ worker' = [worker EXCEPT ![w] =
            IF Verified(w)
            THEN [phase |-> "verified", env |-> worker[w].env, now |-> clock]
            ELSE Idle]
    /\ UNCHANGED <<clock, latest, file, pin, up, rows, claims, recorded>>

(* check_and_record reads the clock before it takes the store's lock ...   *)
ReadClaimClock(w) ==
    /\ worker[w].phase = "verified"
    /\ worker' = [worker EXCEPT ![w] =
            [phase |-> "claiming", env |-> worker[w].env,
             now |-> worker[w].now, claimNow |-> clock]]
    /\ UNCHANGED <<clock, latest, file, pin, up, rows, claims, recorded>>

(* Mutant: the nonce has no uniqueness constraint.                         *)
NeverTaken(w) == FALSE

(* ... and then, in one immediate transaction, deletes expired rows and    *)
(* inserts its own.  A taken key rolls the deletion back too.              *)
Taken(w) == \E r \in Live(rows, worker[w].claimNow) : r.key = Key(worker[w].env)

Claim(w) ==
    /\ worker[w].phase = "claiming"
    /\ ~Taken(w)
    /\ rows' = Live(rows, worker[w].claimNow) \cup {Row(worker[w].env)}
    /\ claims' = [claims EXCEPT ![worker[w].env] = @ + 1]
    /\ worker' = [worker EXCEPT ![w] = [phase |-> "claimed", env |-> worker[w].env]]
    /\ UNCHANGED <<clock, latest, file, pin, up, recorded>>

(* IntegrityError, or a sqlite3.Error (NonceStoreUnavailableError): 401.   *)
ClaimRejected(w) ==
    /\ worker[w].phase = "claiming"
    /\ worker' = [worker EXCEPT ![w] = Idle]
    /\ UNCHANGED <<clock, latest, file, pin, up, rows, claims, recorded>>

(* Mutant: the append is retried after it has succeeded.                   *)
RecordAndRetry(w) ==
    /\ worker[w].phase = "claimed"
    /\ recorded' = [recorded EXCEPT ![worker[w].env] = @ + 1]
    /\ UNCHANGED <<clock, latest, file, pin, up, worker, rows, claims>>

Record(w) ==
    /\ worker[w].phase = "claimed"
    /\ recorded' = [recorded EXCEPT ![worker[w].env] = @ + 1]
    /\ worker' = [worker EXCEPT ![w] = Idle]
    /\ UNCHANGED <<clock, latest, file, pin, up, rows, claims>>

(* The append raises OSError: 500, and the nonce stays claimed.            *)
RecordFails(w) ==
    /\ worker[w].phase = "claimed"
    /\ worker' = [worker EXCEPT ![w] = Idle]
    /\ UNCHANGED <<clock, latest, file, pin, up, rows, claims, recorded>>

(* SQLiteNonceStore.cleanup, the on-demand deletion.                       *)
Cleanup ==
    /\ up
    /\ Live(rows, clock) # rows
    /\ rows' = Live(rows, clock)
    /\ UNCHANGED <<clock, latest, file, pin, up, worker, claims, recorded>>

-----------------------------------------------------------------------------
(* The environment: the clock, the operator, the process.                  *)

Tick ==
    /\ clock < MaxClock
    /\ clock' = clock + 1
    /\ latest' = IF clock' > latest THEN clock' ELSE latest
    /\ \A w \in InFlight : latest' - worker[w].now =< Lag
    /\ UNCHANGED <<file, pin, up, worker, rows, claims, recorded>>

StepBack ==
    /\ clock > 0 /\ latest - (clock - 1) =< Lag
    /\ clock' = clock - 1
    /\ UNCHANGED <<latest, file, pin, up, worker, rows, claims, recorded>>

Publish(registry) ==
    /\ file # registry
    /\ file' = registry
    /\ UNCHANGED <<clock, latest, pin, up, worker, rows, claims, recorded>>

Crash ==
    /\ up
    /\ up' = FALSE
    /\ worker' = [w \in Workers |-> Idle]
    /\ UNCHANGED <<clock, latest, file, pin, rows, claims, recorded>>

(* The unit's environment is read again; _init_db keeps an existing table. *)
Restart(newPin) ==
    /\ ~up
    /\ up' = TRUE
    /\ pin' = newPin
    /\ UNCHANGED <<clock, latest, file, worker, rows, claims, recorded>>

Step(w) ==
    \/ \E e \in Envelopes : Submit(w, e)
    \/ Verify(w)
    \/ ReadClaimClock(w)
    \/ Claim(w)
    \/ ClaimRejected(w)
    \/ Record(w)
    \/ RecordFails(w)

Next ==
    \/ \E w \in Workers : Step(w)
    \/ Cleanup
    \/ Tick
    \/ StepBack
    \/ \E registry \in Registries : Publish(registry)
    \/ Crash
    \/ \E newPin \in Registries \cup {None} : Restart(newPin)

Spec == Init /\ [][Next]_vars

-----------------------------------------------------------------------------
Phases ==
    {Idle}
    \cup [phase : {"loaded"}, env : Envelopes, registry : Registries]
    \cup [phase : {"verified"}, env : Envelopes, now : Int]
    \cup [phase : {"claiming"}, env : Envelopes, now : Int, claimNow : Int]
    \cup [phase : {"claimed"}, env : Envelopes]

(* Types, the clock never above its highest reading, and one row per key:  *)
(* nonce_ledger's primary key is (producer, nonce) (replay_ledger.py,      *)
(* _init_db), and check_and_record's insert lives by it.                   *)
TypeOK ==
    /\ clock \in Int /\ latest \in Int /\ clock =< latest
    /\ file \in Registries
    /\ pin \in Registries \cup {None}
    /\ up \in BOOLEAN
    /\ worker \in [Workers -> Phases]
    /\ rows \subseteq {Row(e) : e \in Envelopes}
    /\ \A r, s \in rows : r.key = s.key => r = s
    /\ claims \in [Envelopes -> Nat]
    /\ recorded \in [Envelopes -> Nat]

(* e can be claimed until its timestamp plus skew and lag, and its row is  *)
(* kept, by the text of its expiry, until its timestamp plus retention plus *)
(* its offset.  So an envelope stamped on UTC or ahead of it is covered as *)
(* long as the lag is within what retention leaves, and one stamped behind *)
(* UTC only by as much of that as it is behind: nothing in _parse_timestamp *)
(* bounds the offset, and the properties below say whom they protect.      *)
RowOutlastsWindow(e) == Skew + Lag - e.offset =< Retention

(* No envelope whose row outlasts its window is accepted twice, whatever   *)
(* the interleaving of its copies, the restarts and the clock: the promise *)
(* of the durable nonce ledger (replay_ledger.py, check_and_record).       *)
AcceptedAtMostOnce ==
    \A e \in Envelopes : RowOutlastsWindow(e) => claims[e] =< 1

(* Two different envelopes that carry the same producer and nonce are both *)
(* accepted only if their signed timestamps are further apart than what    *)
(* retention leaves after skew, lag and the first one's offset, given that *)
(* the row of the second outlasts its window (check_and_record's expiry    *)
(* against verify's acceptance window).                                    *)
NonceReuseOnlyAfterRetention ==
    \A e, f \in Envelopes :
        (e # f /\ Key(e) = Key(f) /\ claims[e] > 0 /\ claims[f] > 0
            /\ e.ts =< f.ts /\ RowOutlastsWindow(f))
                => f.ts - e.ts + Skew + Lag - e.offset > Retention

(* The submission ledger never holds more records of an envelope than were *)
(* claimed and so, with the crash between claim and append, at most one if *)
(* its row outlasts its window (submit_authenticated_evidence).            *)
RecordedAtMostOnce ==
    \A e \in Envelopes :
        RowOutlastsWindow(e) => recorded[e] =< claims[e] /\ recorded[e] =< 1

(* No deletion takes a row before the instant the text of its expiry names *)
(* (check_and_record, cleanup): the row of every claimed envelope, whatever *)
(* its offset, is there unless the clock has read more than its timestamp  *)
(* plus retention plus its offset.                                         *)
RowsKeptToExpiry ==
    \A e \in Envelopes :
        claims[e] > 0 => Row(e) \in rows \/ latest > e.ts + Retention + e.offset

(* The module docstring of replay_ledger.py promises more: cleanup never   *)
(* deletes a row whose signed timestamp is still within retention of now.  *)
(* It follows for offsets that are not behind UTC, and for those only.     *)
RetainedRowsPresent ==
    \A e \in Envelopes : claims[e] > 0 => Row(e) \in rows \/ latest > e.ts + Retention

(* A nonce is claimed only by an envelope that the registry pinned in this *)
(* process authorises, at an instant within skew of its timestamp: a       *)
(* document published or re-pinned meanwhile never lets an envelope of a   *)
(* suspended or out-of-scope producer through.                             *)
ClaimsAreAuthorized ==
    [][\A w \in Workers :
            (worker[w].phase = "claiming" /\ worker'[w].phase = "claimed") =>
                LET e == worker[w].env IN
                /\ e.registry = pin
                /\ Authorized(pin, e, worker[w].now)
                /\ e.ts - worker[w].now \in -Skew .. Skew]_vars
=============================================================================
