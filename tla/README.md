# A verification project for attest-service

attest-service is a FastAPI application (one uvicorn process, synchronous handlers in a
thread pool) over append-only JSONL ledgers and one SQLite table, plus an operator script
that runs in a process of its own. This directory models its core in TLA+, checks the
models with TLC and proves the most important results with TLAPS.

Paths below are relative to `src/`.

## 1. Inventory

| Component | State it keeps | Operations | Modelled in |
|---|---|---|---|
| Authenticated submission (`authenticated_submission_api.py`, `authenticated_submission.py`) | `attest_authenticated_submissions_master.jsonl` | `POST /v1/attest/authenticated` | `AuthenticatedSubmission` |
| Nonce ledger (`replay_ledger.py`) | SQLite table `nonce_ledger` | `check_and_record`, `cleanup` | `AuthenticatedSubmission` |
| Producer registry (`producer_registry.py`) | a pinned JSON document, loaded per request | `load_pinned_registry`, `resolve_and_authorize_producer` | `ProducerRegistry` |
| Path C Step 1 (`action_commitment_store.py`) | action commitment ledger | `POST`/`GET /v1/action-commitments` | `PathC` |
| Path C Step 2A (`deterministic_evaluation_store.py`, `deterministic_evaluator.py`) | evaluation ledger | `POST`/`GET /v1/evaluate/deterministic` | `PathC`, `DeterministicEvaluator`, `EvaluatorInputs` |
| Path C Step 2B (`continuity_evaluation_receipts.py`) | signed receipt ledger | `POST`/`GET .../continuity-receipt` | `PathC` |
| Attestation sessions (`attest_service.py` 1014-1200) | session, chain and receipt ledgers | `attest`, `begin`, `complete` | `AttestSession` |
| Agent registry (`attest_service.py` 1660-2187) | agent, activation, chain ledgers | register, historical import, activate, continuity pair, metrics | `AgentRegistry` |
| SAR-402 Path A (`sar402_receipts.py`) | the receipt ledger | `POST /v1/sar-402/receipts` | `RecordingWrappers` (what it appends) |
| SAR-402 Path B (`scripts/sar402_pathb_wrap_receipt.py`, `sar402_recording_*.py`, `sar402_pathb_credential.py`) | recording wrapper ledger, signing seed | wrap one receipt; `GET /v1/sar-402/recording/{id}` | `RecordingWrappers` |
| Chain correlation view (`chain_correlation.py`) | none | `GET .../correlation` | its wrapper status, in `RecordingWrappers` |
| JSONL byte layer (`append_jsonl`, `read_jsonl` and their copies in the stores) | files | append under `flock` (one ledger without it), read without it | `JsonlLedger`, `AppendOnlyLog` |
| x402 (`x402_live.py`, `pay_url_summary.py`) | none; settlement at a facilitator | `POST /pay/url-summary` | `UrlSummary`, `PublicEndpoints` |
| Demo receipt (`_demo_rate_limited`) | per-client set of hits | `POST /v1/demo-receipt` | `DemoReceipt`, `PublicEndpoints` |
| Evidence graph (`evidence_graph_extractor.py`) | none | extract, with one of four filters | `EvidenceGraph` |
| Listings, agent summary | none | read-only projections | no |
| Deployment scripts, units, demo generators | none | shell, systemd, one-shot programs | no |

How they interact. Handlers share nothing in memory except the nonce store's lock; they
meet in the ledgers. Every append takes an exclusive file lock, **reads take none**, and no
lock spans a read and the append it decided on. The sessions and the registry call two
external services (continuity-analyzer, settlement-witness) between their read and their
appends. Authenticated submission reads the registry file, then the clock, then the clock
again, then runs one SQLite transaction, then appends. Path B reads what Path A recorded,
from another process, and the service and the correlation view verify what Path B stored.
The evidence graph is extracted by a third process that reads the Path C ledgers twice, one
after the other, while the service appends to them. `/pay/url-summary` calls the x402
facilitator twice and keeps no record of a payment; `/v1/demo-receipt` keeps its hits in the
memory of the process, shared by its threads.
`attest-service.service` says `Restart=always`: a dead process comes back with whatever
environment it is then given, and the ledgers as they are.

What is hard, and what must hold:

- *Submission*: replay under concurrent copies, restarts and a clock that steps back. No
  envelope whose row outlasts its acceptance window is accepted or recorded twice; a nonce is
  free again only after its retention; only an authorised producer's envelope is claimed.
- *Path C*: three check-then-append stores, each step reading the one before. The verdict
  is of the committed spec; the receipt is of a stored verdict; each store is write-once.
- *Sessions*: `complete` decides on a record read seconds before it writes. A session begun
  anonymously never becomes trusted evidence; a receipt never precedes its chain; one chain
  per session; a complete session gets its chain, unless its own request dies or cannot append.
- *Agents*: records rebuilt from a copy read before two calls, several appends per request.
  Stages are backed by recorded activations; outcomes are on their ledger before the agent
  shows them; success and failure partition the attempts; ownership and evidence pointers
  are stable.
- *Wrappers*: key rotation, two processes, ids that may be mentioned in other records. What
  verified before the rotation verifies after it; what is served is over a recorded
  receipt; one wrapper per receipt; what the view calls verified is served.
- *Payments*: a settlement may be refused, time out, or happen after the caller gave up. A
  live receipt names a settled payment that no other receipt names; nobody is charged for a
  request the service itself then refuses.
- *Rate limit*: a read, filter, append and write back of a shared list by several threads, by
  a wall clock that can be stepped back.
- *Bytes*: records of several system calls, failed writes, a flush repeated at close, a
  death in the middle. Reads return a log that only grows, and fail only for stated reasons;
  what an append acknowledged is in it; the lock always comes free.
- *Evidence graph*: six readings at six moments. Nothing printed lacks its evidence, and
  nothing printed is ever withdrawn.

`PROJECT.json` lists every hazard with its line. Those no property covers, and those a property
names as its exception, say so in a note.

## 2. Plan

The order in which the project was built, most important behaviour first:

1. `ProducerRegistry`, `AuthenticatedSubmission` and its proofs.
2. `DeterministicEvaluator`, `EvaluatorInputs`; `WriteOnce`, `PathC` and its proofs.
3. `AttestSession`, `AgentRegistry`, `RecordingWrappers`, and then their proofs.
4. `JsonlLedger` with `AppendOnlyLog`, the layer the others stand on, and its proofs.
5. `ThreadPool`, `DemoReceipt`, `UrlSummary`, composed in `PublicEndpoints`, and its proofs.
6. `EvidenceGraph`, composed with `PathC`, and its proofs, which build on those of `PathC`.

What would come next: the validation in front of Path A and the chain part of the
correlation view (see 6), and the evaluator over specs of more than two checks.

## 3. The modules

**ProducerRegistry** (pure operators). A registry document is a function from producer to
entry; "the file has the pinned hash" is equality of documents. `Authorized` is
`resolve_and_authorize_producer` with its deny-by-default conjuncts; namespaces are
sequences of segments with a wildcard kind.

**AuthenticatedSubmission**. `worker` holds each request: loaded (`Submit`, the registry
file was read against the pin), verified (`Verify`, first clock reading), claiming
(`ReadClaimClock`, second reading, taken before the store's lock), claimed (`Claim`, the
transaction that deletes expired rows and inserts the nonce), then `Record` or
`RecordFails`. `ClaimRejected` is both the replay and any `sqlite3.Error`: they answer the
same and change nothing. `Cleanup` is the store's own deletion; no caller in the service
runs it, an operator may. A row's `expiry_at` is text in the UTC offset of the signed
timestamp, compared as text with the UTC text of now: `ExpiryText` adds the offset, and nothing
in the code bounds it. `RowOutlastsWindow` therefore says of which envelopes the ledger can keep
its promise: those whose row, by that text, is kept longer than they are acceptable. The
environment ticks and steps back the clock, publishes another registry, crashes and
restarts the process with another pin. `claims` is a history variable.

**DeterministicEvaluator** (pure operators). An output is a JSON value, its objects nested as
deep as one likes; a dot-path is the sequence of its keys. One operator per function of the
source: `Resolve`, which walks the objects key by key (`Walk`), `CheckStatus` by kind,
`SpecError` (with the `TypeError` a JSON array as `kind` causes), the aggregation loop as
`FlagsAfter`, a function of the number of checks done, and `ReleaseIntent`, where the last key of
the inverted policy wins. **EvaluatorInputs** is a state machine over its inputs: any spec,
policy and output, then fields dropped from the output at any depth (`Without`), which changes
every object above them. Both write a cascade of tests as IF and ELSE, in the order of the code:
TLA+ leaves open which of two true guards of a CASE is taken.

**PathC** EXTENDS the evaluator. `ledger` holds the three stores. A worker's phases follow the
handlers: `PostCommitment`, `PostEvaluate` (reads the commitment and evaluates),
`StoreEvaluation`, `PostReceipt` (reads the evaluation), `SignReceipt` (looks for an existing
receipt, needs the key, draws an instant), `StoreReceipt`; `Store` is the read of the ledger and
`AppendRecord` the append it decided on, two steps because no lock joins them; an append may fail
(`AppendFails`: 500, the key free for a retry). `Restart` loses requests and may change whether a
signing key is configured. Validated records with one `action_ref` have one request body, because
the digest chain over it was recomputed: `ChainAssumption`.

**WriteOnce** is the abstract store: per key one value, written once, replaced only for a
key in `contended`. `PathC` implements it three times and `RecordingWrappers` once, by
INSTANCE with `value` the record a reader gets. `contended` in those modules is a history
variable that records the keys two writers had both found free and not yet appended; the
refinement therefore says that this overlap is the *only* way a served record changes.

**AttestSession**. A request runs from `Attest`, `Begin` or `Complete` over
`ContinuityAnswered` and `SarAnswered` (or `CallFails`: 502, nothing written) to a list of
appends that `Write` performs one at a time in the handler's order. An append may raise
(`WriteFails`: a full disk, a character that does not encode): the process lives, and the
appends still to come are never made. `abandoned` is a history variable: the sessions whose
chain the request was about to append when it failed or the process died. `sessions` keeps the
records of each id in order, as the last one is what `complete` reads. One session from
before provenance was recorded may exist. `overlapped` is a history variable: the sessions
that two requests were completing at once. Only the two classes that
`classify_submission_provenance` returns occur.

**AgentRegistry**. The same shape for `RegisterAgent`, `HistoricalImport`, `ActivateAgent`
(with `ActivationAnswered`, passing or not, and `ActivationCallFails`) and
`RecordContinuityPair` (with `PairAnswered`, `PairCallFails`), and the same `Write`,
`WriteFails` and `Crash`. `RegistryRecord` is
`registry_record`, which keeps the pointers that are not given. `ScopedLatest`, `Attempts`,
`Successes` and `Failures` are the sets `/v1/explorer/metrics` counts. Handlers that end in
an error with nothing written are guards (a foreign owner, a stage below verified).

**RecordingWrappers**. `Ingest` and `RecordOther` append Path A receipts, which may mention
other ids; `Build`, `CheckStore`, `AppendWrapper` and `Stop` are one run of the script;
`Configure` restarts the service with other public keys. `FindReceipt` is the script's
search at any depth, `RecordingStatus` the endpoint with its key overlay and
`CorrelationStatus` the view. A signature is the key that made it. A run always draws a
new uuid and timestamps, so the store's branch for an identical wrapper has no caller that
reaches it; a rerun reports a conflict.

**AppendOnlyLog** is what all modules above take a ledger to be. **JsonlLedger** is the code
that has to provide it. The text is a sequence of halves of records and line breaks; a
`Write` is one system call, a record of `Long` needs several, a record of `Splitting` holds
a character at which `str.splitlines` breaks. `WriteFails` is a full disk: the `finally`
gives the lock back, and `Close`, without it, writes what the file object still holds or
drops it. `locking` is FALSE for the submission ledger, whose append takes no lock. `Crash`
may come anywhere. `ReadJsonl` gives the records whose second half is in the text, by place
(`Ends`, `Nth`). `spoiled` is a history variable that names exactly the writes after which
a ledger cannot be read.

**ThreadPool** holds what the handlers of the one process have in common. **DemoReceipt** is
the limiter as `ReadRate` and `WriteRate`, between which a thread may be preempted. The code
keeps a list of times per client and only filters, counts and appends to it; the model keeps
a set of hits, each with a number of its own, so that two hits at one time count as two.
`hitsTaken` hands out the numbers and `admitted` is the history of the hits let through.
`StepBack` corrects the wall clock; `era`, a history field of a hit, is how often that had
happened when it came.
**UrlSummary** is the handler of `/pay/url-summary` by its calls out: `PostUrlSummary`, which
waits for the caller's URL if there is one (`Fetched`, `FetchFails`), then the refusals of mode
and configuration (`Delivered`), `VerifyReplies`,
`FacilitatorSettles` (the facilitator's own step), `SettleReplies` or `SettleFails`,
`LateSettlement` (it takes effect after the caller has gone), `Ingested` or `IngestFails`.
The SAR-402 layer that judges the evidence (morpheus) is not in the repository: it accepts or
refuses. That the facilitator settles a payment at most once is an assumption about x402.
**PublicEndpoints** composes the two over one pool and one restart.

**EvidenceGraph** EXTENDS `PathC` and adds the extractor's steps: three readings
(`ReadLedger`), `ResolveFilter`, three more readings, `EmitGraph`. `BuildGraph` gives nodes
and edges as sets; titles and sorting are left out.

## 4. What the runs check

| Run | Instance and bounds | Shows |
|---|---|---|
| submission_concurrent | 2 workers, 4 envelopes of one nonce (stamped at 1, 2 and 7, written one unit ahead of UTC, one behind it and on it; one names the document that suspends its producer), 2 documents, Skew 1, Multiple 4, Lag 2, clock 0..8 | TypeOK, AcceptedAtMostOnce, NonceReuseOnlyAfterRetention, RecordedAtMostOnce, RowsKeptToExpiry, ClaimsAreAuthorized |
| submission_local_time | one envelope stamped five units behind UTC | RetainedRowsPresent fails |
| evaluator_inputs | all specs of at most 2 of 15 checks, 49 policies, outputs with 3 fields, one of them nested | AggregationAsDocumented, ReleaseNeedsMandate, DroppingFieldsNeverPasses |
| pathc_concurrent | 2 workers, 2 records of one `action_ref` and an action whose evaluation raises, 2 outputs, 2 instants | TypeOK, SpecBinding, ReceiptBacked, RaceIsBounded, ServedReceiptAgrees, StoresWriteOnce (three refinements of WriteOnce) |
| pathc_receipt_race | the same | OneReceiptPerRef fails |
| session_concurrent | 2 workers, 2 sessions, 2 receipt ids of each service, 1 restart or failed append | NeverMoreTrustedThanBegun, ReceiptsNameRecordedChains, OneChainPerSession, RecordNeverMoreTrustedAlone, CompleteSessionsAreChained |
| registry_concurrent | 2 workers, 1 agent, 2 owners, 2 activations, 1 restart, any appends failing | VerifiedIsBacked, OutcomeRecordedFirst, OwnerIsStable, MetricsPartition |
| registry_stages | 1 worker | StagesAreMonotonic fails |
| wrappers_concurrent | 2 operators, 2 receipts, 3 recording events, 1 reconfiguration | RotatedVerifierServesAll, ServedWrapperHasReceipt, CorrelationNeverOverclaims, WrappersWriteOnce |
| public_endpoints | 2 threads, 1 client, 2 payments (one names another payer), 7 shapes of request, 4 requests, limit 2 in a window of 1, clock 0..2, 1 step back, 1 restart | LimitHoldsAlone, LimitedIsJustified, LiveReceiptsAreSettled, OneReceiptPerSettlement, ChargedIsServed |
| jsonl_ledger | 2 writers, a short, a long and a splitting record, 3 appends, 2 failures or crashes, with and without the lock | ReadsFailOnlyIfSpoiled, AcknowledgedAreRead, ReadsAreAppendOnly (AppendOnlyLog), LockIsReleased |
| evidence_graph | PathC with 2 workers, 1 commitment, 2 outputs, 1 instant; the filters all, evaluator and action_ref | ArtifactsAreLinked, GraphStaysTrue |

*Bounds.* Two workers are the least that race, and every race here is between two requests
on one key; the proofs of section 5 lift the number. The clock of the submission runs past
retention (4) and all acceptance windows: the row of instant 1 expires before 7 is
acceptable, so a nonce is reused, and never before 2 has stopped being so. The rows of the
envelopes written off UTC expire one unit late and one unit early, and the lag leaves the early
one just long enough. Two receipt ids
per service are enough for two sessions to be chained, or one session twice. `MaxRegistered`
caps the re-registrations of an agent, which can otherwise repeat for ever. Four requests are
two per thread: the limit is reached and exceeded, a payment is presented while it is being
settled and again afterwards. Three appends are two that race and one after them, which is
where a spoiled line shows; two faults are a failed write and a crash on top of it. The
extractor treats each `action_ref` by itself, so one commitment is enough; its `reason`
filter selects what `evaluator` selects one step earlier and is covered by the proofs only.
Bounded ids, requests and appends run out, which is why the registry, wrapper, evaluator,
public and ledger runs switch the deadlock check off: the instance stops, the service does
not. `MaxFaults` (sessions: crashes and failed appends together), `MaxCrashes` and `MaxRestarts`
are one: after a restart requests start from nothing over
ledgers that any earlier prefix could have left. The submission and Path C modules bound
neither crashes nor restarts nor failed appends. `MaxStepBacks` is one, which gives the limiter
two eras and hits of times yet to come.

*Symmetry* is used where values are interchangeable in the instance (workers, ids, instants,
the two spellings of one commitment) and never where liveness is checked.

*Fairness.* Weak fairness of what a thread does next, in two modules. In `AttestSession` of
`Write \/ WriteFails`: a thread with appends left waits for nothing but a file lock whose holder
writes one line and releases it in a `finally`, so its next append is made or raises. In
`JsonlLedger` of `Proceed`: a writer that has the lock computes and makes system calls. Nothing
is assumed of the calls out, least of all that they end: the timeout of `requests` is one of each
read. Nor of clients, restarts, or of who gets the lock next; a crash, or an append that fails,
is the exception the properties allow.

*Violations.* Each is a sentence of the repository that the code does not keep; the
findings in `PROJECT.json` quote it.

- `submission_local_time`: expiry is compared as text across UTC offsets, so a row written
  by a producer behind UTC is deleted early (`replay_ledger.py` 181-196).
- `pathc_receipt_race`: two receipts of one action with different instants.
- `registry_stages`: a failed activation takes a chained agent to `activation_failed`.

*Seen while modelling, without a run of their own.*

- Two evaluations, or two wrappers, can be stored under one key by the same race as two
  receipts (the refinements name it as contention).
- A policy beside a malformed committed spec is still applied: with `release_on` set to
  INDETERMINATE the record declares `should_release` (`attest_service.py` 1464, docstring
  1414-1419).
- Two completers of one session that overlap can raise the class of its record (1128, comment
  at 1124). The chains and receipts are covered by NeverMoreTrustedThanBegun, which holds.
- The correlation view verifies with the base key only and calls a wrapper of the overlay key
  unverifiable (`chain_correlation.py` 161, docstring 30-31). A `-2` wrapper is verified under
  the base key when no overlay is set (`attest_service.py` 1279-1285).
- A committed check whose `kind` is a JSON array makes every evaluation of that action end in
  500 (`EvaluationRaises`).
- A historical import writes an activation without a provenance class although a comment says
  every activation carries one (`attest_service.py` 100-101, 1735-1752). A continuity pair
  rewrites the activation it follows under its own caller's class (2145), and for an imported
  agent fails after its chain is appended (2119).
- The script wraps a later receipt that mentions the id it was asked for
  (`scripts/sar402_pathb_wrap_receipt.py` 111-144).
- A ledger becomes unreadable as a whole, for every endpoint that reads it, after a torn line,
  after a failed flush that closing the file repeats without the lock, after two overlapping
  appends to the submission ledger, and after a record with U+0085, U+2028 or U+2029 in a
  string: `json.dumps(..., ensure_ascii=False)` leaves those in the text and `splitlines`
  breaks at them (`attest_service.py` 283-293).
- Requests of one client that overlap in the demo limiter lose each other's hits, so the
  limit can be exceeded (78); and its clock is `time.time()` (76), so a step back lets a client
  through up to the limit once more. It never rejects a client that was within it.
- The fetch of `/pay/url-summary` can take much longer than `FETCH_TIMEOUT_SECONDS`, which is
  the timeout of one read (`pay_url_summary.py` 206), and keeps a thread of the pool meanwhile.
- An append that fails after the session was recorded complete leaves it complete without a
  chain, like a crash there: the client gets 500, and 409 when it tries again
  (`attest_service.py` 1136-1183).
- A settlement that times out, or whose receipt the SAR-402 layer then refuses, leaves a
  charged client with an error and the service without any record of the payment
  (`x402_live.py` 323, `pay_url_summary.py` 460).
- With the filters `all` and `action_ref` a graph may show a receipt without its evaluation,
  when both were stored between the readings. An evaluation is never shown without its
  commitment, only because the first pass had found something of its action.

## 5. What is proved

`AuthenticatedSubmission_proofs`, for every set of workers, envelopes and documents, every
UTC offset and every value of the time constants: TypeCorrect, NoDoubleAcceptance, NonceReuse,
NoDuplicateRecord, RowsKept, AuthorizedClaims. NoDoubleAcceptance, NonceReuse and
NoDuplicateRecord are about the envelopes of which `RowOutlastsWindow` holds: `Skew + Lag`, plus
what the timestamp is written behind UTC, is within `Retention`. `Lag` is how far the clock may
fall back together with how long a request may stay between its first clock reading and its
claim; with the code's multiple of four, an envelope on UTC or ahead of it is among them
whenever `Lag` is at most three times the skew. Of one further behind UTC nothing of the kind
holds, and nothing is claimed; RowsKept is what the ledger does keep for every offset.

AcceptedAtMostOnce is not inductive: it forgets the row that keeps a second claim out. The
strengthening `IInv` adds that a claimed envelope's row is there or the highest clock
reading has passed its expiry (`RowOrExpired`), that a request in flight was verified at a
reading at most `Lag` behind that maximum (`FreshVerdicts`), that a request between claim
and append is alone with its envelope (`PendingRecords`), and that what was verified was
verified against this process's pin (`PinnedVerdicts`). The heart is `ClaimGap`: a request
that is about to claim is inside its window at a reading so recent that no earlier row of
its own envelope can have expired.

`PathC_proofs`, for every finite pool and every set of commitments, outputs and instants,
under `ChainAssumption`, in three layers. `IInv` gives TypeCorrect, NoSpecSubstitution
(SpecBinding) and NoUnbackedReceipt (ReceiptBacked): it carries both facts over the requests
in flight, since an evaluation is bound, and a receipt backed, from the moment a worker
builds it, and ledgers only grow. `RegisterInv` adds that a worker about to append found its
key free, and that it is still free unless the key is contended; from it follow
ImplementsWriteOnce, the refinement of `WriteOnce` by each store, and
ReceiptAgreesWithEvaluation. `BudgetInv` counts: records of a key plus workers about to
append one never exceed the pool (RacesAreBounded). The lemmas about the last matching record
of a log (`LastPosition`, `LatestFinds`, `LatestIsStored`) use smallest and largest elements
of bounded sets of naturals.

A fourth part of `PathC_proofs` is about the evaluator. Its loop is a recursive function of
the number of checks aggregated (`FlagsAfter`). `FlagsAreLoop` shows that the function the
definition chooses does satisfy the recursion, by exhibiting one that does (`Summary`: is
there a hard failure, is there an open check, among the first n), and `LoopSummarises` that
it is that one: the least n at which they differed would not be 0 and would have a
predecessor at which they agree. From it `VerdictMeaning` and `PassMeaning` state the verdict
of the checks and not of the loop, for arrays of any length. The theorems are
AggregatesAsDocumented, ReleasesNeedMandate and DroppingNeverPasses, about the state machine
`EvaluatorInputs` for any outputs, fields, checks and policies, under `InputAssumption` (the
checks passed validation, and `None` is no verdict), and ReceiptsAreEarned, which composes
the loop with SpecBinding and ReceiptBacked: a signed PASS is over an output that satisfies
every check of every commitment record under its `action_ref`. DroppingNeverPasses excepts
specs that compare an object with a committed value (`ComparesObject`), where an object without
a field is a different value: field_equals of `{}` can turn from FAIL to PASS. For all others,
`ResolvesDiminished` says what a path resolves to after a field was left out, at any depth: the
same, or nothing, or an object in place of an object. The walk and the removal are recursive
functions of the number of keys; that they exist, and what they compute, is by least
counterexample too (`WalkExists`, `CutExists`, `WithoutTurns`).

`EvidenceGraph_proofs` builds on these for the composition: what the extractor has read is
still stored, an `action_ref` selected through an evaluation or a receipt had a commitment
before the second pass began, and a stored value is served for ever unless its key is
contended. NoUnlinkedEvaluation and NothingPrintedIsWithdrawn follow, for all filters and any
traffic.

`AttestSession_proofs`: SessionsBoundTrust (NeverMoreTrustedThanBegun),
ReceiptsFollowTheirChain, RecordsOnlyLoseTrust and AtMostOneChain. `IInv` follows one
continuity id: it belongs to one session (`SessionsAgree`), the request that begins that
session has it to itself (`BeginsAlone`), a request appends a chain before the receipts that
name it (`WritesInOrder`), and whatever claims the id of a session begun without trust is
untrusted (`UntrustedStays`). The last two theorems need `Alone` besides: of a session that
was never overlapped, at most one request has a claim to its id, and it has one only as long
as no chain of the session is on the ledger.

`AgentRegistry_proofs`: NoUnbackedVerification, EvidenceFirst, OwnersAreKept, RatesAreRates.
The invariants are about lists of appends not yet made: each record in such a list is backed
by what is stored or by an earlier append of the same list (`EvidenceInv`), so any prefix a
crash leaves is sound; and of an agent that was never overlapped at most one request is in
progress, whose copy has the stored owner (`OwnerInv`).

`RecordingWrappers_proofs`: NoWrapperWithoutReceipt, RotationLosesNothing,
CorrelationIsSound and ImplementsWriteOnce. The two about keys assume what the deployment
documents say, that operators expect no key but the published one
(`ExpectedKeys \subseteq {RecordingKey}`).

`PublicEndpoints_proofs`: LiveReceiptsHonest, OneReceiptEach and NobodyChargedForNothing. One
request is followed from its acceptance: which evidence it may assemble and that its
transaction is its own payment (`SoundRun`); a transaction is held by one thread or one
receipt (`HeldOnce`, `ReceiptsSettled`), and a settled payment is at one of the places
ChargedIsServed names (`Accounted`).

For the limiter, LimitedIsAlwaysJustified and LimitHoldsForAll (`RateInv`). Whatever the threads
overwrite, a stored set of hits holds only hits that were let through (`SoundHits`), and one
about to be put back at most one more, its own (`PutsBack`): a refusal therefore counts `RateMax`
real ones. Since the clock was last stepped back, a client that was never in the limiter twice at
once has lost none of the recent ones (`AloneClient`), so a hit is let through only when fewer
than `RateMax` of those admitted since are in its window; windows that end earlier are not
changed by it, and later ones see fewer. TypeCorrect carries, besides the type, how many requests
have been accepted, which bounds the numbers of the hits.

`JsonlLedger_proofs`, for any finite set of writers: ReadableUnlessSpoiled and
AcknowledgedStay. The text is a sequence of triples (first half, second half, break) as long
as nothing has spoiled it (`Lined`); whoever is midway is alone and the text ends after the
pieces it has written (`Clean`), with the lock because only its holder writes, without it
because an overlap spoils; and appends that returned, together with those past their second
half, are no more than the second halves in the text (`Counted`). `ExtendLine` is the heart:
a further part of a line leaves a text of triples.

LedgerIsAppendOnly is the refinement of `AppendOnlyLog`, with no assumption that the text is
unspoiled. A read lists the records whose second half is in the text, in order of place
(`Nth`). That the k-th such place exists for every k, and is one only, needs an induction: it
is again the least counterexample (`LeastElement`, from the well-foundedness of `<`). A text
that grows at its end keeps those places (`StillRead` relates the last read to the file), and
no step of the code shortens the text.

Every TypeCorrect is the type invariant its module states.

## 6. Model-checked only, and left out

Only model-checked: liveness (CompleteSessionsAreChained, LockIsReleased),
which is beyond the prover. Every other property of a passing run is stated by a theorem of
section 5 for all values of the constants. Where a theorem is about something a loop or a
reader computes, the induction is a least counterexample in the naturals and not one of the
library's induction theorems, which take an operator as a parameter.

Left out, with the reason:

- JSON parsing, schema validation and authentication that reject a request without changing
  anything. That is most of Path A (`sar402_receipts.py`), whose guard is a list of
  conditions on one payload, and the parsing errors of the producer registry.
- The chain part of the correlation view, listings and the agent summary: they copy fields of
  one ledger record into an answer.
- Display names, metadata, analytics and other fields that are copied and never decided on.
- Signatures, which are abstract: a signature is the key that made it.
- Shell scripts and systemd units (credential isolation, key unlock), which are deployment,
  and the generators of published demo documents.
- The in-memory nonce store in `authenticated_submission.py`, used by tests only.
