---------------------------- MODULE AgentRegistry ----------------------------
(***************************************************************************)
(* Agents of attest_service.py: registration, historical import,           *)
(* activation and continuity pairs over the append-only agent, activation  *)
(* and chain ledgers.  A handler reads the agent once, calls the two       *)
(* external services, and then appends its records one by one, each built  *)
(* from the agent as it was read.                                          *)
(*                                                                         *)
(* Left out: counterparty, display name and metadata (copied), the         *)
(* analytics and receipt ledgers (nothing is decided on them), and the     *)
(* continuity receipt id of an agent record.                               *)
(***************************************************************************)
EXTENDS Integers, Sequences, FiniteSets

CONSTANTS
    None,
    Workers,
    Agents,
    Owners,
    ActivationIds,      \* activation ids uuid4 may draw
    UnknownActivation,  \* an activation id a client names that none has
    ContinuityIds,      \* receipt ids continuity-analyzer may issue
    SarIds,             \* receipt ids settlement-witness may issue
    MaxRegistered,      \* bound on an agent's records when it is registered (again)
    MaxCrashes          \* bound on restarts of the process

ASSUME BoundAssumption == MaxCrashes \in Nat

Anonymous == "anonymous_untrusted"
Internal == "trusted_internal"
CallerClasses == {Anonymous, Internal}
TrustedClasses == {Internal}

Stages == {"registered", "activation_failed", "activated", "verified", "chained", "continuous"}

StageOrder ==
    [stage \in Stages |-> CASE stage \in {"registered", "activation_failed"} -> 0
                            [] stage = "activated"  -> 1
                            [] stage = "verified"   -> 2
                            [] stage = "chained"    -> 3
                            [] stage = "continuous" -> 4]

StageAtLeast(stage, minimum) == StageOrder[stage] >= StageOrder[minimum]

VARIABLES
    agents,         \* per agent, the records appended for it, in order
    activations,    \* per activation id, the records appended for it
    chains,         \* records of the chain ledger
    worker,         \* per worker, the request it serves
    issued,         \* ids drawn or issued so far
    overlapped,     \* history: agents two requests were serving at once
    crashes

vars == <<agents, activations, chains, worker, issued, overlapped, crashes>>

Idle == [phase |-> "idle"]

Latest(log) == IF log = <<>> THEN None ELSE log[Len(log)]

ActivationKeys == ActivationIds \cup {UnknownActivation}

(* The origin anchor of a historical import: a chain of another ledger.    *)
AnchorChain == <<"anchor", "anchor">>

-----------------------------------------------------------------------------
(* registry_record: the pointers not given are taken over from the record  *)
(* the handler read, None when the agent is new.                           *)
New == [type |-> "native", activation |-> None, chain |-> None, sar |-> None]

Pointer(given, kept) == IF given # None THEN given ELSE kept

RegistryRecord(read, owner, stage, activation, chain, sar) ==
    LET existing == IF read = None THEN New ELSE read IN
    [type |-> existing.type, owner |-> owner, stage |-> stage,
     activation |-> Pointer(activation, existing.activation),
     chain |-> Pointer(chain, existing.chain),
     sar |-> Pointer(sar, existing.sar)]

AgentWrite(agent, record) == [to |-> "agents", key |-> agent, record |-> record]
ActivationWrite(id, record) == [to |-> "activations", key |-> id, record |-> record]
ChainWrite(agent, chain, prov) ==
    [to |-> "chains", record |-> [agent |-> agent, chain |-> chain, prov |-> prov]]

Activation(agent, stage, status, sar, prov) ==
    [agent |-> agent, stage |-> stage, status |-> status, sar |-> sar, prov |-> prov]

(* Mutant: the failure is recorded with a stage alone.                     *)
FailedWritesNoStatus(r, sar) ==
    <<ActivationWrite(r.id, Activation(r.agent, "activation_failed", None, sar, r.prov)),
      AgentWrite(r.agent, RegistryRecord(r.read, r.read.owner, "activation_failed", r.id, None, sar))>>

FailedWrites(r, sar) ==
    <<ActivationWrite(r.id, Activation(r.agent, "activation_failed", "failed", sar, r.prov)),
      AgentWrite(r.agent, RegistryRecord(r.read, r.read.owner, "activation_failed", r.id, None, sar))>>

(* Mutant: the agent is written before its evidence.                       *)
ActivatedWritesAgentFirst(r, chain, sar) ==
    <<AgentWrite(r.agent, RegistryRecord(r.read, r.read.owner, "chained", r.id, chain, sar)),
      ChainWrite(r.agent, chain, r.prov),
      ActivationWrite(r.id, Activation(r.agent, "chained", "complete", sar, r.prov))>>

ActivatedWrites(r, chain, sar) ==
    <<ChainWrite(r.agent, chain, r.prov),
      ActivationWrite(r.id, Activation(r.agent, "chained", "complete", sar, r.prov)),
      AgentWrite(r.agent, RegistryRecord(r.read, r.read.owner, "chained", r.id, chain, sar))>>

(* The origin's agent has neither owner nor counterparty, its activation   *)
(* record no provenance.                                                   *)
ImportWrites(agent, id) ==
    <<AgentWrite(agent, [type |-> "historical_import", owner |-> None, stage |-> "chained",
                         activation |-> id, chain |-> AnchorChain, sar |-> None]),
      ActivationWrite(id, Activation(agent, "chained", "chained", None, None))>>

(* The continuity pair rewrites the activation it refers to, under its own *)
(* caller's class.  An agent without an owner ends the request with an     *)
(* error once the chain is written.                                        *)
PairWrites(r, id, existing, chain, sar) ==
    LET status == IF existing = None THEN None ELSE existing.status
        chained == ChainWrite(r.agent, chain, r.prov)
        agent == AgentWrite(r.agent, RegistryRecord(r.read, r.read.owner, "continuous", id, chain, sar))
    IN  CASE r.read.owner = None -> <<chained>>
          [] r.read.owner # None /\ id = None -> <<chained, agent>>
          [] OTHER -> <<chained, agent, ActivationWrite(id, Activation(r.agent, "continuous", status, sar, r.prov))>>

-----------------------------------------------------------------------------
Init ==
    /\ agents = [a \in Agents |-> <<>>]
    /\ activations = [id \in ActivationKeys |-> <<>>]
    /\ chains = {}
    /\ worker = [w \in Workers |-> Idle]
    /\ issued = {}
    /\ overlapped = {}
    /\ crashes = 0

(* A request that reads an agent another one is serving overlaps with it.  *)
Serving(agent) == {w \in Workers : worker[w] # Idle /\ worker[w].agent = agent}

Become(w, state) ==
    /\ worker' = [worker EXCEPT ![w] = state]
    /\ overlapped' = overlapped \cup {agent \in Agents :
            worker[w] = Idle /\ state.agent = agent /\ Serving(agent) # {}}
    /\ UNCHANGED <<agents, activations, chains, crashes>>

Writing(agent, todo) ==
    IF todo = <<>> THEN Idle ELSE [phase |-> "writing", agent |-> agent, todo |-> todo]

(* Mutant: registering again under another owner is not refused.           *)
RegisterAnyOwner(w, agent, owner) ==
    LET existing == Latest(agents[agent])
        stage == IF existing = None THEN "registered" ELSE existing.stage
    IN  /\ worker[w].phase = "idle"
        /\ Len(agents[agent]) < MaxRegistered
        /\ Become(w, Writing(agent, <<AgentWrite(agent, RegistryRecord(existing, owner, stage, None, None, None))>>))
        /\ UNCHANGED issued

(* POST /v1/agents/register: 409 for another owner; the stage is kept.     *)
RegisterAgent(w, agent, owner) ==
    LET existing == Latest(agents[agent])
        stage == IF existing = None THEN "registered" ELSE existing.stage
    IN  /\ worker[w].phase = "idle"
        /\ Len(agents[agent]) < MaxRegistered
        /\ existing # None => existing.owner = owner
        /\ Become(w, Writing(agent, <<AgentWrite(agent, RegistryRecord(existing, owner, stage, None, None, None))>>))
        /\ UNCHANGED issued

(* POST /v1/agents/historical-import: 409 for a known agent.               *)
HistoricalImport(w, agent, id) ==
    /\ worker[w].phase = "idle"
    /\ Latest(agents[agent]) = None
    /\ id \notin issued
    /\ Become(w, Writing(agent, ImportWrites(agent, id)))
    /\ issued' = issued \cup {id}

(* POST /v1/agents/{agent_id}/activate: an agent without an owner ends in  *)
(* a server error before anything is written.                              *)
ActivateAgent(w, agent, id, prov) ==
    /\ worker[w].phase = "idle"
    /\ Latest(agents[agent]) # None
    /\ Latest(agents[agent]).owner # None
    /\ id \notin issued
    /\ Become(w, [phase |-> "activating", agent |-> agent, read |-> Latest(agents[agent]),
                  id |-> id, prov |-> prov])
    /\ issued' = issued \cup {id}

(* One of the two calls fails, or a receipt_id is missing.                 *)
ActivationCallFails(w) ==
    /\ worker[w].phase = "activating"
    /\ Become(w, Writing(worker[w].agent, FailedWrites(worker[w], None)))
    /\ UNCHANGED issued

(* Both services answered, and the SAR verdict passed or did not.          *)
ActivationAnswered(w, cont, sar, pass) ==
    /\ worker[w].phase = "activating"
    /\ {cont, sar} \cap issued = {}
    /\ Become(w, Writing(worker[w].agent,
                         IF pass THEN ActivatedWrites(worker[w], <<cont, sar>>, sar)
                         ELSE FailedWrites(worker[w], sar)))
    /\ issued' = issued \cup {cont, sar}

(* Mutant: an agent of any stage may record a pair.                        *)
RecordPairAnyStage(w, agent, previous, prov) ==
    /\ worker[w].phase = "idle"
    /\ Latest(agents[agent]) # None
    /\ Become(w, [phase |-> "pairing", agent |-> agent, read |-> Latest(agents[agent]),
                  previous |-> previous, prov |-> prov])
    /\ UNCHANGED issued

(* POST /v1/agents/{agent_id}/continuity: 409 below stage verified.        *)
RecordContinuityPair(w, agent, previous, prov) ==
    /\ worker[w].phase = "idle"
    /\ Latest(agents[agent]) # None
    /\ StageAtLeast(Latest(agents[agent]).stage, "verified")
    /\ Become(w, [phase |-> "pairing", agent |-> agent, read |-> Latest(agents[agent]),
                  previous |-> previous, prov |-> prov])
    /\ UNCHANGED issued

(* The activation is read after the call; 409 without any SAR receipt.     *)
PairAnswered(w, cont) ==
    LET r == worker[w]
        id == Pointer(r.previous, r.read.activation)
        existing == IF id = None THEN None ELSE Latest(activations[id])
        sar == Pointer(IF existing = None THEN None ELSE existing.sar, r.read.sar)
    IN  /\ r.phase = "pairing"
        /\ cont \notin issued
        /\ Become(w, IF sar = None THEN Idle
                     ELSE Writing(r.agent, PairWrites(r, id, existing, <<cont, sar>>, sar)))
        /\ issued' = issued \cup {cont}

PairCallFails(w) ==
    /\ worker[w].phase = "pairing"
    /\ Become(w, Idle)
    /\ UNCHANGED issued

(* append_jsonl, once per record, in the handler's order.                  *)
Write(w) ==
    /\ worker[w].phase = "writing"
    /\ LET write == Head(worker[w].todo) IN
        /\ worker' = [worker EXCEPT ![w] = Writing(@.agent, Tail(@.todo))]
        /\ agents' = IF write.to = "agents"
                     THEN [agents EXCEPT ![write.key] = Append(@, write.record)] ELSE agents
        /\ activations' = IF write.to = "activations"
                          THEN [activations EXCEPT ![write.key] = Append(@, write.record)] ELSE activations
        /\ chains' = IF write.to = "chains" THEN chains \cup {write.record} ELSE chains
    /\ UNCHANGED <<issued, overlapped, crashes>>

(* append_jsonl raises: 500, and the appends still to come are never made. *)
WriteFails(w) ==
    /\ worker[w].phase = "writing"
    /\ Become(w, Idle)
    /\ UNCHANGED issued

(* The process dies and systemd restarts it: requests are lost.            *)
Crash ==
    /\ crashes < MaxCrashes
    /\ crashes' = crashes + 1
    /\ worker' = [w \in Workers |-> Idle]
    /\ UNCHANGED <<agents, activations, chains, issued, overlapped>>

Step(w) ==
    \/ \E agent \in Agents, owner \in Owners : RegisterAgent(w, agent, owner)
    \/ \E agent \in Agents, id \in ActivationIds : HistoricalImport(w, agent, id)
    \/ \E agent \in Agents, id \in ActivationIds, prov \in CallerClasses : ActivateAgent(w, agent, id, prov)
    \/ ActivationCallFails(w)
    \/ \E cont \in ContinuityIds, sar \in SarIds, pass \in BOOLEAN : ActivationAnswered(w, cont, sar, pass)
    \/ \E agent \in Agents, previous \in ActivationKeys \cup {None}, prov \in CallerClasses :
            RecordContinuityPair(w, agent, previous, prov)
    \/ \E cont \in ContinuityIds : PairAnswered(w, cont)
    \/ PairCallFails(w)
    \/ Write(w)
    \/ WriteFails(w)

Next ==
    \/ \E w \in Workers : Step(w)
    \/ Crash

Spec == Init /\ [][Next]_vars

-----------------------------------------------------------------------------
(* Read surfaces: the latest record per activation, counted over those     *)
(* whose class is in scope.                                                *)
InScope(record, all) == all \/ record.prov \in TrustedClasses

ScopedLatest(id, all) ==
    LET scoped == {i \in DOMAIN activations[id] : InScope(activations[id][i], all)}
    IN  IF scoped = {} THEN None ELSE activations[id][CHOOSE i \in scoped : \A j \in scoped : j =< i]

Attempts(all) == {id \in ActivationKeys : ScopedLatest(id, all) # None}

Successes(all) ==
    {id \in Attempts(all) : /\ StageAtLeast(ScopedLatest(id, all).stage, "verified")
                            /\ ScopedLatest(id, all).status # "failed"}

Failures(all) == {id \in Attempts(all) : ScopedLatest(id, all).status \in {"failed", "activation_failed"}}

-----------------------------------------------------------------------------
ChainIds == ((ContinuityIds \X SarIds) \cup {AnchorChain})

AgentRecords ==
    [type : {"native", "historical_import"}, owner : Owners \cup {None}, stage : Stages,
     activation : ActivationKeys \cup {None}, chain : ChainIds \cup {None}, sar : SarIds \cup {None}]

ActivationRecords ==
    [agent : Agents, stage : Stages, status : {"failed", "complete", "chained", None},
     sar : SarIds \cup {None}, prov : CallerClasses \cup {None}]

ChainRecords == [agent : Agents, chain : ChainIds, prov : CallerClasses]

ASSUME RecordAssumption ==
    None \notin Stages \cup ActivationKeys \cup ChainIds \cup AgentRecords \cup ActivationRecords

(* Ledgers hold records of their kind.                                     *)
TypeOK ==
    /\ agents \in [Agents -> Seq(AgentRecords)]
    /\ activations \in [ActivationKeys -> Seq(ActivationRecords)]
    /\ chains \subseteq ChainRecords
    /\ overlapped \subseteq Agents
    /\ crashes \in 0 .. MaxCrashes

(* A native agent at verified or above, whatever raced or crashed, has an  *)
(* activation record of its own that completed on a passed SAR             *)
(* (README.md, verified_agents_total).                                     *)
VerifiedIsBacked ==
    \A agent \in Agents : \A i \in DOMAIN agents[agent] :
        agents[agent][i].type = "native" /\ StageAtLeast(agents[agent][i].stage, "verified") =>
            \E id \in ActivationIds : \E j \in DOMAIN activations[id] :
                activations[id][j].agent = agent /\ activations[id][j].status = "complete"

(* The agent record never runs ahead of the activation it points to: the   *)
(* outcome of an activation is on the activation ledger, with its chain,   *)
(* before the agent shows it (activate_agent, record_failed_activation).   *)
OutcomeRecordedFirst ==
    \A agent \in Agents : \A i \in DOMAIN agents[agent] :
        LET record == agents[agent][i] IN
        record.type = "native" =>
            /\ record.stage = "chained" =>
                /\ activations[record.activation] # <<>>
                /\ \E c \in chains : c.chain = record.chain
            /\ record.stage = "activation_failed" => activations[record.activation] # <<>>

(* Success and failure partition the attempts, in both scopes of           *)
(* /v1/explorer/metrics: the success rate is a rate.                       *)
MetricsPartition ==
    \A all \in BOOLEAN :
        /\ Successes(all) \cap Failures(all) = {}
        /\ Attempts(all) = Successes(all) \cup Failures(all)

(* An agent has the owner it was registered with: registering it under     *)
(* another one answers 409 (register_agent), unless two requests served it *)
(* at once.                                                                *)
OwnerIsStable ==
    \A agent \in Agents \ overlapped : \A i, j \in DOMAIN agents[agent] :
        agents[agent][i].owner = agents[agent][j].owner

(* Activation stages are monotonic (README.md, Agent Activation Flow V1).  *)
StagesAreMonotonic ==
    \A agent \in Agents : \A i, j \in DOMAIN agents[agent] :
        i < j => StageAtLeast(agents[agent][j].stage, agents[agent][i].stage)
=============================================================================
