------------------------ MODULE AgentRegistry_proofs ------------------------
(***************************************************************************)
(* The registry's promises hold for any number of workers and agents and   *)
(* any interleaving of their appends.  Two strengthenings.  Evidence: an   *)
(* agent record still to be written is backed by what is stored or by a    *)
(* write the same request does before it; ledgers only grow, so what a     *)
(* request has read stays backed.  Owners: an agent that no two requests   *)
(* served at once is served by at most one, and what that one is to write  *)
(* has the owner of the records there.                                     *)
(***************************************************************************)
EXTENDS AgentRegistry, SequenceTheorems, WellFoundedInduction, TLAPS

Writes ==
    [to : {"agents"}, key : Agents, record : AgentRecords]
    \cup [to : {"activations"}, key : ActivationKeys, record : ActivationRecords]
    \cup [to : {"chains"}, record : ChainRecords]

RequestOK(x) ==
    /\ x.phase \in {"idle", "activating", "pairing", "writing"}
    /\ x.phase = "idle" => x = Idle
    /\ x.phase # "idle" => x.agent \in Agents
    /\ x.phase \in {"activating", "pairing"} => x.read \in AgentRecords /\ x.prov \in CallerClasses
    /\ x.phase = "activating" => x.id \in ActivationIds
    /\ x.phase = "pairing" =>
            x.previous \in ActivationKeys \cup {None} /\ StageAtLeast(x.read.stage, "verified")
    /\ x.phase = "writing" => x.todo \in Seq(Writes) /\ x.todo # <<>>

(* What the ledgers show.                                                  *)
Completed(agent) ==
    \E id \in ActivationIds : \E j \in DOMAIN activations[id] :
        activations[id][j].agent = agent /\ activations[id][j].status = "complete"

Shown(id) == id \in ActivationKeys /\ activations[id] # <<>>

Chained(chain) == \E c \in chains : c.chain = chain

(* What a request is to write before its k-th write.                       *)
WillComplete(todo, k, agent) ==
    \E j \in 1 .. k - 1 :
        /\ todo[j].to = "activations" /\ todo[j].key \in ActivationIds
        /\ todo[j].record.agent = agent /\ todo[j].record.status = "complete"

WillShow(todo, k, id) == \E j \in 1 .. k - 1 : todo[j].to = "activations" /\ todo[j].key = id

WillChain(todo, k, chain) == \E j \in 1 .. k - 1 : todo[j].to = "chains" /\ todo[j].record.chain = chain

(* A record of an agent, on the ledger or read from it, has its evidence.  *)
Sound(agent, record) ==
    record.type = "native" =>
        /\ StageAtLeast(record.stage, "verified") => Completed(agent)
        /\ record.stage = "chained" => Shown(record.activation) /\ Chained(record.chain)
        /\ record.stage = "activation_failed" => Shown(record.activation)

(* A record to be written k-th will have it.                               *)
SoundThen(agent, record, todo, k) ==
    record.type = "native" =>
        /\ StageAtLeast(record.stage, "verified") => Completed(agent) \/ WillComplete(todo, k, agent)
        /\ record.stage = "chained" =>
            /\ Shown(record.activation) \/ WillShow(todo, k, record.activation)
            /\ Chained(record.chain) \/ WillChain(todo, k, record.chain)
        /\ record.stage = "activation_failed" => Shown(record.activation) \/ WillShow(todo, k, record.activation)

(* An activation record counts as a success or as a failure.               *)
Classified(record) == StageAtLeast(record.stage, "verified") \/ record.status = "failed"

Carries(x) ==
    /\ x.phase \in {"activating", "pairing"} => Sound(x.agent, x.read)
    /\ x.phase = "writing" => \A k \in 1 .. Len(x.todo) :
            /\ x.todo[k].to = "agents" => /\ x.todo[k].key = x.agent
                                          /\ SoundThen(x.agent, x.todo[k].record, x.todo, k)
            /\ x.todo[k].to = "activations" => Classified(x.todo[k].record)

EvidenceInv ==
    /\ TypeOK
    /\ DOMAIN worker = Workers
    /\ \A w \in Workers : RequestOK(worker[w]) /\ Carries(worker[w])
    /\ \A agent \in Agents : \A i \in 1 .. Len(agents[agent]) : Sound(agent, agents[agent][i])
    /\ \A id \in ActivationKeys : \A i \in 1 .. Len(activations[id]) : Classified(activations[id][i])

(* What x read, or is to write, has the owner of the agent's records.      *)
KeepsOwner(agent, x) ==
    /\ x.phase \in {"activating", "pairing"} =>
            \A i \in 1 .. Len(agents[agent]) : agents[agent][i].owner = x.read.owner
    /\ x.phase = "writing" => \A k \in 1 .. Len(x.todo) : x.todo[k].to = "agents" =>
            /\ \A i \in 1 .. Len(agents[agent]) : agents[agent][i].owner = x.todo[k].record.owner
            /\ \A l \in 1 .. Len(x.todo) : x.todo[l].to = "agents" => x.todo[l].record.owner = x.todo[k].record.owner

OwnerInv ==
    \A agent \in Agents \ overlapped :
        /\ \A i, j \in 1 .. Len(agents[agent]) : agents[agent][i].owner = agents[agent][j].owner
        /\ \A v, u \in Serving(agent) : v = u
        /\ \A v \in Serving(agent) : KeepsOwner(agent, worker[v])

IInv == EvidenceInv /\ OwnerInv

-----------------------------------------------------------------------------
LEMMA Verified ==
    \A stage \in Stages : StageAtLeast(stage, "verified") <=> stage \in {"verified", "chained", "continuous"}
BY DEF Stages, StageAtLeast, StageOrder

(* A nonempty set of positions of a log has a last one.                    *)
LEMMA LastPosition ==
    ASSUME NEW n \in Nat, NEW S \in SUBSET (1 .. n), S # {}
    PROVE  \E i \in S : \A j \in S : j =< i
<1> DEFINE D == {n - i : i \in S}
<1>1. D \subseteq Nat /\ D # {}
  <2>1. \A i \in S : n - i \in Nat
    OBVIOUS
  <2>2. D \subseteq Nat
    BY <2>1
  <2>3. D # {}
    OBVIOUS
  <2> QED
    BY <2>2, <2>3
<1>2. PICK x \in D : \A y \in D : ~(<<y, x>> \in OpToRel(<, Nat))
  BY <1>1, NatLessThanWellFounded, WFMin
<1>3. \A y \in D : ~(y < x)
  BY <1>1, <1>2 DEF OpToRel
<1>4. PICK i \in S : x = n - i
  BY <1>2
<1>5. \A j \in S : j =< i
  BY <1>3, <1>4
<1> QED
  BY <1>5

(* The last record of a log.                                               *)
LEMMA LatestOf ==
    ASSUME NEW R, None \notin R, NEW log \in Seq(R)
    PROVE  /\ Latest(log) = None => log = <<>> /\ Len(log) = 0
           /\ Latest(log) # None => Len(log) \in 1 .. Len(log) /\ Latest(log) = log[Len(log)] /\ Latest(log) \in R
<1>1. Len(log) \in Nat /\ (log = <<>> <=> Len(log) = 0)
  BY LenProperties, EmptySeq
<1>2. log # <<>> => Len(log) \in 1 .. Len(log)
  BY <1>1
<1>3. log # <<>> => log[Len(log)] \in R
  BY <1>2, ElementOfSeq
<1> QED
  BY <1>1, <1>2, <1>3 DEF Latest

Optional(S) == S \cup {None}

(* registry_record.                                                        *)
LEMMA RegistryFields ==
    ASSUME NEW read \in Optional(AgentRecords), NEW owner \in Optional(Owners), NEW stage \in Stages,
           NEW activation \in Optional(ActivationKeys), NEW chain \in Optional(ChainIds),
           NEW sar \in Optional(SarIds),
           NEW record, record = RegistryRecord(read, owner, stage, activation, chain, sar)
    PROVE  /\ record \in AgentRecords
           /\ record.owner = owner /\ record.stage = stage
           /\ read # None => record.type = read.type
           /\ activation # None => record.activation = activation
           /\ chain # None => record.chain = chain
           /\ read # None /\ activation = None => record.activation = read.activation
           /\ read # None /\ chain = None => record.chain = read.chain
<1> DEFINE existing == IF read = None THEN New ELSE read
<1>1. existing \in [type : {"native", "historical_import"}, owner : Owners \cup {None}, stage : Stages,
                    activation : ActivationKeys \cup {None}, chain : ChainIds \cup {None}, sar : SarIds \cup {None}]
      \/ existing = New
  BY DEF AgentRecords, Optional
<1>2. /\ existing.type \in {"native", "historical_import"}
      /\ existing.activation \in ActivationKeys \cup {None}
      /\ existing.chain \in ChainIds \cup {None}
      /\ existing.sar \in SarIds \cup {None}
  BY <1>1 DEF New
<1>3. record = [type |-> existing.type, owner |-> owner, stage |-> stage,
                activation |-> Pointer(activation, existing.activation),
                chain |-> Pointer(chain, existing.chain),
                sar |-> Pointer(sar, existing.sar)]
  BY DEF RegistryRecord
<1> HIDE DEF existing
<1>4. record \in AgentRecords
  BY <1>2, <1>3 DEF AgentRecords, Pointer, Optional
<1>5. /\ record.owner = owner /\ record.stage = stage /\ record.type = existing.type
      /\ activation # None => record.activation = activation
      /\ chain # None => record.chain = chain
      /\ activation = None => record.activation = existing.activation
      /\ chain = None => record.chain = existing.chain
  BY <1>3 DEF Pointer
<1> QED
  BY <1>4, <1>5 DEF existing

-----------------------------------------------------------------------------
(* A step that leaves the ledgers alone and one worker in a sound state.   *)
Continues(w, x) ==
    /\ RequestOK(x) /\ Carries(x)
    /\ worker[w] = Idle \/ x = Idle \/ x.agent = worker[w].agent
    /\ x # Idle /\ x.agent \notin overlapped => KeepsOwner(x.agent, x)

LEMMA BecomeStep ==
    ASSUME IInv, NEW w \in Workers, NEW x, Continues(w, x), Become(w, x)
    PROVE  IInv'
<1>1. /\ DOMAIN worker' = Workers
      /\ worker'[w] = x
      /\ \A v \in Workers \ {w} : worker'[v] = worker[v]
  BY DEF Become, IInv, EvidenceInv
<1>2. agents' = agents /\ activations' = activations /\ chains' = chains /\ crashes' = crashes
  BY DEF Become
<1>3. overlapped \subseteq overlapped' /\ overlapped' \subseteq Agents
  BY DEF Become, IInv, EvidenceInv, TypeOK
<1>4. TypeOK'
  BY <1>2, <1>3 DEF IInv, EvidenceInv, TypeOK
<1>5. /\ \A agent, record : Sound(agent, record) => Sound(agent, record)'
      /\ \A agent, record, todo, k : SoundThen(agent, record, todo, k) => SoundThen(agent, record, todo, k)'
  BY <1>2 DEF Sound, SoundThen, Completed, Shown, Chained
<1>6. \A v \in Workers : RequestOK(worker'[v]) /\ Carries(worker[v])'
  <2>1. \A y : Carries(y) => Carries(y)'
    BY <1>5 DEF Carries
  <2>2. \A v \in Workers : RequestOK(worker'[v]) /\ Carries(worker'[v])
    BY <1>1 DEF IInv, EvidenceInv, Continues
  <2>3. ASSUME NEW v \in Workers PROVE Carries(worker[v])'
    <3>1. PICK y : y = worker'[v]
      OBVIOUS
    <3>2. Carries(y)'
      BY <2>1, <2>2, <3>1
    <3> QED
      BY <3>1, <3>2 DEF Carries
  <2> QED
    BY <2>2, <2>3
<1>7. EvidenceInv'
  BY <1>1, <1>2, <1>4, <1>5, <1>6 DEF IInv, EvidenceInv, RequestOK
<1>8. OwnerInv'
  <2> SUFFICES ASSUME NEW agent \in Agents, agent \notin overlapped'
               PROVE  /\ \A i, j \in 1 .. Len(agents[agent]) : agents[agent][i].owner = agents[agent][j].owner
                      /\ \A v, u \in Serving(agent)' : v = u
                      /\ \A v \in Serving(agent)' : KeepsOwner(agent, worker[v])'
    BY <1>2 DEF OwnerInv
  <2>1. agent \notin overlapped
    BY <1>3
  <2>2. /\ \A i, j \in 1 .. Len(agents[agent]) : agents[agent][i].owner = agents[agent][j].owner
        /\ \A v, u \in Serving(agent) : v = u
        /\ \A v \in Serving(agent) : KeepsOwner(agent, worker[v])
    BY <2>1 DEF IInv, OwnerInv
  <2>3. \A v \in Workers : v \in Serving(agent)' <=> worker'[v] # Idle /\ worker'[v].agent = agent
    BY DEF Serving
  <2>4. Serving(agent)' \subseteq Serving(agent) \cup {w}
    BY <1>1 DEF Serving
  <2>5. w \in Serving(agent)' => Serving(agent)' \subseteq {w} /\ KeepsOwner(agent, x)
    <3> SUFFICES ASSUME w \in Serving(agent)' PROVE Serving(agent)' \subseteq {w} /\ KeepsOwner(agent, x)
      OBVIOUS
    <3>1. x # Idle /\ x.agent = agent
      BY <1>1 DEF Serving
    <3>2. CASE worker[w] = Idle
      <4>1. Serving(agent) = {}
        BY <3>1, <3>2 DEF Become
      <4> QED
        BY <2>1, <2>4, <3>1, <4>1 DEF Continues
    <3>3. CASE worker[w] # Idle
      <4>1. w \in Serving(agent)
        BY <3>1, <3>3 DEF Continues, Serving
      <4> QED
        BY <2>1, <2>2, <2>4, <3>1, <4>1 DEF Continues
    <3> QED
      BY <3>2, <3>3
  <2>6. \A y : KeepsOwner(agent, y) => KeepsOwner(agent, y)'
    BY <1>2 DEF KeepsOwner
  <2>7. ASSUME NEW v \in Serving(agent)' PROVE KeepsOwner(agent, worker[v])'
    <3>1. v \in Workers
      BY DEF Serving
    <3>2. PICK y : y = worker'[v]
      OBVIOUS
    <3>3. KeepsOwner(agent, y)
      BY <1>1, <2>2, <2>4, <2>5, <3>1, <3>2
    <3>4. KeepsOwner(agent, y)'
      BY <2>6, <3>3
    <3> QED
      BY <3>2, <3>4 DEF KeepsOwner
  <2> QED
    BY <2>2, <2>4, <2>5, <2>7
<1> QED
  BY <1>7, <1>8 DEF IInv

-----------------------------------------------------------------------------
(* The positions of what is left to write, and of what a log has gained.   *)
LEMMA AfterHead ==
    ASSUME NEW todo \in Seq(Writes), todo # <<>>
    PROVE  /\ Head(todo) = todo[1] /\ todo[1] \in Writes /\ Len(todo) \in Nat /\ Len(todo) >= 1
           /\ Tail(todo) \in Seq(Writes)
           /\ Len(Tail(todo)) = Len(todo) - 1
           /\ \A k \in 1 .. Len(Tail(todo)) : k + 1 \in 1 .. Len(todo) /\ Tail(todo)[k] = todo[k + 1]
<1>1. Len(todo) \in Nat /\ Len(todo) # 0
  BY LenProperties, EmptySeq
<1>2. 1 \in 1 .. Len(todo)
  BY <1>1
<1>3. /\ Tail(todo) \in Seq(Writes)
      /\ Len(Tail(todo)) = Len(todo) - 1
      /\ \A k \in 1 .. Len(Tail(todo)) : Tail(todo)[k] = todo[k + 1]
  BY HeadTailProperties
<1>4. Head(todo) = todo[1] /\ todo[1] \in Writes
  BY <1>2, ElementOfSeq
<1> QED
  BY <1>1, <1>3, <1>4

LEMMA Appended ==
    ASSUME NEW R, NEW log \in Seq(R), NEW record \in R
    PROVE  /\ Append(log, record) \in Seq(R) /\ Append(log, record) # <<>>
           /\ Len(log) \in Nat /\ Len(Append(log, record)) = Len(log) + 1
           /\ \A i \in 1 .. Len(Append(log, record)) :
                \/ i \in 1 .. Len(log) /\ Append(log, record)[i] = log[i]
                \/ i = Len(log) + 1 /\ Append(log, record)[i] = record
           /\ \A i \in 1 .. Len(log) :
                i \in 1 .. Len(Append(log, record)) /\ Append(log, record)[i] = log[i]
           /\ Len(log) + 1 \in 1 .. Len(Append(log, record))
           /\ Append(log, record)[Len(log) + 1] = record
<1>1. Len(log) \in Nat
  BY LenProperties
<1>2. /\ Append(log, record) \in Seq(R) /\ Append(log, record) # <<>>
      /\ Len(Append(log, record)) = Len(log) + 1
      /\ \A i \in 1 .. Len(log) : Append(log, record)[i] = log[i]
      /\ Append(log, record)[Len(log) + 1] = record
  BY AppendProperties
<1> QED
  BY <1>1, <1>2

LEMMA WriteFields ==
    ASSUME NEW x \in Writes
    PROVE  /\ x.to \in {"agents", "activations", "chains"}
           /\ x.to = "agents" => x.key \in Agents /\ x.record \in AgentRecords
           /\ x.to = "activations" => x.key \in ActivationKeys /\ x.record \in ActivationRecords
           /\ x.to = "chains" => x.record \in ChainRecords
BY DEF Writes

LEMMA LedgerTypes ==
    ASSUME TypeOK
    PROVE  /\ \A agent \in Agents : agents[agent] \in Seq(AgentRecords)
           /\ \A id \in ActivationKeys : activations[id] \in Seq(ActivationRecords)
           /\ DOMAIN agents = Agents /\ DOMAIN activations = ActivationKeys
BY DEF TypeOK

(* What one write does: it adds its record, and what it is evidence of.    *)
WritesHead(w, x) ==
    /\ agents' = IF x.to = "agents" THEN [agents EXCEPT ![x.key] = Append(@, x.record)] ELSE agents
    /\ activations' = IF x.to = "activations"
                      THEN [activations EXCEPT ![x.key] = Append(@, x.record)] ELSE activations
    /\ chains' = IF x.to = "chains" THEN chains \cup {x.record} ELSE chains

LEMMA EvidenceGrows ==
    ASSUME TypeOK, NEW w, NEW x \in Writes, WritesHead(w, x)
    PROVE  /\ \A agent : Completed(agent) => Completed(agent)'
           /\ \A id : Shown(id) => Shown(id)'
           /\ \A chain : Chained(chain) => Chained(chain)'
           /\ x.to = "activations" => Shown(x.key)'
           /\ x.to = "activations" /\ x.key \in ActivationIds /\ x.record.status = "complete" =>
                    Completed(x.record.agent)'
           /\ x.to = "chains" => Chained(x.record.chain)'
<1>1. ASSUME x.to = "activations"
      PROVE  /\ \A agent : Completed(agent) => Completed(agent)'
             /\ \A id : Shown(id) => Shown(id)'
             /\ Shown(x.key)'
             /\ x.key \in ActivationIds /\ x.record.status = "complete" => Completed(x.record.agent)'
  <2>1. x.key \in ActivationKeys /\ x.record \in ActivationRecords /\ DOMAIN activations = ActivationKeys
    BY <1>1, WriteFields, LedgerTypes
  <2> DEFINE log == activations[x.key]
  <2>2. log \in Seq(ActivationRecords)
    BY <2>1, LedgerTypes
  <2>3. /\ activations'[x.key] = Append(log, x.record)
        /\ \A id \in ActivationKeys : id # x.key => activations'[id] = activations[id]
    BY <1>1, <2>1 DEF WritesHead
  <2>4. /\ DOMAIN log = 1 .. Len(log)
        /\ DOMAIN Append(log, x.record) = 1 .. Len(Append(log, x.record))
    BY <2>1, <2>2, Appended, LenProperties
  <2>5. /\ Append(log, x.record) # <<>>
        /\ \A i \in DOMAIN log : i \in DOMAIN Append(log, x.record) /\ Append(log, x.record)[i] = log[i]
        /\ Len(log) + 1 \in DOMAIN Append(log, x.record) /\ Append(log, x.record)[Len(log) + 1] = x.record
    BY <2>1, <2>2, <2>4, Appended
  <2>6. ActivationIds \subseteq ActivationKeys
    BY DEF ActivationKeys
  <2>7. \A agent : Completed(agent) => Completed(agent)'
    <3> SUFFICES ASSUME NEW agent, NEW id \in ActivationIds, NEW j \in DOMAIN activations[id],
                        activations[id][j].agent = agent, activations[id][j].status = "complete"
                 PROVE  Completed(agent)'
      BY DEF Completed
    <3>1. j \in DOMAIN activations'[id] /\ activations'[id][j] = activations[id][j]
      BY <2>3, <2>5, <2>6
    <3> QED
      BY <3>1 DEF Completed
  <2>8. \A id : Shown(id) => Shown(id)'
    BY <2>3, <2>5 DEF Shown
  <2>9. Shown(x.key)'
    BY <2>1, <2>3, <2>5 DEF Shown
  <2>10. x.key \in ActivationIds /\ x.record.status = "complete" => Completed(x.record.agent)'
    BY <2>3, <2>5, SMTT(30) DEF Completed
  <2> QED
    BY <2>7, <2>8, <2>9, <2>10
<1>2. ASSUME x.to # "activations"
      PROVE  /\ \A agent : Completed(agent) => Completed(agent)'
             /\ \A id : Shown(id) => Shown(id)'
  BY <1>2 DEF WritesHead, Completed, Shown
<1>3. /\ \A chain : Chained(chain) => Chained(chain)'
      /\ x.to = "chains" => Chained(x.record.chain)'
  BY DEF WritesHead, Chained
<1> QED
  BY <1>1, <1>2, <1>3

LEMMA WriteStep ==
    ASSUME IInv, NEW w \in Workers, Write(w)
    PROVE  IInv'
<1>0. PICK todo, agent : todo = worker[w].todo /\ agent = worker[w].agent
  OBVIOUS
<1> DEFINE x == todo[1]
           rest == Tail(todo)
           next == Writing(agent, rest)
<1>1. /\ worker[w].phase = "writing" /\ RequestOK(worker[w]) /\ Carries(worker[w])
      /\ todo \in Seq(Writes) /\ todo # <<>> /\ agent \in Agents /\ TypeOK
  BY <1>0 DEF Write, IInv, EvidenceInv, RequestOK
<1>2. /\ Head(todo) = x /\ x \in Writes /\ Len(todo) \in Nat /\ Len(todo) >= 1
      /\ rest \in Seq(Writes) /\ Len(rest) = Len(todo) - 1
      /\ \A k \in 1 .. Len(rest) : k + 1 \in 1 .. Len(todo) /\ rest[k] = todo[k + 1]
  BY <1>1, AfterHead, SMTT(30)
<1>3. WritesHead(w, x) /\ overlapped' = overlapped /\ crashes' = crashes
  BY <1>0, <1>2 DEF Write, WritesHead
<1>4. /\ DOMAIN worker' = Workers
      /\ worker'[w] = next
      /\ \A v \in Workers \ {w} : worker'[v] = worker[v]
  BY <1>0 DEF Write, IInv, EvidenceInv
<1>5. /\ x.to \in {"agents", "activations", "chains"}
      /\ x.to = "agents" => x.key \in Agents /\ x.record \in AgentRecords
      /\ x.to = "activations" => x.key \in ActivationKeys /\ x.record \in ActivationRecords
      /\ x.to = "chains" => x.record \in ChainRecords
  BY <1>2, WriteFields
<1>6. /\ \A a : Completed(a) => Completed(a)'
      /\ \A id : Shown(id) => Shown(id)'
      /\ \A chain : Chained(chain) => Chained(chain)'
      /\ x.to = "activations" => Shown(x.key)'
      /\ x.to = "activations" /\ x.key \in ActivationIds /\ x.record.status = "complete" =>
                Completed(x.record.agent)'
      /\ x.to = "chains" => Chained(x.record.chain)'
  BY <1>1, <1>2, <1>3, EvidenceGrows
<1>7. /\ \A a, record : Sound(a, record) => Sound(a, record)'
      /\ \A a, record, t, k : SoundThen(a, record, t, k) => SoundThen(a, record, t, k)'
  BY <1>6 DEF Sound, SoundThen, WillComplete, WillShow, WillChain
<1>8. TypeOK'
  <2>1. agents' \in [Agents -> Seq(AgentRecords)]
    BY <1>1, <1>3, <1>5, Appended, LedgerTypes DEF WritesHead, TypeOK
  <2>2. activations' \in [ActivationKeys -> Seq(ActivationRecords)]
    BY <1>1, <1>3, <1>5, Appended, LedgerTypes DEF WritesHead, TypeOK
  <2>3. chains' \subseteq ChainRecords
    BY <1>1, <1>3, <1>5 DEF WritesHead, TypeOK
  <2> QED
    BY <1>1, <1>3, <2>1, <2>2, <2>3 DEF TypeOK
<1>9. 1 \in 1 .. Len(todo)
  BY <1>2
<1>10. x.to = "agents" => x.key = agent /\ Sound(agent, x.record)
  <2>1. x.to = "agents" => x.key = agent /\ SoundThen(agent, x.record, todo, 1)
    BY <1>0, <1>1, <1>9 DEF Carries
  <2>2. 1 .. 1 - 1 = {}
    OBVIOUS
  <2> QED
    BY <2>1, <2>2 DEF SoundThen, Sound, WillComplete, WillShow, WillChain
<1>11. x.to = "activations" => Classified(x.record)
  BY <1>0, <1>1, <1>9 DEF Carries
<1>12. RequestOK(next)
  BY <1>1, <1>2 DEF RequestOK, Writing, Idle
<1>13. ASSUME NEW k \in 1 .. Len(rest), NEW record, SoundThen(agent, record, todo, k + 1)
       PROVE  SoundThen(agent, record, rest, k)'
  <2>1. /\ \A j \in 1 .. (k + 1) - 1 : j = 1 \/ (j - 1 \in 1 .. k - 1 /\ rest[j - 1] = todo[j])
    <3> SUFFICES ASSUME NEW j \in 1 .. (k + 1) - 1, j # 1
                 PROVE  j - 1 \in 1 .. k - 1 /\ rest[j - 1] = todo[j]
      OBVIOUS
    <3>1. j - 1 \in 1 .. k - 1 /\ j - 1 \in 1 .. Len(rest) /\ (j - 1) + 1 = j
      BY <1>2
    <3> QED
      BY <1>2, <3>1
  <2>2. WillComplete(todo, k + 1, agent) => Completed(agent)' \/ WillComplete(rest, k, agent)
    BY <1>6, <2>1 DEF WillComplete
  <2>3. \A id : WillShow(todo, k + 1, id) => Shown(id)' \/ WillShow(rest, k, id)
    BY <1>6, <2>1 DEF WillShow
  <2>4. \A chain : WillChain(todo, k + 1, chain) => Chained(chain)' \/ WillChain(rest, k, chain)
    BY <1>6, <2>1 DEF WillChain
  <2>5. /\ record.type = "native" /\ StageAtLeast(record.stage, "verified") =>
                Completed(agent)' \/ WillComplete(rest, k, agent)
        /\ record.type = "native" /\ record.stage = "chained" =>
                /\ Shown(record.activation)' \/ WillShow(rest, k, record.activation)
                /\ Chained(record.chain)' \/ WillChain(rest, k, record.chain)
        /\ record.type = "native" /\ record.stage = "activation_failed" =>
                Shown(record.activation)' \/ WillShow(rest, k, record.activation)
    BY <1>6, <1>13, <2>2, <2>3, <2>4 DEF SoundThen
  <2> QED
    BY <2>5 DEF SoundThen, WillComplete, WillShow, WillChain
<1>14. Carries(next)'
  <2>1. ASSUME NEW k \in 1 .. Len(rest)
        PROVE  /\ rest[k].to = "agents" => rest[k].key = agent /\ SoundThen(agent, rest[k].record, rest, k)'
               /\ rest[k].to = "activations" => Classified(rest[k].record)
    <3>1. k + 1 \in 1 .. Len(todo) /\ rest[k] = todo[k + 1]
      BY <1>2
    <3>2. /\ todo[k + 1].to = "agents" =>
                todo[k + 1].key = agent /\ SoundThen(agent, todo[k + 1].record, todo, k + 1)
          /\ todo[k + 1].to = "activations" => Classified(todo[k + 1].record)
      BY <1>0, <1>1, <3>1 DEF Carries
    <3> QED
      BY <1>13, <3>1, <3>2
  <2>2. CASE rest = <<>>
    BY <2>2 DEF Writing, Idle, Carries
  <2>3. CASE rest # <<>>
    <3>1. next.phase = "writing" /\ next.todo = rest /\ next.agent = agent
      BY <2>3 DEF Writing
    <3> HIDE DEF next, rest, x
    <3> QED
      BY <2>1, <3>1 DEF Carries, Classified
  <2> QED
    BY <2>2, <2>3
<1>15. ASSUME NEW v \in Workers PROVE RequestOK(worker'[v]) /\ Carries(worker[v])'
  <2>1. CASE v = w
    <3>1. PICK y : y = next
      OBVIOUS
    <3>2. Carries(y)'
      BY <1>14, <3>1 DEF Carries
    <3> QED
      BY <1>4, <1>12, <1>14, <2>1 DEF Carries
  <2>2. CASE v # w
    <3>1. PICK y : y = worker[v]
      OBVIOUS
    <3>2. RequestOK(y) /\ Carries(y)
      BY <3>1 DEF IInv, EvidenceInv
    <3>3. Carries(y)'
      BY <1>7, <3>2 DEF Carries
    <3> QED
      BY <1>4, <2>2, <3>1, <3>2, <3>3 DEF Carries
  <2> QED
    BY <2>1, <2>2
<1>16. ASSUME NEW a \in Agents
       PROVE  \A i \in 1 .. Len(agents'[a]) :
                    (i \in 1 .. Len(agents[a]) /\ agents'[a][i] = agents[a][i])
                    \/ (x.to = "agents" /\ a = x.key /\ agents'[a][i] = x.record)
  <2>1. CASE x.to = "agents" /\ a = x.key
    <3>1. agents'[a] = Append(agents[a], x.record)
      BY <1>1, <1>3, <2>1, LedgerTypes DEF WritesHead
    <3>2. agents[a] \in Seq(AgentRecords)
      BY <1>1, LedgerTypes
    <3> QED
      BY <1>5, <2>1, <3>1, <3>2, Appended
  <2>2. CASE ~(x.to = "agents" /\ a = x.key)
    <3>1. agents'[a] = agents[a]
      BY <1>1, <1>3, <2>2, LedgerTypes DEF WritesHead
    <3> QED
      BY <3>1
  <2> QED
    BY <2>1, <2>2
<1>17. \A a \in Agents : \A i \in 1 .. Len(agents'[a]) : Sound(a, agents[a][i])'
  <2> SUFFICES ASSUME NEW a \in Agents, NEW i \in 1 .. Len(agents'[a])
               PROVE  Sound(a, agents[a][i])'
    OBVIOUS
  <2>1. PICK record : record = agents'[a][i]
    OBVIOUS
  <2>2. Sound(a, record)
    BY <1>10, <1>16, <2>1 DEF IInv, EvidenceInv
  <2>3. Sound(a, record)'
    BY <1>7, <2>2
  <2> QED
    BY <2>1, <2>3 DEF Sound
<1>18. \A id \in ActivationKeys : \A i \in 1 .. Len(activations'[id]) : Classified(activations'[id][i])
  <2> SUFFICES ASSUME NEW id \in ActivationKeys, NEW i \in 1 .. Len(activations'[id])
               PROVE  Classified(activations'[id][i])
    OBVIOUS
  <2>1. CASE x.to = "activations" /\ id = x.key
    <3>1. activations'[id] = Append(activations[id], x.record)
      BY <1>1, <1>3, <2>1, LedgerTypes DEF WritesHead
    <3>2. activations[id] \in Seq(ActivationRecords)
      BY <1>1, LedgerTypes
    <3>3. (i \in 1 .. Len(activations[id]) /\ activations'[id][i] = activations[id][i]) \/ activations'[id][i] = x.record
      BY <1>5, <2>1, <3>1, <3>2, Appended
    <3> QED
      BY <1>11, <2>1, <3>3 DEF IInv, EvidenceInv
  <2>2. CASE ~(x.to = "activations" /\ id = x.key)
    <3>1. activations'[id] = activations[id]
      BY <1>1, <1>3, <2>2, LedgerTypes DEF WritesHead
    <3> QED
      BY <3>1 DEF IInv, EvidenceInv
  <2> QED
    BY <2>1, <2>2
<1>19. EvidenceInv'
  BY <1>4, <1>8, <1>15, <1>17, <1>18 DEF EvidenceInv, RequestOK, Classified
<1>20. OwnerInv'
  <2> SUFFICES ASSUME NEW a \in Agents, a \notin overlapped
               PROVE  /\ \A i, j \in 1 .. Len(agents'[a]) : agents'[a][i].owner = agents'[a][j].owner
                      /\ \A v, u \in Serving(a)' : v = u
                      /\ \A v \in Serving(a)' : KeepsOwner(a, worker[v])'
    BY <1>3 DEF OwnerInv
  <2>1. /\ \A i, j \in 1 .. Len(agents[a]) : agents[a][i].owner = agents[a][j].owner
        /\ \A v, u \in Serving(a) : v = u
        /\ \A v \in Serving(a) : KeepsOwner(a, worker[v])
    BY DEF IInv, OwnerInv
  <2>2. worker[w] # Idle /\ (w \in Serving(a) <=> a = agent)
    BY <1>0, <1>1 DEF Serving, Idle
  <2>3. \A v \in Serving(a)' : v \in Serving(a)
    <3>1. worker'[w] # Idle => worker'[w].agent = agent
      BY <1>4 DEF Writing
    <3> QED
      BY <1>4, <2>2, <3>1 DEF Serving
  <2>4. CASE a # agent
    <3>1. agents'[a] = agents[a]
      BY <1>1, <1>3, <1>10, <2>4, LedgerTypes DEF WritesHead
    <3>2. ASSUME NEW v \in Serving(a)' PROVE KeepsOwner(a, worker[v])'
      <4>1. v \in Serving(a) /\ v # w /\ v \in Workers
        BY <2>2, <2>3, <2>4 DEF Serving
      <4>2. worker'[v] = worker[v] /\ KeepsOwner(a, worker[v])
        BY <1>4, <2>1, <4>1
      <4> QED
        BY <3>1, <4>2 DEF KeepsOwner
    <3> QED
      BY <2>1, <2>3, <3>1, <3>2
  <2>5. CASE a = agent
    <3>1. \A v \in Serving(a)' : v = w
      BY <2>1, <2>2, <2>3, <2>5
    <3>2. KeepsOwner(a, worker[w])
      BY <2>1, <2>2, <2>5
    <3>3. x.to = "agents" => \A i \in 1 .. Len(agents[a]) : agents[a][i].owner = x.record.owner
      BY <1>0, <1>1, <1>9, <3>2 DEF KeepsOwner
    <3>4. \A i \in 1 .. Len(agents'[a]) :
                (i \in 1 .. Len(agents[a]) /\ agents'[a][i] = agents[a][i])
                \/ (x.to = "agents" /\ agents'[a][i] = x.record)
      BY <1>16
    <3>5. \A i, j \in 1 .. Len(agents'[a]) : agents'[a][i].owner = agents'[a][j].owner
      BY <2>1, <3>3, <3>4
    <3>6. rest # <<>> => \A k \in 1 .. Len(rest) : rest[k].to = "agents" =>
            /\ \A i \in 1 .. Len(agents'[a]) : agents'[a][i].owner = rest[k].record.owner
            /\ \A l \in 1 .. Len(rest) : rest[l].to = "agents" => rest[l].record.owner = rest[k].record.owner
      <4> SUFFICES ASSUME NEW k \in 1 .. Len(rest), rest[k].to = "agents"
                   PROVE  /\ \A i \in 1 .. Len(agents'[a]) : agents'[a][i].owner = rest[k].record.owner
                          /\ \A l \in 1 .. Len(rest) : rest[l].to = "agents" =>
                                rest[l].record.owner = rest[k].record.owner
        OBVIOUS
      <4>1. \A l \in 1 .. Len(rest) : l + 1 \in 1 .. Len(todo) /\ rest[l] = todo[l + 1]
        BY <1>2
      <4>2. \A m \in 1 .. Len(todo) : todo[m].to = "agents" =>
                /\ \A i \in 1 .. Len(agents[a]) : agents[a][i].owner = todo[m].record.owner
                /\ \A l \in 1 .. Len(todo) : todo[l].to = "agents" => todo[l].record.owner = todo[m].record.owner
        BY <1>0, <1>1, <3>2 DEF KeepsOwner
      <4>3. x.to = "agents" => x.record.owner = rest[k].record.owner
        BY <1>9, <4>1, <4>2
      <4> QED
        BY <3>4, <4>1, <4>2, <4>3, SMTT(30)
    <3>7. w \in Serving(a)' => KeepsOwner(a, worker[w])'
      <4>1. CASE rest = <<>>
        BY <1>4, <4>1 DEF Serving, Writing
      <4>2. CASE rest # <<>>
        <5>1. worker'[w].phase = "writing" /\ worker'[w].todo = rest
          BY <1>4, <4>2 DEF Writing
        <5> HIDE DEF rest
        <5> QED
          BY <3>6, <4>2, <5>1 DEF KeepsOwner
      <4> QED
        BY <4>1, <4>2
    <3> QED
      BY <3>1, <3>5, <3>7
  <2> QED
    BY <2>4, <2>5
<1> QED
  BY <1>19, <1>20 DEF IInv

-----------------------------------------------------------------------------
LEMMA NothingIsNone ==
    /\ None \notin Stages /\ None \notin ActivationKeys /\ None \notin ChainIds
    /\ None \notin AgentRecords /\ None \notin ActivationRecords
    /\ ActivationIds \subseteq ActivationKeys
BY RecordAssumption DEF ActivationKeys

LEMMA KnownFields ==
    /\ \A r \in AgentRecords :
        /\ r.type \in {"native", "historical_import"} /\ r.owner \in Owners \cup {None} /\ r.stage \in Stages
        /\ r.activation \in ActivationKeys \cup {None} /\ r.chain \in ChainIds \cup {None}
        /\ r.sar \in SarIds \cup {None}
    /\ \A r \in ActivationRecords :
        /\ r.agent \in Agents /\ r.stage \in Stages /\ r.status \in {"failed", "complete", "chained", None}
        /\ r.sar \in SarIds \cup {None} /\ r.prov \in CallerClasses \cup {None}
BY DEF AgentRecords, ActivationRecords

(* A request that starts on an agent reads its last record.                *)
LEMMA ReadAgent ==
    ASSUME IInv, NEW agent \in Agents
    PROVE  /\ Latest(agents[agent]) = None => Len(agents[agent]) = 0
           /\ Latest(agents[agent]) # None =>
                /\ Latest(agents[agent]) \in AgentRecords
                /\ Sound(agent, Latest(agents[agent]))
                /\ agent \notin overlapped =>
                        \A i \in 1 .. Len(agents[agent]) : agents[agent][i].owner = Latest(agents[agent]).owner
<1>1. agents[agent] \in Seq(AgentRecords) /\ None \notin AgentRecords
  BY LedgerTypes, NothingIsNone DEF IInv, EvidenceInv
<1>2. /\ Latest(agents[agent]) = None => Len(agents[agent]) = 0
      /\ Latest(agents[agent]) # None =>
            /\ Len(agents[agent]) \in 1 .. Len(agents[agent])
            /\ Latest(agents[agent]) = agents[agent][Len(agents[agent])]
            /\ Latest(agents[agent]) \in AgentRecords
  BY <1>1, LatestOf
<1> QED
  BY <1>2 DEF IInv, EvidenceInv, OwnerInv

LEMMA RequestFacts ==
    ASSUME IInv, NEW w \in Workers
    PROVE  /\ RequestOK(worker[w]) /\ Carries(worker[w])
           /\ worker[w] # Idle /\ worker[w].agent \notin overlapped => KeepsOwner(worker[w].agent, worker[w])
<1>1. RequestOK(worker[w]) /\ Carries(worker[w])
  BY DEF IInv, EvidenceInv
<1>2. ASSUME worker[w] # Idle, worker[w].agent \notin overlapped
      PROVE  KeepsOwner(worker[w].agent, worker[w])
  <2>1. worker[w].agent \in Agents /\ w \in Serving(worker[w].agent)
    BY <1>1, <1>2 DEF RequestOK, Serving, Idle
  <2> QED
    BY <1>2, <2>1 DEF IInv, OwnerInv
<1> QED
  BY <1>1, <1>2

LEMMA IdleContinues ==
    ASSUME NEW w
    PROVE  Continues(w, Idle)
BY DEF Continues, Idle, RequestOK, Carries

(* Lists of writes a request for the agent may hand over.                  *)
SoundList(agent, todo) ==
    \A k \in 1 .. Len(todo) :
        /\ todo[k].to = "agents" => todo[k].key = agent /\ SoundThen(agent, todo[k].record, todo, k)
        /\ todo[k].to = "activations" => Classified(todo[k].record)

OwnerList(agent, todo) ==
    \A k \in 1 .. Len(todo) : todo[k].to = "agents" =>
        /\ \A i \in 1 .. Len(agents[agent]) : agents[agent][i].owner = todo[k].record.owner
        /\ \A l \in 1 .. Len(todo) : todo[l].to = "agents" => todo[l].record.owner = todo[k].record.owner

(* Handing over a list of writes.                                          *)
LEMMA WritingContinues ==
    ASSUME IInv, NEW w \in Workers, NEW agent \in Agents, NEW todo \in Seq(Writes), todo # <<>>,
           worker[w] = Idle \/ worker[w].agent = agent,
           SoundList(agent, todo), agent \notin overlapped => OwnerList(agent, todo)
    PROVE  Continues(w, Writing(agent, todo))
<1> DEFINE x == Writing(agent, todo)
<1>1. x.phase = "writing" /\ x.agent = agent /\ x.todo = todo /\ x # Idle
  BY DEF Writing, Idle
<1>2. RequestOK(x)
  BY <1>1 DEF RequestOK, SoundList
<1>3. Carries(x)
  BY <1>1 DEF Carries, SoundList
<1>4. agent \notin overlapped => KeepsOwner(agent, x)
  BY <1>1 DEF KeepsOwner, OwnerList
<1> HIDE DEF x
<1>5. Continues(w, x)
  BY <1>1, <1>2, <1>3, <1>4 DEF Continues
<1> QED
  BY <1>5 DEF x

LEMMA RegisterContinues ==
    ASSUME IInv, NEW w \in Workers, NEW agent \in Agents, NEW owner \in Owners, RegisterAgent(w, agent, owner)
    PROVE  \E x : Continues(w, x) /\ Become(w, x)
<1> DEFINE existing == Latest(agents[agent])
           stage == IF existing = None THEN "registered" ELSE existing.stage
<1>0. PICK record : record = RegistryRecord(existing, owner, stage, None, None, None)
  OBVIOUS
<1> DEFINE todo == <<AgentWrite(agent, record)>>
<1>1. /\ worker[w].phase = "idle" /\ (existing # None => existing.owner = owner)
      /\ Become(w, Writing(agent, todo))
  BY <1>0 DEF RegisterAgent
<1>2. /\ existing = None => Len(agents[agent]) = 0
      /\ existing # None =>
            /\ existing \in AgentRecords /\ Sound(agent, existing)
            /\ agent \notin overlapped =>
                    \A i \in 1 .. Len(agents[agent]) : agents[agent][i].owner = existing.owner
  BY ReadAgent
<1>3. existing \in AgentRecords \cup {None} /\ stage \in Stages
  BY <1>2, KnownFields DEF Stages
<1> HIDE DEF existing, stage
<1>4. /\ record \in AgentRecords /\ record.owner = owner /\ record.stage = stage
      /\ existing # None => /\ record.type = existing.type /\ record.activation = existing.activation
                            /\ record.chain = existing.chain
  <2>1. /\ existing \in Optional(AgentRecords) /\ owner \in Optional(Owners)
        /\ None \in Optional(ActivationKeys) /\ None \in Optional(ChainIds) /\ None \in Optional(SarIds)
    BY <1>3 DEF Optional
  <2> QED
    BY <1>0, <1>3, <2>1, RegistryFields
<1>5. Sound(agent, record)
  <2>1. CASE existing = None
    <3>1. record.stage = "registered"
      BY <1>4, <2>1 DEF stage
    <3> QED
      BY <3>1, Verified DEF Sound, Stages
  <2>2. CASE existing # None
    <3>1. record.stage = existing.stage
      BY <1>4, <2>2 DEF stage
    <3> QED
      BY <1>2, <1>4, <2>2, <3>1 DEF Sound
  <2> QED
    BY <2>1, <2>2
<1>6. /\ todo \in Seq(Writes) /\ todo # <<>> /\ Len(todo) = 1
      /\ todo[1].to = "agents" /\ todo[1].key = agent /\ todo[1].record = record
  BY <1>4 DEF AgentWrite, Writes
<1> HIDE DEF todo
<1>7. SoundThen(agent, record, todo, 1)
  BY <1>5 DEF Sound, SoundThen
<1>8. worker[w] = Idle
  BY <1>1, RequestFacts DEF RequestOK
<1>9. \A k \in 1 .. Len(todo) : k = 1
  BY <1>6
<1>10. agent \notin overlapped => \A i \in 1 .. Len(agents[agent]) : agents[agent][i].owner = record.owner
  BY <1>1, <1>2, <1>4
<1>11. Continues(w, Writing(agent, todo))
  BY <1>6, <1>7, <1>8, <1>9, <1>10, WritingContinues DEF SoundList, OwnerList
<1> QED
  BY <1>1, <1>11

LEMMA ImportContinues ==
    ASSUME IInv, NEW w \in Workers, NEW agent \in Agents, NEW id \in ActivationIds, HistoricalImport(w, agent, id)
    PROVE  \E x : Continues(w, x) /\ Become(w, x)
<1> DEFINE todo == ImportWrites(agent, id)
<1>1. worker[w].phase = "idle" /\ Latest(agents[agent]) = None /\ Become(w, Writing(agent, todo))
  BY DEF HistoricalImport
<1>2. Len(agents[agent]) = 0 /\ worker[w] = Idle /\ id \in ActivationKeys
  BY <1>1, ReadAgent, RequestFacts, NothingIsNone DEF RequestOK
<1> DEFINE record == [type |-> "historical_import", owner |-> None, stage |-> "chained",
                      activation |-> id, chain |-> AnchorChain, sar |-> None]
           activation == Activation(agent, "chained", "chained", None, None)
<1>3. record \in AgentRecords /\ activation \in ActivationRecords /\ record.type = "historical_import"
      /\ activation.stage = "chained"
  BY <1>2 DEF AgentRecords, ActivationRecords, Activation, ChainIds, Stages
<1>4. todo = <<AgentWrite(agent, record), ActivationWrite(id, activation)>>
  BY DEF ImportWrites
<1> HIDE DEF record, activation, todo
<1>5. /\ todo \in Seq(Writes) /\ todo # <<>> /\ Len(todo) = 2
      /\ todo[1].to = "agents" /\ todo[1].key = agent /\ todo[1].record = record
      /\ todo[2].to = "activations" /\ todo[2].record = activation
  <2>1. AgentWrite(agent, record) \in Writes /\ ActivationWrite(id, activation) \in Writes
    BY <1>2, <1>3 DEF AgentWrite, ActivationWrite, Writes
  <2> QED
    BY <1>4, <2>1 DEF AgentWrite, ActivationWrite
<1>6. \A k \in 1 .. Len(todo) : k = 1 \/ k = 2
  BY <1>5
<1>7. SoundThen(agent, record, todo, 1) /\ Classified(activation)
  BY <1>3, Verified DEF SoundThen, Classified, Stages
<1>8. Continues(w, Writing(agent, todo))
  BY <1>2, <1>5, <1>6, <1>7, WritingContinues DEF SoundList, OwnerList
<1> QED
  BY <1>1, <1>8

LEMMA ActivateContinues ==
    ASSUME IInv, NEW w \in Workers, NEW agent \in Agents, NEW id \in ActivationIds, NEW prov \in CallerClasses,
           ActivateAgent(w, agent, id, prov)
    PROVE  \E x : Continues(w, x) /\ Become(w, x)
<1> DEFINE read == Latest(agents[agent])
           x == [phase |-> "activating", agent |-> agent, read |-> read, id |-> id, prov |-> prov]
<1>1. read # None /\ worker[w].phase = "idle" /\ Become(w, x)
  BY DEF ActivateAgent
<1>2. /\ read \in AgentRecords /\ Sound(agent, read)
      /\ agent \notin overlapped => \A i \in 1 .. Len(agents[agent]) : agents[agent][i].owner = read.owner
  BY <1>1, ReadAgent
<1>3. worker[w] = Idle
  BY <1>1, RequestFacts DEF RequestOK
<1>4. Continues(w, x)
  BY <1>2, <1>3 DEF Continues, RequestOK, Carries, KeepsOwner
<1> QED
  BY <1>1, <1>4

LEMMA PairContinues ==
    ASSUME IInv, NEW w \in Workers, NEW agent \in Agents, NEW previous \in ActivationKeys \cup {None},
           NEW prov \in CallerClasses, RecordContinuityPair(w, agent, previous, prov)
    PROVE  \E x : Continues(w, x) /\ Become(w, x)
<1> DEFINE read == Latest(agents[agent])
           x == [phase |-> "pairing", agent |-> agent, read |-> read, previous |-> previous, prov |-> prov]
<1>1. read # None /\ worker[w].phase = "idle" /\ StageAtLeast(read.stage, "verified") /\ Become(w, x)
  BY DEF RecordContinuityPair
<1>2. /\ read \in AgentRecords /\ Sound(agent, read)
      /\ agent \notin overlapped => \A i \in 1 .. Len(agents[agent]) : agents[agent][i].owner = read.owner
  BY <1>1, ReadAgent
<1>3. worker[w] = Idle
  BY <1>1, RequestFacts DEF RequestOK
<1>4. Continues(w, x)
  BY <1>1, <1>2, <1>3 DEF Continues, RequestOK, Carries, KeepsOwner
<1> QED
  BY <1>1, <1>4

(* A failed activation: its record, then the agent's, pointing to it.      *)
LEMMA FailedContinues ==
    ASSUME IInv, NEW w \in Workers, worker[w].phase = "activating", NEW sar \in SarIds \cup {None}
    PROVE  Continues(w, Writing(worker[w].agent, FailedWrites(worker[w], sar)))
<1>0. PICK r : r = worker[w]
  OBVIOUS
<1>1. /\ r.phase = "activating" /\ r # Idle /\ r.agent \in Agents /\ r.read \in AgentRecords
      /\ r.prov \in CallerClasses /\ r.id \in ActivationIds /\ r.id \in ActivationKeys /\ r.id # None
      /\ r.agent \notin overlapped =>
            \A i \in 1 .. Len(agents[r.agent]) : agents[r.agent][i].owner = r.read.owner
  BY <1>0, RequestFacts, NothingIsNone DEF RequestOK, KeepsOwner, Idle
<1>2. PICK read \in AgentRecords, agent \in Agents, id \in ActivationKeys :
            read = r.read /\ agent = r.agent /\ id = r.id
  BY <1>1
<1>3. PICK record : record = RegistryRecord(read, read.owner, "activation_failed", id, None, sar)
  OBVIOUS
<1>4. record \in AgentRecords /\ record.owner = read.owner /\ record.stage = "activation_failed"
      /\ record.activation = id
  <2>1. PICK stage \in Stages, owner \in Optional(Owners), chain \in Optional(ChainIds) :
            stage = "activation_failed" /\ owner = read.owner /\ chain = None
    BY KnownFields DEF Stages, Optional
  <2>2. record = RegistryRecord(read, owner, stage, id, chain, sar)
    BY <1>3, <2>1
  <2>3. /\ read \in Optional(AgentRecords) /\ id \in Optional(ActivationKeys) /\ sar \in Optional(SarIds)
        /\ id # None
    BY <1>1, <1>2 DEF Optional
  <2>4. record \in AgentRecords /\ record.owner = owner /\ record.stage = stage /\ record.activation = id
    BY <2>2, <2>3, RegistryFields
  <2> QED
    BY <2>1, <2>4
<1>5. PICK activation : activation = Activation(agent, "activation_failed", "failed", sar, r.prov)
  OBVIOUS
<1>6. activation \in ActivationRecords /\ activation.status = "failed"
  BY <1>1, <1>5 DEF Activation, ActivationRecords, Stages
<1>7. PICK todo : todo = FailedWrites(r, sar)
  OBVIOUS
<1>8. todo = <<ActivationWrite(id, activation), AgentWrite(agent, record)>>
  BY <1>2, <1>3, <1>5, <1>7 DEF FailedWrites
<1>9. /\ todo \in Seq(Writes) /\ todo # <<>> /\ Len(todo) = 2
      /\ todo[1].to = "activations" /\ todo[1].key = id /\ todo[1].record = activation
      /\ todo[2].to = "agents" /\ todo[2].key = agent /\ todo[2].record = record
  <2>1. ActivationWrite(id, activation) \in Writes /\ AgentWrite(agent, record) \in Writes
    BY <1>4, <1>6 DEF AgentWrite, ActivationWrite, Writes
  <2> QED
    BY <1>8, <2>1 DEF AgentWrite, ActivationWrite
<1>10. \A k \in 1 .. Len(todo) : k = 1 \/ k = 2
  BY <1>9
<1>11. SoundThen(agent, record, todo, 2)
  <2>1. 1 \in 1 .. 2 - 1
    OBVIOUS
  <2>2. WillShow(todo, 2, id)
    BY <1>9, <2>1 DEF WillShow
  <2> QED
    BY <1>4, <2>2, Verified DEF SoundThen, Stages
<1>12. Classified(activation)
  BY <1>6 DEF Classified
<1>13. worker[w].agent = agent
  BY <1>0, <1>2
<1>14. Continues(w, Writing(agent, todo))
  <2>1. SoundList(agent, todo)
    BY <1>9, <1>10, <1>11, <1>12 DEF SoundList
  <2>2. agent \notin overlapped => OwnerList(agent, todo)
    BY <1>1, <1>2, <1>4, <1>9, <1>10 DEF OwnerList
  <2> QED
    BY <1>9, <1>13, <2>1, <2>2, WritingContinues
<1> QED
  BY <1>0, <1>2, <1>7, <1>14

(* A completed one: chain, activation, agent, in this order.               *)
LEMMA ActivatedContinues ==
    ASSUME IInv, NEW w \in Workers, worker[w].phase = "activating", NEW chain \in ChainIds, NEW sar \in SarIds
    PROVE  Continues(w, Writing(worker[w].agent, ActivatedWrites(worker[w], chain, sar)))
<1>0. PICK r : r = worker[w]
  OBVIOUS
<1>1. /\ r.phase = "activating" /\ r # Idle /\ r.agent \in Agents /\ r.read \in AgentRecords
      /\ r.prov \in CallerClasses /\ r.id \in ActivationIds /\ r.id \in ActivationKeys /\ r.id # None
      /\ r.agent \notin overlapped =>
            \A i \in 1 .. Len(agents[r.agent]) : agents[r.agent][i].owner = r.read.owner
  BY <1>0, RequestFacts, NothingIsNone DEF RequestOK, KeepsOwner, Idle
<1>2. PICK read \in AgentRecords, agent \in Agents, id \in ActivationKeys :
            read = r.read /\ agent = r.agent /\ id = r.id
  BY <1>1
<1>3. PICK record : record = RegistryRecord(read, read.owner, "chained", id, chain, sar)
  OBVIOUS
<1>4. record \in AgentRecords /\ record.owner = read.owner /\ record.stage = "chained"
      /\ record.activation = id /\ record.chain = chain
  <2>1. PICK stage \in Stages, owner \in Optional(Owners) : stage = "chained" /\ owner = read.owner
    BY KnownFields DEF Stages, Optional
  <2>2. record = RegistryRecord(read, owner, stage, id, chain, sar)
    BY <1>3, <2>1
  <2>3. /\ read \in Optional(AgentRecords) /\ id \in Optional(ActivationKeys) /\ chain \in Optional(ChainIds)
        /\ sar \in Optional(SarIds) /\ id # None /\ chain # None
    BY <1>1, <1>2, NothingIsNone DEF Optional
  <2>4. record \in AgentRecords /\ record.owner = owner /\ record.stage = stage
        /\ record.activation = id /\ record.chain = chain
    BY <2>2, <2>3, RegistryFields
  <2> QED
    BY <2>1, <2>4
<1>5. PICK activation : activation = Activation(agent, "chained", "complete", sar, r.prov)
  OBVIOUS
<1>6. activation \in ActivationRecords /\ activation.status = "complete" /\ activation.agent = agent
      /\ Classified(activation)
  BY <1>1, <1>5, Verified DEF Activation, ActivationRecords, Stages, Classified
<1>7. PICK todo, first : todo = ActivatedWrites(r, chain, sar) /\ first = ChainWrite(agent, chain, r.prov)
  OBVIOUS
<1>8. todo = <<first, ActivationWrite(id, activation), AgentWrite(agent, record)>>
  BY <1>2, <1>3, <1>5, <1>7 DEF ActivatedWrites
<1>9. /\ todo \in Seq(Writes) /\ todo # <<>> /\ Len(todo) = 3
      /\ todo[1].to = "chains" /\ todo[1].record.chain = chain
      /\ todo[2].to = "activations" /\ todo[2].key = id /\ todo[2].record = activation
      /\ todo[3].to = "agents" /\ todo[3].key = agent /\ todo[3].record = record
  <2>1. ActivationWrite(id, activation) \in Writes /\ AgentWrite(agent, record) \in Writes
    BY <1>4, <1>6 DEF AgentWrite, ActivationWrite, Writes
  <2>2. first \in Writes /\ first.to = "chains" /\ first.record.chain = chain
    BY <1>1, <1>7 DEF ChainWrite, ChainRecords, Writes
  <2> QED
    BY <1>8, <2>1, <2>2 DEF AgentWrite, ActivationWrite
<1>10. \A k \in 1 .. Len(todo) : k \in {1, 2, 3}
  BY <1>9
<1>11. SoundThen(agent, record, todo, 3)
  <2>1. 1 \in 1 .. 3 - 1 /\ 2 \in 1 .. 3 - 1
    OBVIOUS
  <2>2. WillShow(todo, 3, id) /\ WillChain(todo, 3, chain)
    BY <1>9, <2>1 DEF WillShow, WillChain
  <2>3. WillComplete(todo, 3, agent)
    BY <1>1, <1>2, <1>6, <1>9, <2>1 DEF WillComplete
  <2> QED
    BY <1>4, <2>2, <2>3 DEF SoundThen
<1>12. worker[w].agent = agent
  BY <1>0, <1>2
<1>13. Continues(w, Writing(agent, todo))
  <2>1. SoundList(agent, todo)
    BY <1>6, <1>9, <1>10, <1>11 DEF SoundList
  <2>2. agent \notin overlapped => OwnerList(agent, todo)
    <3>1. \A k \in 1 .. Len(todo) : todo[k].to = "agents" => todo[k].record.owner = read.owner
      BY <1>4, <1>9, <1>10
    <3>2. agent \notin overlapped => \A i \in 1 .. Len(agents[agent]) : agents[agent][i].owner = read.owner
      BY <1>1, <1>2
    <3> QED
      BY <3>1, <3>2 DEF OwnerList
  <2> QED
    BY <1>9, <1>12, <2>1, <2>2, WritingContinues
<1> QED
  BY <1>0, <1>2, <1>7, <1>13

(* A pair: chain, agent, then the activation it refers to, as far as the   *)
(* request gets.                                                           *)
LEMMA PairWritesContinue ==
    ASSUME IInv, NEW w \in Workers, worker[w].phase = "pairing", NEW id \in ActivationKeys \cup {None},
           NEW existing \in ActivationRecords \cup {None}, NEW chain \in ChainIds, NEW sar \in SarIds
    PROVE  Continues(w, Writing(worker[w].agent, PairWrites(worker[w], id, existing, chain, sar)))
<1>0. PICK r : r = worker[w]
  BY SMTT(30)
<1>1. /\ r.phase = "pairing" /\ r # Idle /\ r.agent \in Agents /\ r.read \in AgentRecords
      /\ r.prov \in CallerClasses /\ StageAtLeast(r.read.stage, "verified") /\ Sound(r.agent, r.read)
      /\ r.agent \notin overlapped =>
            \A i \in 1 .. Len(agents[r.agent]) : agents[r.agent][i].owner = r.read.owner
  BY <1>0, RequestFacts, SMTT(30) DEF RequestOK, Carries, KeepsOwner, Idle
<1>2. PICK read \in AgentRecords, agent \in Agents : read = r.read /\ agent = r.agent
  BY <1>1
<1>3. PICK record : record = RegistryRecord(read, read.owner, "continuous", id, chain, sar)
  OBVIOUS
<1>4. record \in AgentRecords /\ record.owner = read.owner /\ record.stage = "continuous" /\ record.type = read.type
  <2>1. PICK stage \in Stages, owner \in Optional(Owners) : stage = "continuous" /\ owner = read.owner
    BY KnownFields DEF Stages, Optional
  <2>2. record = RegistryRecord(read, owner, stage, id, chain, sar)
    BY <1>3, <2>1
  <2>3. /\ read \in Optional(AgentRecords) /\ id \in Optional(ActivationKeys) /\ chain \in Optional(ChainIds)
        /\ sar \in Optional(SarIds) /\ read # None
    BY NothingIsNone DEF Optional
  <2>4. record \in AgentRecords /\ record.owner = owner /\ record.stage = stage /\ record.type = read.type
    BY <2>2, <2>3, RegistryFields
  <2> QED
    BY <2>1, <2>4
<1>5. PICK status \in {"failed", "complete", "chained", None} :
            status = IF existing = None THEN None ELSE existing.status
  BY KnownFields
<1>5a. PICK activation : activation = Activation(agent, "continuous", status, sar, r.prov)
  OBVIOUS
<1>6. activation \in ActivationRecords /\ Classified(activation)
  BY <1>1, <1>5a, Verified DEF Activation, ActivationRecords, Stages, Classified
<1>7. PICK todo, first : todo = PairWrites(r, id, existing, chain, sar) /\ first = ChainWrite(agent, chain, r.prov)
  OBVIOUS
<1>8. \/ todo = <<first>>
      \/ todo = <<first, AgentWrite(agent, record)>>
      \/ id # None /\ todo = <<first, AgentWrite(agent, record), ActivationWrite(id, activation)>>
  <2>1. todo = CASE read.owner = None -> <<first>>
                 [] read.owner # None /\ id = None -> <<first, AgentWrite(agent, record)>>
                 [] OTHER -> <<first, AgentWrite(agent, record), ActivationWrite(id, activation)>>
    BY <1>2, <1>3, <1>5, <1>5a, <1>7 DEF PairWrites
  <2> QED
    BY <2>1
<1>9. /\ todo \in Seq(Writes) /\ todo # <<>> /\ Len(todo) \in 1 .. 3
      /\ \A k \in 1 .. Len(todo) :
            /\ todo[k].to = "agents" => todo[k].key = agent /\ todo[k].record = record
            /\ todo[k].to = "activations" => todo[k].record = activation
  <2>1. first \in Writes /\ first.to = "chains"
    BY <1>1, <1>2, <1>7 DEF ChainWrite, ChainRecords, Writes
  <2>2. /\ AgentWrite(agent, record) \in Writes
        /\ AgentWrite(agent, record).to = "agents" /\ AgentWrite(agent, record).key = agent
        /\ AgentWrite(agent, record).record = record
    BY <1>4 DEF AgentWrite, Writes
  <2>3. /\ id # None => ActivationWrite(id, activation) \in Writes
        /\ ActivationWrite(id, activation).to = "activations"
        /\ ActivationWrite(id, activation).record = activation
    BY <1>6 DEF ActivationWrite, Writes
  <2>4. CASE todo = <<first>>
    BY <2>1, <2>4
  <2>5. CASE todo = <<first, AgentWrite(agent, record)>>
    BY <2>1, <2>2, <2>5
  <2>6. CASE id # None /\ todo = <<first, AgentWrite(agent, record), ActivationWrite(id, activation)>>
    BY <2>1, <2>2, <2>3, <2>6
  <2> QED
    BY <1>8, <2>4, <2>5, <2>6
<1>10. \A k : SoundThen(agent, record, todo, k)
  BY <1>1, <1>2, <1>4 DEF SoundThen, Sound
<1>11. worker[w].agent = agent
  BY <1>0, <1>2
<1>12. Continues(w, Writing(agent, todo))
  <2>1. SoundList(agent, todo)
    BY <1>6, <1>9, <1>10 DEF SoundList
  <2>2. agent \notin overlapped => OwnerList(agent, todo)
    BY <1>1, <1>2, <1>4, <1>9 DEF OwnerList
  <2> QED
    BY <1>9, <1>11, <2>1, <2>2, WritingContinues
<1> QED
  BY <1>0, <1>2, <1>7, <1>12

-----------------------------------------------------------------------------
(* The two external calls answer, or fail.                                 *)
LEMMA AnsweredContinues ==
    ASSUME IInv, NEW w \in Workers, NEW cont \in ContinuityIds, NEW sar \in SarIds, NEW pass \in BOOLEAN,
           ActivationAnswered(w, cont, sar, pass)
    PROVE  \E x : Continues(w, x) /\ Become(w, x)
<1>1. PICK chain \in ChainIds, given \in SarIds \cup {None} : chain = <<cont, sar>> /\ given = sar
  BY DEF ChainIds
<1>2. worker[w].phase = "activating"
  BY DEF ActivationAnswered
<1>3. CASE pass
  <2>1. Become(w, Writing(worker[w].agent, ActivatedWrites(worker[w], chain, sar)))
    BY <1>1, <1>3 DEF ActivationAnswered
  <2> QED
    BY <1>2, <2>1, ActivatedContinues
<1>4. CASE ~pass
  <2>1. Become(w, Writing(worker[w].agent, FailedWrites(worker[w], given)))
    BY <1>1, <1>4 DEF ActivationAnswered
  <2> QED
    BY <1>2, <2>1, FailedContinues
<1> QED
  BY <1>3, <1>4

LEMMA PairAnsweredContinues ==
    ASSUME IInv, NEW w \in Workers, NEW cont \in ContinuityIds, PairAnswered(w, cont)
    PROVE  \E x : Continues(w, x) /\ Become(w, x)
<1>0. PICK r : r = worker[w]
  BY SMTT(30)
<1>1. /\ r.phase = "pairing" /\ r.read \in AgentRecords /\ r.previous \in ActivationKeys \cup {None}
  BY <1>0, RequestFacts DEF PairAnswered, RequestOK
<1>2. PICK id \in ActivationKeys \cup {None} : id = Pointer(r.previous, r.read.activation)
  BY <1>1, KnownFields DEF Pointer
<1>3. PICK existing \in ActivationRecords \cup {None} :
            existing = IF id = None THEN None ELSE Latest(activations[id])
  <2>1. CASE id = None
    BY <2>1
  <2>2. CASE id # None
    <3>1. activations[id] \in Seq(ActivationRecords) /\ None \notin ActivationRecords
      BY <2>2, LedgerTypes, NothingIsNone DEF IInv, EvidenceInv
    <3>2. Latest(activations[id]) \in ActivationRecords \cup {None}
      BY <3>1, LatestOf
    <3> QED
      BY <2>2, <3>2
  <2> QED
    BY <2>1, <2>2
<1>4. PICK sar \in SarIds \cup {None} :
            sar = Pointer(IF existing = None THEN None ELSE existing.sar, r.read.sar)
  BY <1>1, <1>3, KnownFields, SMTT(30) DEF Pointer
<1>5. Become(w, IF sar = None THEN Idle ELSE Writing(r.agent, PairWrites(r, id, existing, <<cont, sar>>, sar)))
  BY <1>0, <1>2, <1>3, <1>4 DEF PairAnswered
<1>6. CASE sar = None
  BY <1>5, <1>6, IdleContinues
<1>7. CASE sar # None
  <2>1. PICK chain \in ChainIds : chain = <<cont, sar>>
    BY <1>7 DEF ChainIds
  <2>2. Become(w, Writing(worker[w].agent, PairWrites(worker[w], id, existing, chain, sar)))
    BY <1>0, <1>5, <1>7, <2>1
  <2> QED
    BY <1>0, <1>1, <1>7, <2>2, PairWritesContinue
<1> QED
  BY <1>6, <1>7

LEMMA StepIInv ==
    ASSUME IInv, NEW w \in Workers, Step(w)
    PROVE  IInv'
<1>1. CASE \E agent \in Agents, owner \in Owners : RegisterAgent(w, agent, owner)
  BY <1>1, RegisterContinues, BecomeStep
<1>2. CASE \E agent \in Agents, id \in ActivationIds : HistoricalImport(w, agent, id)
  BY <1>2, ImportContinues, BecomeStep
<1>3. CASE \E agent \in Agents, id \in ActivationIds, prov \in CallerClasses : ActivateAgent(w, agent, id, prov)
  BY <1>3, ActivateContinues, BecomeStep
<1>4. CASE ActivationCallFails(w)
  <2>1. PICK sar \in SarIds \cup {None} : sar = None
    OBVIOUS
  <2>2. worker[w].phase = "activating" /\ Become(w, Writing(worker[w].agent, FailedWrites(worker[w], sar)))
    BY <1>4, <2>1 DEF ActivationCallFails
  <2> QED
    BY <2>2, FailedContinues, BecomeStep
<1>5. CASE \E cont \in ContinuityIds, sar \in SarIds, pass \in BOOLEAN : ActivationAnswered(w, cont, sar, pass)
  BY <1>5, AnsweredContinues, BecomeStep
<1>6. CASE \E agent \in Agents, previous \in ActivationKeys \cup {None}, prov \in CallerClasses :
                RecordContinuityPair(w, agent, previous, prov)
  BY <1>6, PairContinues, BecomeStep
<1>7. CASE \E cont \in ContinuityIds : PairAnswered(w, cont)
  BY <1>7, PairAnsweredContinues, BecomeStep
<1>8. CASE PairCallFails(w) \/ WriteFails(w)
  <2>1. Become(w, Idle)
    BY <1>8 DEF PairCallFails, WriteFails
  <2> QED
    BY <2>1, IdleContinues, BecomeStep
<1>9. CASE Write(w)
  BY <1>9, WriteStep
<1> QED
  BY <1>1, <1>2, <1>3, <1>4, <1>5, <1>6, <1>7, <1>8, <1>9 DEF Step

(* Ledgers left alone and every request gone: a restart.                   *)
LEMMA CrashIInv ==
    ASSUME IInv, Crash
    PROVE  IInv'
<1>1. /\ agents' = agents /\ activations' = activations /\ chains' = chains /\ overlapped' = overlapped
      /\ worker' = [w \in Workers |-> Idle]
      /\ crashes' \in 0 .. MaxCrashes
  BY BoundAssumption DEF Crash, IInv, EvidenceInv, TypeOK
<1>2. TypeOK'
  BY <1>1 DEF IInv, EvidenceInv, TypeOK
<1>3. \A agent, record : Sound(agent, record) => Sound(agent, record)'
  BY <1>1 DEF Sound, Completed, Shown, Chained
<1>4. \A w \in Workers : RequestOK(worker'[w]) /\ Carries(worker[w])'
  BY <1>1 DEF RequestOK, Carries, Idle
<1>5. EvidenceInv'
  BY <1>1, <1>2, <1>3, <1>4 DEF IInv, EvidenceInv, RequestOK, Classified
<1>6. \A agent : Serving(agent)' = {}
  BY <1>1 DEF Serving
<1>7. OwnerInv'
  BY <1>1, <1>6 DEF IInv, OwnerInv
<1> QED
  BY <1>5, <1>7 DEF IInv

LEMMA NextIInv == IInv /\ [Next]_vars => IInv'
<1> SUFFICES ASSUME IInv, [Next]_vars PROVE IInv'
  OBVIOUS
<1>1. CASE UNCHANGED vars
  <2>1. /\ agents' = agents /\ activations' = activations /\ chains' = chains /\ overlapped' = overlapped
        /\ worker' = worker /\ crashes' = crashes
    BY <1>1 DEF vars
  <2>2. /\ \A agent, record : Sound(agent, record) => Sound(agent, record)'
        /\ \A agent, record, todo, k : SoundThen(agent, record, todo, k) => SoundThen(agent, record, todo, k)'
    BY <2>1 DEF Sound, SoundThen, Completed, Shown, Chained
  <2>3. \A x : Carries(x) => Carries(x)'
    BY <2>2 DEF Carries
  <2>4. \A w \in Workers : RequestOK(worker'[w]) /\ Carries(worker[w])'
    BY <2>1, <2>3 DEF IInv, EvidenceInv, Carries
  <2>5. EvidenceInv'
    BY <2>1, <2>2, <2>4 DEF IInv, EvidenceInv, TypeOK, RequestOK, Classified
  <2>6. OwnerInv'
    BY <2>1 DEF IInv, OwnerInv, Serving, KeepsOwner
  <2> QED
    BY <2>5, <2>6 DEF IInv
<1> QED
  BY <1>1, StepIInv, CrashIInv DEF Next

LEMMA InitIInv == Init => IInv
<1> SUFFICES ASSUME Init PROVE IInv
  OBVIOUS
<1>1. /\ agents = [a \in Agents |-> <<>>] /\ activations = [id \in ActivationKeys |-> <<>>] /\ chains = {}
      /\ worker = [w \in Workers |-> Idle] /\ overlapped = {} /\ crashes = 0
  BY DEF Init
<1>2. /\ \A a \in Agents : agents[a] = <<>> /\ Len(agents[a]) = 0
      /\ \A id \in ActivationKeys : activations[id] = <<>> /\ Len(activations[id]) = 0
  BY <1>1
<1>3. TypeOK
  <2>1. 0 \in 0 .. MaxCrashes
    BY BoundAssumption
  <2> QED
    BY <1>1, <2>1 DEF TypeOK
<1>4. \A w \in Workers : worker[w] = Idle /\ worker[w].phase = "idle"
  BY <1>1 DEF Idle
<1>5. EvidenceInv
  BY <1>1, <1>2, <1>3, <1>4 DEF EvidenceInv, RequestOK, Carries, Idle
<1>6. OwnerInv
  BY <1>2, <1>4 DEF OwnerInv, Serving
<1> QED
  BY <1>5, <1>6 DEF IInv

LEMMA Inductive == Spec => []IInv
BY InitIInv, NextIInv, PTL DEF Spec

-----------------------------------------------------------------------------
(* Ledgers hold records of their kind, whatever the handlers interleave.   *)
THEOREM TypeCorrect == Spec => []TypeOK
<1>1. IInv => TypeOK
  BY DEF IInv, EvidenceInv
<1> QED
  BY <1>1, Inductive, PTL

(* Nobody is shown as verified without a completed activation of its own   *)
(* (record_continuity_pair, activate_agent, register_agent).               *)
THEOREM NoUnbackedVerification == Spec => []VerifiedIsBacked
<1>1. IInv => VerifiedIsBacked
  <2> SUFFICES ASSUME IInv, NEW agent \in Agents, NEW i \in DOMAIN agents[agent],
                      agents[agent][i].type = "native", StageAtLeast(agents[agent][i].stage, "verified")
               PROVE  Completed(agent)
    BY DEF VerifiedIsBacked, Completed
  <2>1. i \in 1 .. Len(agents[agent])
    BY LedgerTypes, LenProperties DEF IInv, EvidenceInv
  <2> QED
    BY <2>1 DEF IInv, EvidenceInv, Sound
<1> QED
  BY <1>1, Inductive, PTL

(* An agent's record shows an outcome only after the activation ledger     *)
(* does (activate_agent, record_failed_activation).                        *)
THEOREM EvidenceFirst == Spec => []OutcomeRecordedFirst
<1>1. IInv => OutcomeRecordedFirst
  <2> SUFFICES ASSUME IInv, NEW agent \in Agents, NEW i \in DOMAIN agents[agent],
                      agents[agent][i].type = "native"
               PROVE  /\ agents[agent][i].stage = "chained" =>
                            /\ activations[agents[agent][i].activation] # <<>>
                            /\ \E c \in chains : c.chain = agents[agent][i].chain
                      /\ agents[agent][i].stage = "activation_failed" =>
                            activations[agents[agent][i].activation] # <<>>
    BY DEF OutcomeRecordedFirst
  <2>1. i \in 1 .. Len(agents[agent])
    BY LedgerTypes, LenProperties DEF IInv, EvidenceInv
  <2> QED
    BY <2>1 DEF IInv, EvidenceInv, Sound, Shown, Chained
<1> QED
  BY <1>1, Inductive, PTL

(* No agent changes hands, unless two requests served it at once           *)
(* (register_agent).                                                       *)
THEOREM OwnersAreKept == Spec => []OwnerIsStable
<1>1. IInv => OwnerIsStable
  <2> SUFFICES ASSUME IInv, NEW agent \in Agents \ overlapped,
                      NEW i \in DOMAIN agents[agent], NEW j \in DOMAIN agents[agent]
               PROVE  agents[agent][i].owner = agents[agent][j].owner
    BY DEF OwnerIsStable
  <2>1. i \in 1 .. Len(agents[agent]) /\ j \in 1 .. Len(agents[agent])
    BY LedgerTypes, LenProperties DEF IInv, EvidenceInv
  <2> QED
    BY <2>1 DEF IInv, OwnerInv
<1> QED
  BY <1>1, Inductive, PTL

(* The success rate of /v1/explorer/metrics is one: every attempt is a     *)
(* success or a failure and none is both.                                  *)
THEOREM RatesAreRates == Spec => []MetricsPartition
<1>1. IInv => MetricsPartition
  <2> SUFFICES ASSUME IInv, NEW all \in BOOLEAN
               PROVE  /\ Successes(all) \cap Failures(all) = {}
                      /\ Attempts(all) = Successes(all) \cup Failures(all)
    BY DEF MetricsPartition
  <2>1. ASSUME NEW id \in ActivationKeys, ScopedLatest(id, all) # None
        PROVE  ScopedLatest(id, all) \in ActivationRecords /\ Classified(ScopedLatest(id, all))
    <3> DEFINE scoped == {i \in DOMAIN activations[id] : InScope(activations[id][i], all)}
               last == CHOOSE i \in scoped : \A j \in scoped : j =< i
    <3>1. scoped # {} /\ ScopedLatest(id, all) = activations[id][last]
      BY <2>1 DEF ScopedLatest
    <3>2. activations[id] \in Seq(ActivationRecords)
      BY LedgerTypes DEF IInv, EvidenceInv
    <3>3. DOMAIN activations[id] = 1 .. Len(activations[id]) /\ Len(activations[id]) \in Nat
      BY <3>2, LenProperties
    <3>4. scoped \in SUBSET (1 .. Len(activations[id]))
      BY <3>3
    <3>5. \E i \in scoped : \A j \in scoped : j =< i
      BY ONLY <3>1, <3>3, <3>4, LastPosition
    <3>6. last \in 1 .. Len(activations[id])
      BY ONLY <3>4, <3>5
    <3>7. activations[id][last] \in ActivationRecords
      BY <3>2, <3>6, ElementOfSeq
    <3> QED
      BY <3>1, <3>6, <3>7 DEF IInv, EvidenceInv
  <2>2. \A r \in ActivationRecords : r.status # "activation_failed"
    BY KnownFields, NothingIsNone DEF Stages
  <2> QED
    BY <2>1, <2>2 DEF Successes, Failures, Attempts, Classified
<1> QED
  BY <1>1, Inductive, PTL
=============================================================================
