------------------------ MODULE EvidenceGraph_proofs ------------------------
(***************************************************************************)
(* What the extractor prints holds of the ledgers, however many requests   *)
(* ran beside it and however its six readings fell among their appends.    *)
(* Two facts carry the proofs: whatever it has read is still stored, for   *)
(* ledgers only grow; and an action_ref its filter selected had something  *)
(* stored, hence a commitment, before the second pass read the first       *)
(* ledger.                                                                 *)
(***************************************************************************)
EXTENDS EvidenceGraph, PathC_proofs

FoundAt(s, ref) == \E record \in Stored(s) : record.ref = ref

(* Every record of a reading is on its ledger.                             *)
StoredSeen(seen) ==
    /\ DOMAIN seen = Stores
    /\ \A s \in Stores, ref \in Refs :
            seen[s][ref] # None => seen[s][ref] \in Stored(s) /\ seen[s][ref].ref = ref

(* Filters that select by an evaluation or a receipt.                      *)
ByOutcome(filter) == filter \in {"evaluator", "reason"}

(* What was stored when the filter was resolved.                           *)
Selected(filter, refs) ==
    /\ refs \subseteq Refs
    /\ \A ref \in refs : FoundAt("commitments", ref)
    /\ ByOutcome(filter) => \A ref \in refs : FoundAt("evaluations", ref)

ExtractorInv ==
    extractor.phase = "reading" =>
        /\ extractor.next \in 1 .. 4
        /\ StoredSeen(extractor.seen)
        /\ extractor.refs # None =>
            /\ Selected(extractor.filter, extractor.refs)
            /\ extractor.next > 1 => \A ref \in extractor.refs : extractor.seen["commitments"][ref] # None
            /\ extractor.next > 2 /\ ByOutcome(extractor.filter) =>
                    \A ref \in extractor.refs : extractor.seen["evaluations"][ref] # None

(* The graph was built from records that are stored.                       *)
GraphInv ==
    graph # None =>
        \E refs \in SUBSET Refs : \E seen : StoredSeen(seen) /\ graph.view = BuildGraph(refs, seen)

ComposedInv ==
    /\ RegisterInv
    /\ ExtractorInv
    /\ GraphInv
    /\ ArtifactsAreLinked

-----------------------------------------------------------------------------
(* A receipt has an evaluation under it, an evaluation a commitment.       *)
LEMMA ArtifactsBelow ==
    ASSUME IInv, NEW ref
    PROVE  /\ FoundAt("receipts", ref) => FoundAt("evaluations", ref)
           /\ FoundAt("evaluations", ref) => FoundAt("commitments", ref)
<1>1. FoundAt("receipts", ref) => FoundAt("evaluations", ref)
  BY DEF IInv, ReceiptBacked, FoundAt
<1>2. FoundAt("evaluations", ref) => FoundAt("commitments", ref)
  BY DEF IInv, SpecBinding, FoundAt
<1> QED
  BY <1>1, <1>2

(* Loading a ledger keeps a reading faithful, and finds what is stored.    *)
LEMMA LoadIsStored ==
    ASSUME TypeOK, NEW s \in Stores, NEW seen, StoredSeen(seen)
    PROVE  /\ StoredSeen(LoadLedger(seen, s))
           /\ \A ref \in Refs : FoundAt(s, ref) => LoadLedger(seen, s)[s][ref] # None
           /\ \A t \in Stores \ {s} : LoadLedger(seen, s)[t] = seen[t]
<1> DEFINE loaded == LoadLedger(seen, s)
<1>1. /\ DOMAIN loaded = Stores
      /\ \A ref \in Refs : loaded[s][ref] = Latest(ledger[s], ref)
      /\ \A t \in Stores \ {s} : loaded[t] = seen[t]
  BY DEF StoredSeen, LoadLedger, Register
<1>2. \A ref \in Refs : loaded[s][ref] # None => loaded[s][ref] \in Stored(s) /\ loaded[s][ref].ref = ref
  BY <1>1, LatestIsStored
<1>3. StoredSeen(loaded)
  BY <1>1, <1>2 DEF StoredSeen
<1>4. \A ref \in Refs : FoundAt(s, ref) => loaded[s][ref] # None
  BY <1>1, StoredIsFound DEF FoundAt
<1> QED
  BY <1>1, <1>3, <1>4

(* Whatever the filter, something is stored under a selected action_ref.   *)
LEMMA ResolvedIsStored ==
    ASSUME IInv, NEW filter \in Filters, NEW seen, StoredSeen(seen)
    PROVE  Selected(filter.by, ResolveActionRefs(filter, seen))
<1> DEFINE refs == ResolveActionRefs(filter, seen)
<1>1. \A ref \in Refs, s \in Stores : seen[s][ref] # None => FoundAt(s, ref)
  BY DEF StoredSeen, FoundAt
<1>2. filter.by \in {"all", "evaluator", "action_ref", "reason"} /\ (filter.by = "action_ref" => filter.ref \in Refs)
  BY FilterAssumption DEF FilterShape
<1>3. refs \subseteq Refs
  BY <1>2 DEF ResolveActionRefs
<1>4. \A ref \in refs : \E s \in Stores : FoundAt(s, ref)
  <2>1. "receipts" \in Stores /\ "evaluations" \in Stores
    BY DEF Stores
  <2> QED
    BY <1>1, <1>2, <2>1 DEF ResolveActionRefs
<1>5. \A ref \in refs : FoundAt("commitments", ref)
  BY <1>4, ArtifactsBelow DEF Stores
<1>6. ByOutcome(filter.by) => \A ref \in refs : FoundAt("evaluations", ref)
  <2>1. CASE filter.by = "evaluator"
    BY <1>1, <2>1, ArtifactsBelow DEF ResolveActionRefs, Stores
  <2>2. CASE filter.by = "reason"
    BY <1>1, <2>2 DEF ResolveActionRefs, Stores
  <2> QED
    BY <2>1, <2>2 DEF ByOutcome
<1> QED
  BY <1>3, <1>5, <1>6 DEF Selected

-----------------------------------------------------------------------------
(* What is in a graph, node by node and edge by edge.                      *)
LEMMA GraphParts ==
    ASSUME NEW refs, NEW seen
    PROVE  /\ BuildGraph(refs, seen).nodes =
                (UNION {ArtifactNodes(ref, seen) : ref \in refs})
                \cup {Value(e.to.type, e.to.of) : e \in UNION {ValueEdges(ref, seen) : ref \in refs}}
           /\ BuildGraph(refs, seen).edges =
                (UNION {ValueEdges(ref, seen) : ref \in refs})
                \cup UNION {ArtifactEdges(ref, seen) : ref \in refs}
<1> DEFINE values == UNION {ValueEdges(ref, seen) : ref \in refs}
           nodes == (UNION {ArtifactNodes(ref, seen) : ref \in refs}) \cup {Value(e.to.type, e.to.of) : e \in values}
           edges == values \cup UNION {ArtifactEdges(ref, seen) : ref \in refs}
<1>1. BuildGraph(refs, seen) = [nodes |-> nodes, edges |-> edges]
  BY Zenon DEF BuildGraph
<1>2. \A N, E : [nodes |-> N, edges |-> E].nodes = N /\ [nodes |-> N, edges |-> E].edges = E
  OBVIOUS
<1> HIDE DEF nodes, edges
<1>3. BuildGraph(refs, seen).nodes = nodes /\ BuildGraph(refs, seen).edges = edges
  BY <1>1, <1>2
<1> QED
  BY <1>3 DEF nodes, edges

(* Membership, spelled out.                                                *)
LEMMA InGraph ==
    ASSUME NEW refs, NEW seen
    PROVE  /\ \A node \in BuildGraph(refs, seen).nodes :
                \/ \E ref \in refs : node \in ArtifactNodes(ref, seen)
                \/ \E ref \in refs : \E e \in ValueEdges(ref, seen) : node = Value(e.to.type, e.to.of)
           /\ \A ref \in refs :
                /\ ArtifactNodes(ref, seen) \subseteq BuildGraph(refs, seen).nodes
                /\ \A e \in ValueEdges(ref, seen) : Value(e.to.type, e.to.of) \in BuildGraph(refs, seen).nodes
                /\ ValueEdges(ref, seen) \subseteq BuildGraph(refs, seen).edges
                /\ ArtifactEdges(ref, seen) \subseteq BuildGraph(refs, seen).edges
           /\ \A edge \in BuildGraph(refs, seen).edges :
                \E ref \in refs : edge \in ValueEdges(ref, seen) \/ edge \in ArtifactEdges(ref, seen)
<1> DEFINE values == UNION {ValueEdges(ref, seen) : ref \in refs}
           artifacts == UNION {ArtifactNodes(ref, seen) : ref \in refs}
           links == UNION {ArtifactEdges(ref, seen) : ref \in refs}
<1>1. /\ \A x : x \in values <=> \E ref \in refs : x \in ValueEdges(ref, seen)
      /\ \A x : x \in artifacts <=> \E ref \in refs : x \in ArtifactNodes(ref, seen)
      /\ \A x : x \in links <=> \E ref \in refs : x \in ArtifactEdges(ref, seen)
  OBVIOUS
<1>2. /\ BuildGraph(refs, seen).nodes = artifacts \cup {Value(e.to.type, e.to.of) : e \in values}
      /\ BuildGraph(refs, seen).edges = values \cup links
  BY GraphParts
<1> HIDE DEF values, artifacts, links
<1> QED
  BY <1>1, <1>2

LEMMA ValueTypes ==
    ASSUME NEW seen, NEW ref, NEW edge \in ValueEdges(ref, seen)
    PROVE  Value(edge.to.type, edge.to.of).id.type \in {"action_ref", "reason_code", "evaluator_identity"}
BY DEF ValueEdges, Value, Edge, Id

(* A graph's evaluation and receipt nodes come from its reading.           *)
LEMMA OutcomeNodes ==
    ASSUME NEW refs, NEW seen, NEW node \in BuildGraph(refs, seen).nodes,
           node.id.type \in {"evaluation_record", "continuity_receipt"}
    PROVE  \E ref \in refs :
                \/ node.id = Id("evaluation_record", ref) /\ seen["evaluations"][ref] # None
                \/ node.id = Id("continuity_receipt", ref) /\ seen["receipts"][ref] # None
<1>1. \A ref, e : e \in ValueEdges(ref, seen) => node # Value(e.to.type, e.to.of)
  BY ValueTypes
<1>2. PICK ref \in refs : node \in ArtifactNodes(ref, seen)
  BY <1>1, InGraph
<1>3. CASE node \in {CommitmentNode(ref, c) : c \in {seen["commitments"][ref]} \ {None}}
  BY <1>3 DEF CommitmentNode, Id
<1>4. CASE node \in {EvaluationNode(ref, e) : e \in {seen["evaluations"][ref]} \ {None}}
  BY <1>4 DEF EvaluationNode
<1>5. CASE node \in {ReceiptNode(ref, r) : r \in {seen["receipts"][ref]} \ {None}}
  BY <1>5 DEF ReceiptNode
<1> QED
  BY <1>2, <1>3, <1>4, <1>5 DEF ArtifactNodes

(* The graph is linked where the reading has both ends of each edge.       *)
LEMMA BuiltIsLinked ==
    ASSUME NEW refs, NEW seen, NEW filter,
           \A ref \in refs : seen["commitments"][ref] # None,
           ByOutcome(filter) => \A ref \in refs : seen["evaluations"][ref] # None
    PROVE  LET view == BuildGraph(refs, seen) IN
           /\ \A e \in Of(view, "evaluation_record") :
                Edge("evaluates", e.id, Id("action_commitment", e.id.of)) \in view.edges
           /\ ByOutcome(filter) =>
                \A r \in Of(view, "continuity_receipt") :
                    Edge("attests_evaluation", r.id, Id("evaluation_record", r.id.of)) \in view.edges
<1> DEFINE view == BuildGraph(refs, seen)
<1>1. ASSUME NEW node \in Of(view, "evaluation_record")
      PROVE  Edge("evaluates", node.id, Id("action_commitment", node.id.of)) \in view.edges
  <2>0. node \in view.nodes /\ node.id.type = "evaluation_record"
    BY <1>1 DEF Of
  <2>1. PICK ref \in refs : node.id = Id("evaluation_record", ref) /\ seen["evaluations"][ref] # None
    <3>1. PICK ref \in refs : \/ node.id = Id("evaluation_record", ref) /\ seen["evaluations"][ref] # None
                              \/ node.id = Id("continuity_receipt", ref) /\ seen["receipts"][ref] # None
      BY <2>0, OutcomeNodes
    <3>2. node.id = Id("evaluation_record", ref) /\ seen["evaluations"][ref] # None
      BY <2>0, <3>1 DEF Id
    <3> QED
      BY <3>2
  <2>2. Edge("evaluates", Id("evaluation_record", ref), Id("action_commitment", ref)) \in ArtifactEdges(ref, seen)
    BY <2>1 DEF ArtifactEdges
  <2>3. node.id.of = ref
    BY <2>1 DEF Id
  <2> QED
    BY <2>1, <2>2, <2>3, InGraph
<1>2. ASSUME ByOutcome(filter), NEW node \in Of(view, "continuity_receipt")
      PROVE  Edge("attests_evaluation", node.id, Id("evaluation_record", node.id.of)) \in view.edges
  <2>0. node \in view.nodes /\ node.id.type = "continuity_receipt"
    BY <1>2 DEF Of
  <2>1. PICK ref \in refs : node.id = Id("continuity_receipt", ref) /\ seen["receipts"][ref] # None
    <3>1. PICK ref \in refs : \/ node.id = Id("evaluation_record", ref) /\ seen["evaluations"][ref] # None
                              \/ node.id = Id("continuity_receipt", ref) /\ seen["receipts"][ref] # None
      BY <2>0, OutcomeNodes
    <3>2. node.id = Id("continuity_receipt", ref) /\ seen["receipts"][ref] # None
      BY <2>0, <3>1 DEF Id
    <3> QED
      BY <3>2
  <2>2. Edge("attests_evaluation", Id("continuity_receipt", ref), Id("evaluation_record", ref)) \in ArtifactEdges(ref, seen)
    BY <1>2, <2>1 DEF ArtifactEdges
  <2>3. node.id.of = ref
    BY <2>1 DEF Id
  <2> QED
    BY <2>1, <2>2, <2>3, InGraph
<1> QED
  BY <1>1, <1>2

-----------------------------------------------------------------------------
(* A step of the service only adds to what was read.                       *)
LEMMA ServiceStep ==
    ASSUME ComposedInv, [Next]_vars, UNCHANGED graphVars
    PROVE  ComposedInv'
<1>1. RegisterInv'
  BY NextRegisters DEF ComposedInv
<1>2. \A s \in Stores : Stored(s) \subseteq Stored(s)'
  BY RecordsAreKept DEF ComposedInv, RegisterInv
<1>3. extractor' = extractor /\ graph' = graph
  BY DEF graphVars
<1>4. \A seen : StoredSeen(seen) => StoredSeen(seen)'
  BY <1>2 DEF StoredSeen
<1>5. \A filter, refs : Selected(filter, refs) => Selected(filter, refs)'
  BY <1>2 DEF Selected, FoundAt, Stores
<1>6. ExtractorInv'
  BY <1>3, <1>4, <1>5 DEF ComposedInv, ExtractorInv
<1>7. GraphInv'
  BY <1>3, <1>4 DEF ComposedInv, GraphInv
<1>8. ArtifactsAreLinked'
  BY <1>3 DEF ComposedInv, ArtifactsAreLinked, Of
<1> QED
  BY <1>1, <1>6, <1>7, <1>8 DEF ComposedInv

(* Nothing read yet.                                                       *)
LEMMA UnreadIsStored == StoredSeen(Unread)
BY DEF StoredSeen, Unread, Nothing

(* A step that leaves the ledgers and the graph alone.                     *)
LEMMA ExtractorStep ==
    ASSUME ComposedInv, UNCHANGED vars, graph' = graph \/ graph' = None, ExtractorInv'
    PROVE  ComposedInv'
<1>1. RegisterInv'
  BY NextRegisters DEF ComposedInv
<1>2. \A seen : StoredSeen(seen) => StoredSeen(seen)'
  BY DEF vars, StoredSeen, Stored
<1>3. GraphInv'
  BY <1>2 DEF ComposedInv, GraphInv
<1>4. ArtifactsAreLinked'
  BY DEF ComposedInv, ArtifactsAreLinked, Of
<1> QED
  BY <1>1, <1>3, <1>4 DEF ComposedInv

LEMMA ReadStep ==
    ASSUME ComposedInv, ReadLedger, UNCHANGED vars
    PROVE  ExtractorInv'
<1> DEFINE n == extractor.next
           s == ReadOrder[n]
           seen == extractor.seen
           loaded == LoadLedger(seen, s)
<1>1. n \in 1 .. 3 /\ StoredSeen(seen)
  BY DEF ReadLedger, ComposedInv, ExtractorInv
<1>2. s \in Stores /\ (n = 1 => s = "commitments") /\ (n = 2 => s = "evaluations") /\ (n = 3 => s = "receipts")
  BY <1>1 DEF ReadOrder, Stores
<1>3. /\ StoredSeen(loaded)
      /\ \A ref \in Refs : FoundAt(s, ref) => loaded[s][ref] # None
      /\ \A t \in Stores \ {s} : loaded[t] = seen[t]
  BY <1>1, <1>2, LoadIsStored DEF ComposedInv, RegisterInv, IInv
<1>4. /\ extractor'.phase = "reading"
      /\ extractor'.seen = loaded
      /\ extractor'.next = n + 1
      /\ extractor'.refs = extractor.refs
      /\ extractor'.filter = extractor.filter
  BY DEF ReadLedger
<1>5. StoredSeen(extractor.seen)'
  <2>1. PICK x : x = loaded
    OBVIOUS
  <2>2. StoredSeen(x)'
    BY <1>3, <2>1 DEF vars, StoredSeen, Stored
  <2> QED
    BY <1>4, <2>1, <2>2 DEF StoredSeen
<1>6. ASSUME extractor.refs # None
      PROVE  /\ Selected(extractor.filter, extractor.refs)'
             /\ \A ref \in extractor.refs : loaded["commitments"][ref] # None
             /\ n + 1 > 2 /\ ByOutcome(extractor.filter) =>
                    \A ref \in extractor.refs : loaded["evaluations"][ref] # None
  <2>1. Selected(extractor.filter, extractor.refs)
    BY <1>6 DEF ReadLedger, ComposedInv, ExtractorInv
  <2>2. Selected(extractor.filter, extractor.refs)'
    BY <1>4, <2>1 DEF vars, Selected, FoundAt, Stored
  <2>3. ASSUME NEW ref \in extractor.refs PROVE loaded["commitments"][ref] # None
    <3>1. CASE n = 1
      BY <1>2, <1>3, <2>1, <3>1 DEF Selected
    <3>2. CASE n > 1
      <4>1. seen["commitments"][ref] # None /\ s # "commitments"
        BY <1>1, <1>2, <1>6, <3>2 DEF ReadLedger, ComposedInv, ExtractorInv
      <4> QED
        BY <1>3, <4>1 DEF Stores
    <3> QED
      BY <1>1, <3>1, <3>2
  <2>4. ASSUME n + 1 > 2, ByOutcome(extractor.filter), NEW ref \in extractor.refs
        PROVE  loaded["evaluations"][ref] # None
    <3>1. CASE n = 2
      BY <1>2, <1>3, <2>1, <2>4, <3>1 DEF Selected
    <3>2. CASE n > 2
      <4>1. seen["evaluations"][ref] # None /\ s # "evaluations"
        BY <1>1, <1>2, <1>6, <2>4, <3>2 DEF ReadLedger, ComposedInv, ExtractorInv
      <4> QED
        BY <1>3, <4>1 DEF Stores
    <3> QED
      BY <1>1, <2>4, <3>1, <3>2
  <2> QED
    BY <2>2, <2>3, <2>4
<1>7. n + 1 \in 1 .. 4
  BY <1>1
<1> QED
  BY <1>4, <1>5, <1>6, <1>7 DEF ExtractorInv, Selected, FoundAt, Stored, StoredSeen

LEMMA ResolveStep ==
    ASSUME ComposedInv, NEW filter \in Filters, ResolveFilter(filter), UNCHANGED vars
    PROVE  ExtractorInv'
<1> DEFINE refs == ResolveActionRefs(filter, extractor.seen)
<1>1. StoredSeen(extractor.seen)
  BY DEF ResolveFilter, ComposedInv, ExtractorInv
<1>2. Selected(filter.by, refs)
  BY <1>1, ResolvedIsStored DEF ComposedInv, RegisterInv
<1>3. /\ extractor'.phase = "reading" /\ extractor'.next = 1 /\ extractor'.seen = Unread
      /\ extractor'.filter = filter.by /\ extractor'.refs = refs
  BY DEF ResolveFilter, Reading
<1>4. Selected(extractor.filter, extractor.refs)'
  BY <1>2, <1>3 DEF vars, Selected, FoundAt, Stored
<1>5. StoredSeen(extractor.seen)'
  BY <1>3, UnreadIsStored DEF vars, StoredSeen, Stored, Unread, Nothing
<1> QED
  BY <1>3, <1>4, <1>5 DEF ExtractorInv

LEMMA EmitStep ==
    ASSUME ComposedInv, EmitGraph, UNCHANGED vars
    PROVE  ComposedInv'
<1> DEFINE refs == extractor.refs
           seen == extractor.seen
           filter == extractor.filter
<1>1. /\ StoredSeen(seen) /\ Selected(filter, refs)
      /\ \A ref \in refs : seen["commitments"][ref] # None
      /\ ByOutcome(filter) => \A ref \in refs : seen["evaluations"][ref] # None
  BY DEF EmitGraph, ComposedInv, ExtractorInv
<1>2. extractor'.phase = "off" /\ graph'.filter = filter /\ graph'.view = BuildGraph(refs, seen)
  BY DEF EmitGraph, Off
<1>3. RegisterInv'
  BY NextRegisters DEF ComposedInv
<1>4. ExtractorInv'
  BY <1>2 DEF ExtractorInv
<1>5. GraphInv'
  <2>1. PICK x, y : x = refs /\ y = seen
    OBVIOUS
  <2>2. StoredSeen(y)'
    BY <1>1, <2>1 DEF vars, StoredSeen, Stored
  <2>3. x \in SUBSET Refs /\ graph'.view = BuildGraph(x, y)
    BY <1>1, <1>2, <2>1 DEF Selected
  <2> QED
    BY <2>2, <2>3 DEF GraphInv
<1>6. ArtifactsAreLinked'
  <2>1. /\ \A e \in Of(graph'.view, "evaluation_record") :
                Edge("evaluates", e.id, Id("action_commitment", e.id.of)) \in graph'.view.edges
        /\ ByOutcome(filter) =>
                \A r \in Of(graph'.view, "continuity_receipt") :
                    Edge("attests_evaluation", r.id, Id("evaluation_record", r.id.of)) \in graph'.view.edges
    BY <1>1, <1>2, BuiltIsLinked
  <2> QED
    BY <1>2, <2>1 DEF ArtifactsAreLinked, ByOutcome, Of
<1> QED
  BY <1>3, <1>4, <1>5, <1>6 DEF ComposedInv

LEMMA ComposedStep == ComposedInv /\ [ComposedNext]_<<vars, graphVars>> => ComposedInv'
<1> SUFFICES ASSUME ComposedInv, [ComposedNext]_<<vars, graphVars>> PROVE ComposedInv'
  OBVIOUS
<1>1. CASE [Next]_vars /\ UNCHANGED graphVars
  BY <1>1, ServiceStep
<1>2. CASE GraphNext /\ UNCHANGED vars
  <2>1. CASE Extract
    <3>1. graph' = None /\ extractor'.phase = "reading" /\ extractor'.next = 1
          /\ extractor'.seen = Unread /\ extractor'.refs = None
      BY <2>1 DEF Extract, Reading
    <3>2. StoredSeen(extractor.seen)'
      BY <3>1 DEF StoredSeen, Unread, Nothing
    <3>3. ExtractorInv'
      BY <3>1, <3>2 DEF ExtractorInv
    <3> QED
      BY <1>2, <3>1, <3>3, ExtractorStep
  <2>2. CASE ReadLedger
    BY <1>2, <2>2, ReadStep, ExtractorStep DEF ReadLedger
  <2>3. CASE \E filter \in Filters : ResolveFilter(filter)
    BY <1>2, <2>3, ResolveStep, ExtractorStep DEF ResolveFilter
  <2>4. CASE EmitGraph
    BY <1>2, <2>4, EmitStep
  <2> QED
    BY <1>2, <2>1, <2>2, <2>3, <2>4 DEF GraphNext
<1> QED
  BY <1>1, <1>2 DEF ComposedNext, vars, graphVars

LEMMA ComposedStart == ComposedInit => ComposedInv
BY InitRegisters DEF ComposedInit, GraphInit, Off, ComposedInv, ExtractorInv, GraphInv, ArtifactsAreLinked

LEMMA ComposedInductive == ComposedSpec => []ComposedInv
BY ComposedStart, ComposedStep, PTL DEF ComposedSpec

(* No evaluation is printed without the edge to its commitment, and under  *)
(* the filters that select by outcome no receipt without its evaluation    *)
(* (build_graph, resolve_action_refs).                                     *)
THEOREM NoUnlinkedEvaluation == ComposedSpec => []ArtifactsAreLinked
<1>1. ComposedInv => ArtifactsAreLinked
  BY DEF ComposedInv
<1> QED
  BY <1>1, ComposedInductive, PTL

-----------------------------------------------------------------------------
(* A stored evaluation gives its reason for its commitment, not its output.*)
LEMMA OneReason ==
    ASSUME IInv, NEW e \in Stored("evaluations"), NEW f \in Stored("evaluations"), e.ref = f.ref
    PROVE  e.reason = f.reason
<1>1. PICK c \in Stored("commitments") : c.ref = e.ref
  BY DEF IInv, SpecBinding
<1>2. c \in Commitments
  <2>1. \A i \in 1 .. Len(ledger["commitments"]) : ledger["commitments"][i] \in Commitments
    BY StoreRecords, ElementOfSeq DEF IInv, TypeOK, Stores
  <2> QED
    BY <1>1, <2>1 DEF Stored
<1>3. e = EvaluationOf(c, e.output) /\ f = EvaluationOf(c, f.output)
  BY <1>1, <1>2 DEF IInv, SpecBinding
<1>4. \A output : EvaluationOf(c, output).reason = BoundaryReason(c)
  BY DEF EvaluationOf
<1> QED
  BY <1>3, <1>4

(* Under an action_ref with a record the ledgers serve some record, and    *)
(* that very one unless it was contended for.                              *)
LEMMA StillServed ==
    ASSUME RegisterInv, NEW s \in Stores, NEW ref \in Refs, NEW value \in Stored(s), value.ref = ref
    PROVE  /\ Register(s)[ref] # None
           /\ Register(s)[ref] \in Stored(s) /\ Register(s)[ref].ref = ref
           /\ <<s, ref>> \notin contended => Register(s)[ref] = value
<1>2. Latest(ledger[s], ref) # None
  BY StoredIsFound DEF RegisterInv, IInv
<1>3. Latest(ledger[s], ref) \in Stored(s) /\ Latest(ledger[s], ref).ref = ref
  BY <1>2, LatestIsStored DEF RegisterInv, IInv
<1>4. Register(s)[ref] = Latest(ledger[s], ref)
  BY DEF Register
<1> QED
  BY <1>2, <1>3, <1>4 DEF RegisterInv, OneRecord

(* What the ledgers serve now.                                             *)
Served == [s \in Stores |-> Register(s)]

LEMMA EdgesStayTrue ==
    ASSUME RegisterInv, NEW seen, StoredSeen(seen), NEW ref \in Refs
    PROVE  /\ ValueEdges(ref, seen) \subseteq ValueEdges(ref, Served)
           /\ ArtifactEdges(ref, seen) \subseteq ArtifactEdges(ref, Served)
<1>1. ASSUME NEW s \in Stores, seen[s][ref] # None PROVE Served[s][ref] # None
  <2>1. Register(s)[ref] # None
    <3>1. PICK value \in Stored(s) : value.ref = ref
      BY <1>1 DEF StoredSeen
    <3> QED
      BY <3>1, StillServed
  <2> QED
    BY <2>1 DEF Served
<1>2. {"commitments", "evaluations", "receipts"} = Stores
  BY DEF Stores
<1>3. seen["evaluations"][ref] # None => seen["evaluations"][ref].reason = Served["evaluations"][ref].reason
  <2> SUFFICES ASSUME seen["evaluations"][ref] # None
               PROVE  seen["evaluations"][ref].reason = Served["evaluations"][ref].reason
    OBVIOUS
  <2>1. Served["evaluations"][ref] = Register("evaluations")[ref]
    BY <1>2 DEF Served
  <2>2. seen["evaluations"][ref] \in Stored("evaluations") /\ seen["evaluations"][ref].ref = ref
    BY <1>2 DEF StoredSeen
  <2>3. Register("evaluations")[ref] \in Stored("evaluations") /\ Register("evaluations")[ref].ref = ref
    BY <1>2, <2>2, StillServed
  <2> QED
    BY <2>1, <2>2, <2>3, OneReason DEF RegisterInv
<1>4. ValueEdges(ref, seen) \subseteq ValueEdges(ref, Served)
  <2> SUFFICES ASSUME NEW edge \in ValueEdges(ref, seen) PROVE edge \in ValueEdges(ref, Served)
    OBVIOUS
  <2>1. CASE edge \in {Edge("references", Id("action_commitment", ref), Id("action_ref", ref)) :
                            c \in {seen["commitments"][ref]} \ {None}}
    BY <1>1, <1>2, <2>1 DEF ValueEdges
  <2>2. CASE edge \in {Edge("has_reason_code", Id("evaluation_record", ref), Id("reason_code", e.reason)) :
                            e \in {e \in {seen["evaluations"][ref]} \ {None} : e.reason # None}}
    BY <1>1, <1>2, <1>3, <2>2 DEF ValueEdges
  <2>3. CASE edge \in {Edge("signed_by", Id("continuity_receipt", ref), Id("evaluator_identity", "configured")) :
                            r \in {seen["receipts"][ref]} \ {None}}
    BY <1>1, <1>2, <2>3 DEF ValueEdges
  <2> QED
    BY <2>1, <2>2, <2>3 DEF ValueEdges
<1>5. ArtifactEdges(ref, seen) \subseteq ArtifactEdges(ref, Served)
  BY <1>1, <1>2 DEF ArtifactEdges
<1> QED
  BY <1>4, <1>5

LEMMA NodesStayTrue ==
    ASSUME RegisterInv, NEW seen, StoredSeen(seen), NEW ref \in Refs, NEW node \in ArtifactNodes(ref, seen)
    PROVE  \/ node \in ArtifactNodes(ref, Served)
           \/ node.id.of = ref /\ \E s \in Stores : <<s, ref>> \in contended
<1>1. ASSUME NEW s \in Stores, seen[s][ref] # None
      PROVE  /\ Served[s][ref] # None
             /\ <<s, ref>> \notin contended => Served[s][ref] = seen[s][ref]
  <2>1. PICK value \in Stored(s) : value = seen[s][ref] /\ value.ref = ref
    BY <1>1 DEF StoredSeen
  <2>2. Register(s)[ref] # None /\ (<<s, ref>> \notin contended => Register(s)[ref] = value)
    BY <2>1, StillServed
  <2> QED
    BY <2>1, <2>2 DEF Served
<1>2. "commitments" \in Stores /\ "evaluations" \in Stores /\ "receipts" \in Stores
  BY DEF Stores
<1>3. CASE node \in {CommitmentNode(ref, c) : c \in {seen["commitments"][ref]} \ {None}}
  BY <1>1, <1>2, <1>3 DEF ArtifactNodes, CommitmentNode
<1>4. CASE node \in {EvaluationNode(ref, e) : e \in {seen["evaluations"][ref]} \ {None}}
  <2>1. seen["evaluations"][ref] # None /\ node = EvaluationNode(ref, seen["evaluations"][ref])
    BY <1>4
  <2>2. node.id.of = ref
    BY <2>1 DEF EvaluationNode, Id
  <2> QED
    BY <1>1, <1>2, <2>1, <2>2 DEF ArtifactNodes
<1>5. CASE node \in {ReceiptNode(ref, r) : r \in {seen["receipts"][ref]} \ {None}}
  <2>1. seen["receipts"][ref] # None /\ node = ReceiptNode(ref, seen["receipts"][ref])
    BY <1>5
  <2>2. node.id.of = ref
    BY <2>1 DEF ReceiptNode, Id
  <2> QED
    BY <1>1, <1>2, <2>1, <2>2 DEF ArtifactNodes
<1> QED
  BY <1>3, <1>4, <1>5 DEF ArtifactNodes

(* Six readings of growing ledgers add up to no graph that is not part of  *)
(* today's, except under an action_ref two requests wrote at once          *)
(* (_latest_by_action_ref, build_graph).                                   *)
THEOREM NothingPrintedIsWithdrawn == ComposedSpec => []GraphStaysTrue
<1>1. ComposedInv => GraphStaysTrue
  <2> SUFFICES ASSUME ComposedInv, graph # None
               PROVE  /\ graph.view.edges \subseteq Current.edges
                      /\ graph.view.nodes \ Current.nodes \subseteq
                            {node \in graph.view.nodes : \E s \in Stores : <<s, node.id.of>> \in contended}
    BY DEF GraphStaysTrue
  <2>0. PICK refs \in SUBSET Refs : \E seen : StoredSeen(seen) /\ graph.view = BuildGraph(refs, seen)
    BY DEF ComposedInv, GraphInv
  <2>1. PICK seen : StoredSeen(seen) /\ graph.view = BuildGraph(refs, seen)
    BY <2>0
  <2>2. Current = BuildGraph(Refs, Served)
    BY DEF Current, Served
  <2>3. \A ref \in Refs : /\ ValueEdges(ref, seen) \subseteq ValueEdges(ref, Served)
                          /\ ArtifactEdges(ref, seen) \subseteq ArtifactEdges(ref, Served)
    BY <2>1, EdgesStayTrue DEF ComposedInv
  <2>4. ASSUME NEW edge \in graph.view.edges PROVE edge \in Current.edges
    <3>1. PICK ref \in refs : edge \in ValueEdges(ref, seen) \/ edge \in ArtifactEdges(ref, seen)
      BY <2>1, <2>4, InGraph
    <3>2. edge \in ValueEdges(ref, Served) \/ edge \in ArtifactEdges(ref, Served)
      BY <2>3, <3>1
    <3> QED
      BY <2>2, <3>1, <3>2, InGraph
  <2>5. ASSUME NEW node \in graph.view.nodes, node \notin Current.nodes
        PROVE  \E s \in Stores : <<s, node.id.of>> \in contended
    <3>1. CASE \E ref \in refs : \E e \in ValueEdges(ref, seen) : node = Value(e.to.type, e.to.of)
      BY <2>2, <2>3, <2>5, <3>1, InGraph
    <3>2. CASE \E ref \in refs : node \in ArtifactNodes(ref, seen)
      <4>1. PICK ref \in refs : node \in ArtifactNodes(ref, seen)
        BY <3>2
      <4>2. node \notin ArtifactNodes(ref, Served)
        BY <2>2, <2>5, <4>1, InGraph
      <4> QED
        BY <2>1, <4>1, <4>2, NodesStayTrue DEF ComposedInv
    <3> QED
      BY <2>1, <2>5, <3>1, <3>2, InGraph
  <2> QED
    BY <2>4, <2>5
<1> QED
  BY <1>1, ComposedInductive, PTL
=============================================================================
