----------------------------- MODULE EvidenceGraph -----------------------------
(***************************************************************************)
(* The evidence graph extractor (evidence_graph_extractor.py), a read-only *)
(* program of its own beside the service of PathC.  It reads the three     *)
(* ledgers one after the other, first to find the action_refs its filter   *)
(* selects and once more to build the graph, while requests append to      *)
(* them: what it puts together need not have been there at one time.       *)
(***************************************************************************)
EXTENDS PathC

CONSTANT Filters    \* what an operator may ask for

FilterShape ==
    [by : {"all", "evaluator"}] \cup [by : {"action_ref"}, ref : Refs] \cup [by : {"reason"}, reason : STRING]

ASSUME FilterAssumption == Filters \subseteq FilterShape

VARIABLES
    extractor,      \* the run in progress: what it has read
    graph           \* the last graph printed, with its filter

graphVars == <<extractor, graph>>

ReadOrder == <<"commitments", "evaluations", "receipts">>

Nothing == [ref \in Refs |-> None]
Unread == [s \in Stores |-> Nothing]

Off == [phase |-> "off"]

(* _load_ledgers and _latest_by_action_ref, one ledger.                    *)
LoadLedger(seen, s) == [seen EXCEPT ![s] = Register(s)]

-----------------------------------------------------------------------------
(* resolve_action_refs.  Every receipt is signed by the one configured     *)
(* evaluator.                                                              *)
ResolveActionRefs(filter, seen) ==
    CASE filter.by = "evaluator"  -> {ref \in Refs : seen["receipts"][ref] # None}
      [] filter.by = "reason"     -> {ref \in Refs : /\ seen["evaluations"][ref] # None
                                                     /\ seen["evaluations"][ref].reason = filter.reason}
      [] filter.by = "action_ref" -> {ref \in {filter.ref} : \E s \in Stores : seen[s][ref] # None}
      [] OTHER                    -> {ref \in Refs : \E s \in Stores : seen[s][ref] # None}

(* Edges name nodes by their ids.                                          *)
Id(type, of) == [type |-> type, of |-> of]

CommitmentNode(ref, c) == [id |-> Id("action_commitment", ref), state |-> None, reason |-> None]
EvaluationNode(ref, e) == [id |-> Id("evaluation_record", ref), state |-> e.result, reason |-> e.reason]
ReceiptNode(ref, r) == [id |-> Id("continuity_receipt", ref), state |-> r.state, reason |-> r.reason]

Value(type, of) == [id |-> Id(type, of), state |-> None, reason |-> None]

Edge(type, from, to) == [type |-> type, from |-> from, to |-> to]

(* The artifacts of one action_ref, those the ledgers had.                 *)
ArtifactNodes(ref, seen) ==
    {CommitmentNode(ref, c) : c \in {seen["commitments"][ref]} \ {None}}
    \cup {EvaluationNode(ref, e) : e \in {seen["evaluations"][ref]} \ {None}}
    \cup {ReceiptNode(ref, r) : r \in {seen["receipts"][ref]} \ {None}}

(* Its edges to value nodes.                                               *)
ValueEdges(ref, seen) ==
    {Edge("references", Id("action_commitment", ref), Id("action_ref", ref)) :
        c \in {seen["commitments"][ref]} \ {None}}
    \cup {Edge("has_reason_code", Id("evaluation_record", ref), Id("reason_code", e.reason)) :
        e \in {e \in {seen["evaluations"][ref]} \ {None} : e.reason # None}}
    \cup {Edge("signed_by", Id("continuity_receipt", ref), Id("evaluator_identity", "configured")) :
        r \in {seen["receipts"][ref]} \ {None}}

(* Its edges between artifacts: both ends were found.                      *)
ArtifactEdges(ref, seen) ==
    {Edge("evaluates", Id("evaluation_record", ref), Id("action_commitment", ref)) :
        e \in {e \in {seen["evaluations"][ref]} : None \notin {e, seen["commitments"][ref]}}}
    \cup {Edge("attests_evaluation", Id("continuity_receipt", ref), Id("evaluation_record", ref)) :
        r \in {r \in {seen["receipts"][ref]} : None \notin {r, seen["evaluations"][ref]}}}

(* build_graph.                                                            *)
BuildGraph(refs, seen) ==
    LET values == UNION {ValueEdges(ref, seen) : ref \in refs} IN
    [nodes |-> (UNION {ArtifactNodes(ref, seen) : ref \in refs}) \cup {Value(e.to.type, e.to.of) : e \in values},
     edges |-> values \cup UNION {ArtifactEdges(ref, seen) : ref \in refs}]

-----------------------------------------------------------------------------
(* filter and refs are None until the filter is resolved; next is the      *)
(* position in ReadOrder.                                                  *)
Reading(filter, refs, seen, next) ==
    [phase |-> "reading", filter |-> filter, refs |-> refs, seen |-> seen, next |-> next]

GraphInit ==
    /\ extractor = Off
    /\ graph = None

(* The program starts.  Its filter is first looked at by ResolveFilter,    *)
(* which chooses it.                                                       *)
Extract ==
    /\ extractor = Off
    /\ extractor' = Reading(None, None, Unread, 1)
    /\ graph' = None

(* A ledger is read.  Filtering needs all three, and so does building.     *)
ReadLedger ==
    /\ extractor.phase = "reading"
    /\ extractor.next =< 3
    /\ extractor' = [extractor EXCEPT !.seen = LoadLedger(@, ReadOrder[extractor.next]), !.next = @ + 1]
    /\ UNCHANGED graph

(* Mutant: the graph is built from what the filter was resolved with.      *)
ResolveAndKeep(filter) ==
    /\ extractor.phase = "reading"
    /\ extractor.next = 4
    /\ extractor.refs = None
    /\ extractor' = [extractor EXCEPT !.filter = filter.by, !.refs = ResolveActionRefs(filter, extractor.seen)]
    /\ UNCHANGED graph

(* The filter is resolved, and build_graph reads the ledgers anew.         *)
ResolveFilter(filter) ==
    /\ extractor.phase = "reading"
    /\ extractor.next = 4
    /\ extractor.refs = None
    /\ extractor' = Reading(filter.by, ResolveActionRefs(filter, extractor.seen), Unread, 1)
    /\ UNCHANGED graph

EmitGraph ==
    /\ extractor.phase = "reading"
    /\ extractor.next = 4
    /\ extractor.refs # None
    /\ extractor' = Off
    /\ graph' = [filter |-> extractor.filter, view |-> BuildGraph(extractor.refs, extractor.seen)]

GraphNext ==
    \/ Extract
    \/ ReadLedger
    \/ \E filter \in Filters : ResolveFilter(filter)
    \/ EmitGraph

ComposedInit == Init /\ GraphInit

ComposedNext ==
    \/ Next /\ UNCHANGED graphVars
    \/ GraphNext /\ UNCHANGED vars

ComposedSpec == ComposedInit /\ [][ComposedNext]_<<vars, graphVars>>

-----------------------------------------------------------------------------
Of(view, type) == {node \in view.nodes : node.id.type = type}

(* An evaluation is never printed without the edge to the commitment it    *)
(* evaluated, although the commitments are read first: its action_ref was  *)
(* resolved by an earlier reading.  The same holds of a receipt and its    *)
(* evaluation where the filter is one that finds either of the two.        *)
ArtifactsAreLinked ==
    graph # None =>
        /\ \A e \in Of(graph.view, "evaluation_record") :
                Edge("evaluates", e.id, Id("action_commitment", e.id.of)) \in graph.view.edges
        /\ graph.filter \in {"evaluator", "reason"} =>
                \A r \in Of(graph.view, "continuity_receipt") :
                    Edge("attests_evaluation", r.id, Id("evaluation_record", r.id.of)) \in graph.view.edges

(* What a run put together from ledgers read at six moments is part of the *)
(* graph the ledgers give now, except under an action_ref two requests     *)
(* wrote at once: nothing printed is ever withdrawn                        *)
(* (_latest_by_action_ref).                                                *)
Current == BuildGraph(Refs, [s \in Stores |-> Register(s)])

GraphStaysTrue ==
    graph # None =>
        /\ graph.view.edges \subseteq Current.edges
        /\ graph.view.nodes \ Current.nodes \subseteq
                {node \in graph.view.nodes : \E s \in Stores : <<s, node.id.of>> \in contended}
=============================================================================
