---------------------------- MODULE AttestSession ----------------------------
(***************************************************************************)
(* The attestation surface of attest_service.py: /v1/attest in one call,   *)
(* or /v1/attest/begin and /v1/attest/complete around a session.  Each     *)
(* handler calls continuity-analyzer or settlement-witness over HTTP, and  *)
(* then appends to the session, chain and receipt ledgers one record at a  *)
(* time.  Handlers run in a thread pool; complete decides on a session     *)
(* record it read before its HTTP call.                                    *)
(*                                                                         *)
(* Payloads, receipt contexts and external provenance are left out: the    *)
(* handlers copy them.                                                     *)
(***************************************************************************)
EXTENDS Integers, Sequences, FiniteSets

CONSTANTS
    None,
    Workers,
    Sessions,           \* session ids uuid4 may draw
    ContinuityIds,      \* receipt ids continuity-analyzer may issue
    SarIds,             \* receipt ids settlement-witness may issue
    MaxFaults          \* bound on restarts of the process and failed appends

ASSUME IdAssumption ==
    /\ None \notin Sessions
    /\ None \notin ContinuityIds \X SarIds
    /\ MaxFaults \in Nat

Anonymous == "anonymous_untrusted"
Internal == "trusted_internal"

(* What classify_submission_provenance can answer.                         *)
CallerClasses == {Anonymous, Internal}

(* authenticated_claim and independently_verified are never written here.  *)
TrustedClasses == {Internal}

VARIABLES
    sessions,   \* per session id, the records appended for it, in order
    chains,     \* records of the chain ledger
    receipts,   \* records of the receipt ledger
    worker,     \* per worker, the request it serves
    issued,     \* receipt ids the two services issued, and session ids drawn
    overlapped, \* history: sessions two requests were completing at once
    abandoned,  \* history: complete sessions whose request was cut off
                \*          before their chain
    faults

vars == <<sessions, chains, receipts, worker, issued, overlapped, abandoned, faults>>

Idle == [phase |-> "idle"]

(* latest_session: the last record appended for the session.               *)
Latest(sid) == sessions[sid][Len(sessions[sid])]

-----------------------------------------------------------------------------
(* Records, as the handlers append them.  A chain_id is the digest of its  *)
(* two receipt ids, and stands for the pair.                               *)
ChainId(cont, sar) == <<cont, sar>>

SessionWrite(sid, status, cont, prov) ==
    [to |-> "sessions", key |-> sid, record |-> [status |-> status, cont |-> cont, prov |-> prov]]

ChainWrite(cont, sar, prov) == [to |-> "chains", record |-> [chain |-> ChainId(cont, sar), prov |-> prov]]

ReceiptWrite(id, chain, prov) == [to |-> "receipts", record |-> [id |-> id, chain |-> chain, prov |-> prov]]

(* Mutant: the class of whoever completes the session decides.             *)
CompletedAsCompleter(begun, completer) == completer

(* A session written before the field existed has provenance None, which   *)
(* counts as untrusted.  The completer can lower the class, not raise it.  *)
CompletedProvenance(begun, completer) ==
    IF begun \in TrustedClasses /\ completer \in TrustedClasses THEN completer ELSE Anonymous

SyncWrites(cont, sar, prov) ==
    <<ChainWrite(cont, sar, prov),
      ReceiptWrite(cont, ChainId(cont, sar), prov),
      ReceiptWrite(sar, ChainId(cont, sar), prov)>>

BeginWrites(sid, cont, prov) ==
    <<SessionWrite(sid, "pending", cont, prov), ReceiptWrite(cont, None, prov)>>

(* Mutants: the SAR receipt goes out before its chain; the chain is        *)
(* forgotten.                                                              *)
CompleteWritesReceiptFirst(sid, cont, sar, prov) ==
    <<SessionWrite(sid, "complete", cont, prov),
      ReceiptWrite(sar, ChainId(cont, sar), prov),
      ChainWrite(cont, sar, prov)>>

CompleteWritesNoChain(sid, cont, sar, prov) ==
    <<SessionWrite(sid, "complete", cont, prov), ReceiptWrite(sar, ChainId(cont, sar), prov)>>

CompleteWrites(sid, cont, sar, prov) ==
    <<SessionWrite(sid, "complete", cont, prov),
      ChainWrite(cont, sar, prov),
      ReceiptWrite(sar, ChainId(cont, sar), prov)>>

-----------------------------------------------------------------------------
LegacySession(cont) == [status |-> "pending", cont |-> cont, prov |-> None]

(* One session may be left from before provenance was recorded.            *)
Init ==
    /\ \E old \in Sessions \cup {None}, cont \in ContinuityIds :
        /\ sessions = [sid \in Sessions |-> IF sid = old THEN <<LegacySession(cont)>> ELSE <<>>]
        /\ issued = IF old = None THEN {} ELSE {old, cont}
    /\ chains = {}
    /\ receipts = {}
    /\ worker = [w \in Workers |-> Idle]
    /\ overlapped = {}
    /\ abandoned = {}
    /\ faults = 0

Become(w, state) ==
    /\ worker' = [worker EXCEPT ![w] = state]
    /\ UNCHANGED <<sessions, chains, receipts>>

Writing(todo) == [phase |-> "writing", todo |-> todo]

(* A completion is under way until its session record is on the ledger.    *)
Completing(sid) ==
    {w \in Workers : \/ worker[w].phase = "sar" /\ worker[w].kind = "complete" /\ worker[w].sid = sid
                     \/ /\ worker[w].phase = "writing"
                        /\ Head(worker[w].todo).to = "sessions" /\ Head(worker[w].todo).key = sid}

(* POST /v1/attest and POST /v1/attest/begin: classify, then post the      *)
(* continuity input.                                                       *)
Attest(w, prov) ==
    /\ worker[w].phase = "idle"
    /\ Become(w, [phase |-> "continuity", kind |-> "sync", prov |-> prov])
    /\ UNCHANGED <<issued, overlapped, abandoned, faults>>

Begin(w, prov) ==
    /\ worker[w].phase = "idle"
    /\ Become(w, [phase |-> "continuity", kind |-> "begin", prov |-> prov])
    /\ UNCHANGED <<issued, overlapped, abandoned, faults>>

(* Mutant: a complete session may be completed again.                      *)
CompleteAgain(w, sid, completer) ==
    /\ worker[w].phase = "idle"
    /\ sessions[sid] # <<>>
    /\ LET session == Latest(sid) IN
        Become(w, [phase |-> "sar", kind |-> "complete", sid |-> sid, cont |-> session.cont,
                   prov |-> CompletedProvenance(session.prov, completer)])
    /\ overlapped' = IF Completing(sid) = {} THEN overlapped ELSE overlapped \cup {sid}
    /\ UNCHANGED <<issued, abandoned, faults>>

(* POST /v1/attest/complete: 404 without a session, 409 on a complete one. *)
Complete(w, sid, completer) ==
    /\ worker[w].phase = "idle"
    /\ sessions[sid] # <<>>
    /\ LET session == Latest(sid) IN
        /\ session.status # "complete"
        /\ Become(w, [phase |-> "sar", kind |-> "complete", sid |-> sid, cont |-> session.cont,
                      prov |-> CompletedProvenance(session.prov, completer)])
    /\ overlapped' = IF Completing(sid) = {} THEN overlapped ELSE overlapped \cup {sid}
    /\ UNCHANGED <<issued, abandoned, faults>>

ContinuityAnswered(w, cont) ==
    /\ worker[w].phase = "continuity"
    /\ cont \notin issued
    /\ \/ /\ worker[w].kind = "sync"
          /\ Become(w, [phase |-> "sar", kind |-> "sync", cont |-> cont, prov |-> worker[w].prov])
          /\ issued' = issued \cup {cont}
       \/ /\ worker[w].kind = "begin"
          /\ \E sid \in Sessions \ issued :
                /\ Become(w, Writing(BeginWrites(sid, cont, worker[w].prov)))
                /\ issued' = issued \cup {cont, sid}
    /\ UNCHANGED <<overlapped, abandoned, faults>>

SarAnswered(w, sar) ==
    /\ worker[w].phase = "sar"
    /\ sar \notin issued
    /\ issued' = issued \cup {sar}
    /\ Become(w, Writing(IF worker[w].kind = "sync"
                         THEN SyncWrites(worker[w].cont, sar, worker[w].prov)
                         ELSE CompleteWrites(worker[w].sid, worker[w].cont, sar, worker[w].prov)))
    /\ UNCHANGED <<overlapped, abandoned, faults>>

(* A service refuses, times out or answers without a receipt_id: the       *)
(* request ends with 502 and nothing was written.                          *)
CallFails(w) ==
    /\ worker[w].phase \in {"continuity", "sar"}
    /\ Become(w, Idle)
    /\ UNCHANGED <<issued, overlapped, abandoned, faults>>

(* append_jsonl, once per record, in the handler's order.                  *)
Write(w) ==
    /\ worker[w].phase = "writing"
    /\ LET write == Head(worker[w].todo)
           rest == Tail(worker[w].todo)
       IN  /\ worker' = [worker EXCEPT ![w] = IF rest = <<>> THEN Idle ELSE Writing(rest)]
           /\ sessions' = IF write.to = "sessions"
                          THEN [sessions EXCEPT ![write.key] = Append(@, write.record)]
                          ELSE sessions
           /\ chains' = IF write.to = "chains" THEN chains \cup {write.record} ELSE chains
           /\ receipts' = IF write.to = "receipts" THEN receipts \cup {write.record} ELSE receipts
    /\ UNCHANGED <<issued, overlapped, abandoned, faults>>

(* The session whose chain w is about to append.                           *)
Unchained(w) ==
    {sid \in Sessions :
        /\ worker[w].phase = "writing" /\ Head(worker[w].todo).to = "chains"
        /\ sessions[sid] # <<>>
        /\ Head(worker[w].todo).record.chain[1] = Latest(sid).cont}

(* append_jsonl raises (a full disk, a character that does not encode):    *)
(* 500, and the appends still to come are never made.  That the record is  *)
(* in the file although its append raised is a Write before this step; a   *)
(* torn line is JsonlLedger's concern.                                     *)
WriteFails(w) ==
    /\ worker[w].phase = "writing"
    /\ faults < MaxFaults
    /\ faults' = faults + 1
    /\ Become(w, Idle)
    /\ abandoned' = abandoned \cup Unchained(w)
    /\ UNCHANGED <<issued, overlapped>>

(* The process dies and systemd restarts it: requests are lost.            *)
Crash ==
    /\ faults < MaxFaults
    /\ faults' = faults + 1
    /\ worker' = [w \in Workers |-> Idle]
    /\ abandoned' = abandoned \cup UNION {Unchained(w) : w \in Workers}
    /\ UNCHANGED <<sessions, chains, receipts, issued, overlapped>>

Step(w) ==
    \/ \E prov \in CallerClasses : Attest(w, prov)
    \/ \E prov \in CallerClasses : Begin(w, prov)
    \/ \E sid \in Sessions, prov \in CallerClasses : Complete(w, sid, prov)
    \/ \E cont \in ContinuityIds : ContinuityAnswered(w, cont)
    \/ \E sar \in SarIds : SarAnswered(w, sar)
    \/ CallFails(w)
    \/ Write(w)
    \/ WriteFails(w)

Next ==
    \/ \E w \in Workers : Step(w)
    \/ Crash

Spec == Init /\ [][Next]_vars

(* A thread with appends left waits for nothing but the file lock, which   *)
(* every holder releases: it makes its next append, or that append fails.  *)
FairSpec == Spec /\ \A w \in Workers : WF_vars(Write(w) \/ WriteFails(w))

-----------------------------------------------------------------------------
Provenances == CallerClasses \cup {None}

Chains == [chain : ContinuityIds \X SarIds, prov : CallerClasses]

Receipts ==
    [id : ContinuityIds \cup SarIds, chain : (ContinuityIds \X SarIds) \cup {None}, prov : CallerClasses]

SessionRecords == [status : {"pending", "complete"}, cont : ContinuityIds, prov : Provenances]

Writes ==
    [to : {"sessions"}, key : Sessions, record : SessionRecords]
    \cup [to : {"chains"}, record : Chains]
    \cup [to : {"receipts"}, record : Receipts]

Requests ==
    {Idle}
    \cup [phase : {"continuity"}, kind : {"sync", "begin"}, prov : CallerClasses]
    \cup [phase : {"sar"}, kind : {"sync"}, cont : ContinuityIds, prov : CallerClasses]
    \cup [phase : {"sar"}, kind : {"complete"}, sid : Sessions, cont : ContinuityIds, prov : CallerClasses]
    \cup [phase : {"writing"}, todo : Seq(Writes) \ {<<>>}]

(* Ledgers hold records of their kind and requests carry their fields.     *)
TypeOK ==
    /\ sessions \in [Sessions -> Seq(SessionRecords)]
    /\ chains \subseteq Chains
    /\ receipts \subseteq Receipts
    /\ worker \in [Workers -> Requests]
    /\ issued \subseteq ContinuityIds \cup SarIds \cup Sessions
    /\ overlapped \subseteq Sessions
    /\ abandoned \subseteq Sessions
    /\ faults \in 0 .. MaxFaults

ChainsOf(sid) ==
    {c \in chains : \E i \in DOMAIN sessions[sid] : c.chain[1] = sessions[sid][i].cont}

(* A session begun without a trusted class never yields trusted evidence,  *)
(* and whoever completes it, no chain or SAR receipt of it is more trusted *)
(* than its begin record (complete, comment on begin_provenance).          *)
NeverMoreTrustedThanBegun ==
    \A sid \in Sessions :
        sessions[sid] # <<>> /\ sessions[sid][1].prov \notin TrustedClasses =>
            /\ \A c \in ChainsOf(sid) : c.prov \notin TrustedClasses
            /\ \A r \in receipts : r.chain \in {c.chain : c \in ChainsOf(sid)} => r.prov \notin TrustedClasses

(* A receipt that names a chain is only ever on the ledger with that chain, *)
(* recorded under the same provenance class.                               *)
ReceiptsNameRecordedChains ==
    \A r \in receipts : r.chain # None =>
        \E c \in chains : c.chain = r.chain /\ c.prov = r.prov

(* A session has at most one chain, restarts included, unless two requests *)
(* were completing it at once: complete answers 409 once it is complete.   *)
OneChainPerSession ==
    \A sid \in Sessions \ overlapped : Cardinality(ChainsOf(sid)) =< 1

ClassNeverRises(sid) ==
    \A i, j \in DOMAIN sessions[sid] :
        i < j /\ sessions[sid][j].prov \in TrustedClasses => sessions[sid][i].prov \in TrustedClasses

(* Either write path can only make the session's record less trusted, never *)
(* more (complete, comment on begin_provenance), whatever its completer is *)
(* and whatever else is interleaved, as long as no two requests are        *)
(* completing it at once.                                                  *)
RecordNeverMoreTrustedAlone == \A sid \in Sessions \ overlapped : ClassNeverRises(sid)

IsComplete(sid) == sessions[sid] # <<>> /\ Latest(sid).status = "complete"

(* A session that is recorded complete gets its chain record, unless the   *)
(* very request that was to append it died with the process, or its append *)
(* failed (complete).  Nothing that happens to other requests, or happened *)
(* earlier, excuses it.                                                    *)
CompleteSessionsAreChained ==
    \A sid \in Sessions : IsComplete(sid) ~> (ChainsOf(sid) # {} \/ sid \in abandoned)
=============================================================================
