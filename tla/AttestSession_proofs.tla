-------------------------- MODULE AttestSession_proofs --------------------------
(***************************************************************************)
(* A session begun by an untrusted caller never yields trusted evidence,   *)
(* and a receipt never names a chain that is not recorded: for every pool  *)
(* of workers, every set of sessions and ids, every interleaving, every    *)
(* restart and every failed append.  The strengthening follows a           *)
(* continuity receipt id.  It is drawn once, by a session or by a          *)
(* synchronous attestation; whoever may still record a chain over it has a *)
(* claim to it, and a claim to the id of an untrusted session has no       *)
(* trusted class.                                                          *)
(***************************************************************************)
EXTENDS AttestSession, SequenceTheorems, FiniteSetTheorems, TLAPS

(* What a request x may still record.                                      *)
Claims(x, cont, prov) ==
    \/ x.phase = "sar" /\ x.cont = cont /\ x.prov = prov
    \/ /\ x.phase = "writing"
       /\ \E i \in 1 .. Len(x.todo) : /\ x.todo[i].to = "chains"
                                      /\ x.todo[i].record.chain[1] = cont
                                      /\ x.todo[i].record.prov = prov
    \/ /\ x.phase = "writing" /\ x.todo[1].to = "sessions"
       /\ x.todo[1].record.status = "complete"
       /\ x.todo[1].record.cont = cont /\ x.todo[1].record.prov = prov

Begins(x, sid, cont) ==
    /\ x.phase = "writing" /\ x.todo[1].to = "sessions"
    /\ x.todo[1].record.status = "pending"
    /\ x.todo[1].key = sid /\ x.todo[1].record.cont = cont

Completes(x, sid, cont) ==
    \/ x.phase = "sar" /\ x.kind = "complete" /\ x.sid = sid /\ x.cont = cont
    \/ /\ x.phase = "writing" /\ x.todo[1].to = "sessions"
       /\ x.todo[1].record.status = "complete"
       /\ x.todo[1].key = sid /\ x.todo[1].record.cont = cont

HasCont(sid, cont) == sessions[sid] # <<>> /\ sessions[sid][1].cont = cont
Untrusted(sid) == sessions[sid][1].prov \notin TrustedClasses

(* A session is written first, and a chain before the receipts naming it.  *)
SessionFirst(x) ==
    x.phase = "writing" => \A i \in 2 .. Len(x.todo) : x.todo[i].to # "sessions"

Recorded(receipt, known) == \E c \in known : c.chain = receipt.chain /\ c.prov = receipt.prov

ChainFirst(x, known) ==
    x.phase = "writing" => \A i \in 1 .. Len(x.todo) :
        x.todo[i].to = "receipts" /\ x.todo[i].record.chain # None =>
            \/ Recorded(x.todo[i].record, known)
            \/ \E j \in 1 .. i - 1 : /\ x.todo[j].to = "chains"
                                     /\ x.todo[j].record.chain = x.todo[i].record.chain
                                     /\ x.todo[j].record.prov = x.todo[i].record.prov

WritesInOrder == \A w \in Workers : SessionFirst(worker[w]) /\ ChainFirst(worker[w], chains)

(* All records of a session are over one id; two sessions have two.        *)
SessionsAgree ==
    /\ \A sid \in Sessions : \A i \in 1 .. Len(sessions[sid]) :
        /\ sessions[sid][i].cont = sessions[sid][1].cont
        /\ Untrusted(sid) => sessions[sid][i].prov \notin TrustedClasses
    /\ \A s, t \in Sessions : \A cont \in ContinuityIds : HasCont(s, cont) /\ HasCont(t, cont) => s = t

UsedIsIssued ==
    /\ \A sid \in Sessions : \A cont \in ContinuityIds : HasCont(sid, cont) => {sid, cont} \subseteq issued
    /\ \A c \in chains : c.chain[1] \in issued
    /\ \A w \in Workers : \A cont \in ContinuityIds :
        /\ \A prov \in CallerClasses : Claims(worker[w], cont, prov) => cont \in issued
        /\ \A sid \in Sessions : Begins(worker[w], sid, cont) => {sid, cont} \subseteq issued

(* Who begins a session has its ids to itself.                             *)
BeginsAlone ==
    /\ \A w \in Workers : \A sid \in Sessions : \A cont \in ContinuityIds :
        Begins(worker[w], sid, cont) =>
            /\ sessions[sid] = <<>>
            /\ \A s \in Sessions : ~HasCont(s, cont)
            /\ \A c \in chains : c.chain[1] # cont
            /\ \A v \in Workers : \A prov \in CallerClasses : ~Claims(worker[v], cont, prov)
    /\ \A v, w \in Workers : \A s, t \in Sessions : \A c, d \in ContinuityIds :
        Begins(worker[v], s, c) /\ Begins(worker[w], t, d) /\ (s = t \/ c = d) => v = w

CompletesOwn ==
    \A w \in Workers : \A sid \in Sessions : \A cont \in ContinuityIds :
        Completes(worker[w], sid, cont) => HasCont(sid, cont)

UntrustedStays ==
    \A sid \in Sessions : \A cont \in ContinuityIds :
        HasCont(sid, cont) /\ Untrusted(sid) =>
            /\ \A c \in chains : c.chain[1] = cont => c.prov \notin TrustedClasses
            /\ \A w \in Workers : \A prov \in CallerClasses :
                Claims(worker[w], cont, prov) => prov \notin TrustedClasses

IInv ==
    /\ TypeOK
    /\ WritesInOrder
    /\ SessionsAgree
    /\ UsedIsIssued
    /\ BeginsAlone
    /\ CompletesOwn
    /\ UntrustedStays
    /\ ReceiptsNameRecordedChains

-----------------------------------------------------------------------------
LEMMA RequestFields ==
    ASSUME NEW x \in Requests
    PROVE  /\ x.phase \in {"idle", "continuity", "sar", "writing"}
           /\ x.phase \in {"continuity", "sar"} => x.prov \in CallerClasses
           /\ x.phase = "continuity" => x.kind \in {"sync", "begin"}
           /\ x.phase = "sar" => x.cont \in ContinuityIds /\ x.kind \in {"sync", "complete"}
           /\ x.phase = "sar" /\ x.kind = "complete" => x.sid \in Sessions
           /\ x.phase = "writing" => x.todo \in Seq(Writes) /\ x.todo # <<>>
BY DEF Requests, Idle

LEMMA IdleRequest == Idle \in Requests /\ Idle.phase = "idle"
BY DEF Requests, Idle

(* A session that is on the ledger has an id, and both are issued.         *)
LEMMA SessionStored ==
    ASSUME IInv, NEW sid \in Sessions, sessions[sid] # <<>>
    PROVE  /\ Len(sessions[sid]) \in Nat /\ Len(sessions[sid]) > 0
           /\ sessions[sid][1] \in SessionRecords
           /\ HasCont(sid, sessions[sid][1].cont)
           /\ sid \in issued
<1>1. sessions[sid] \in Seq(SessionRecords)
  BY DEF IInv, TypeOK
<1>2. Len(sessions[sid]) \in Nat /\ Len(sessions[sid]) > 0
  BY <1>1, EmptySeq, LenProperties
<1>3. sessions[sid][1] \in SessionRecords
  BY <1>1, <1>2, ElementOfSeq
<1>4. sessions[sid][1].cont \in ContinuityIds
  BY <1>3 DEF SessionRecords
<1>5. HasCont(sid, sessions[sid][1].cont)
  BY DEF HasCont
<1> QED
  BY <1>2, <1>3, <1>4, <1>5 DEF IInv, UsedIsIssued

(* What a request may still record, seen from the next state.              *)
LEMMA NextClaims ==
    \A w :
        /\ \A cont, prov : Claims(worker[w], cont, prov)' <=> Claims(worker'[w], cont, prov)
        /\ \A sid, cont : Begins(worker[w], sid, cont)' <=> Begins(worker'[w], sid, cont)
        /\ \A sid, cont : Completes(worker[w], sid, cont)' <=> Completes(worker'[w], sid, cont)
BY DEF Claims, Begins, Completes

(* A step of one request that appends nothing: it keeps its claims, draws  *)
(* an id or takes over the claim of a session.                             *)
LEMMA BecomeStep ==
    ASSUME IInv, NEW w \in Workers, NEW x \in Requests, Become(w, x),
           issued \subseteq issued', issued' \subseteq ContinuityIds \cup SarIds \cup Sessions,
           overlapped' \subseteq Sessions, abandoned' \subseteq Sessions, faults' \in 0 .. MaxFaults,
           SessionFirst(x), ChainFirst(x, chains),
           \A cont \in ContinuityIds : \A prov \in CallerClasses :
                Claims(x, cont, prov) =>
                    \/ Claims(worker[w], cont, prov)
                    \/ cont \notin issued /\ cont \in issued'
                    \/ \E sid \in Sessions :
                            HasCont(sid, cont) /\ (Untrusted(sid) => prov \notin TrustedClasses),
           \A sid \in Sessions : \A cont \in ContinuityIds :
                Begins(x, sid, cont) => sid \notin issued /\ cont \notin issued /\ {sid, cont} \subseteq issued',
           \A sid \in Sessions : \A cont \in ContinuityIds : \A c \in ContinuityIds : \A prov \in CallerClasses :
                Begins(x, sid, cont) => ~Claims(x, c, prov),
           \A sid \in Sessions : \A cont \in ContinuityIds : Completes(x, sid, cont) => HasCont(sid, cont)
    PROVE  IInv'
<1>1. /\ sessions' = sessions /\ chains' = chains /\ receipts' = receipts
      /\ worker' = [worker EXCEPT ![w] = x]
  BY DEF Become
<1>2. /\ worker' \in [Workers -> Requests]
      /\ worker'[w] = x
      /\ \A v \in Workers : v # w => worker'[v] = worker[v]
  BY <1>1 DEF IInv, TypeOK
<1>3. /\ \A sid, cont : HasCont(sid, cont)' <=> HasCont(sid, cont)
      /\ \A sid : Untrusted(sid)' <=> Untrusted(sid)
  BY <1>1 DEF HasCont, Untrusted
<1>4. TypeOK'
  BY <1>1, <1>2 DEF IInv, TypeOK
<1>5. WritesInOrder'
  <2>1. \A v \in Workers : SessionFirst(worker'[v]) /\ ChainFirst(worker'[v], chains)
    BY <1>2 DEF IInv, WritesInOrder
  <2>2. \A v : SessionFirst(worker[v])' <=> SessionFirst(worker'[v])
    BY DEF SessionFirst
  <2>3. \A v : ChainFirst(worker[v], chains)' <=> ChainFirst(worker'[v], chains')
    BY DEF ChainFirst, Recorded
  <2> QED
    BY <1>1, <2>1, <2>2, <2>3 DEF WritesInOrder
<1>6. SessionsAgree'
  BY <1>1 DEF IInv, SessionsAgree, HasCont, Untrusted
<1>7. \A cont \in ContinuityIds : \A prov \in CallerClasses : Claims(x, cont, prov) => cont \in issued'
  BY DEF IInv, UsedIsIssued
<1>8. UsedIsIssued'
  <2>1. \A sid \in Sessions : \A cont \in ContinuityIds : HasCont(sid, cont)' => {sid, cont} \subseteq issued'
    BY <1>3 DEF IInv, UsedIsIssued
  <2>2. \A c \in chains' : c.chain[1] \in issued'
    BY <1>1 DEF IInv, UsedIsIssued
  <2>3. \A v \in Workers : \A cont \in ContinuityIds :
        /\ \A prov \in CallerClasses : Claims(worker'[v], cont, prov) => cont \in issued'
        /\ \A sid \in Sessions : Begins(worker'[v], sid, cont) => {sid, cont} \subseteq issued'
    BY <1>2, <1>7 DEF IInv, UsedIsIssued
  <2> QED
    BY <2>1, <2>2, <2>3, NextClaims DEF UsedIsIssued
<1>9. ASSUME NEW sid \in Sessions, NEW cont \in ContinuityIds, Begins(x, sid, cont)
      PROVE  /\ sessions[sid] = <<>>
             /\ \A s \in Sessions : ~HasCont(s, cont)
             /\ \A c \in chains : c.chain[1] # cont
             /\ \A v \in Workers : \A prov \in CallerClasses : ~Claims(worker'[v], cont, prov)
             /\ \A v \in Workers : \A t \in Sessions : \A d \in ContinuityIds :
                    v # w /\ Begins(worker[v], t, d) => t # sid /\ d # cont
  <2>1. sid \notin issued /\ cont \notin issued
    BY <1>9
  <2>2. sessions[sid] = <<>>
    BY <2>1, SessionStored
  <2>3. \A s \in Sessions : ~HasCont(s, cont)
    BY <2>1 DEF IInv, UsedIsIssued
  <2>4. \A c \in chains : c.chain[1] # cont
    BY <2>1 DEF IInv, UsedIsIssued
  <2>5. \A v \in Workers : \A prov \in CallerClasses : ~Claims(worker'[v], cont, prov)
    BY <1>2, <1>9, <2>1 DEF IInv, UsedIsIssued
  <2>6. \A v \in Workers : \A t \in Sessions : \A d \in ContinuityIds :
            v # w /\ Begins(worker[v], t, d) => t # sid /\ d # cont
    BY <2>1 DEF IInv, UsedIsIssued
  <2> QED
    BY <2>2, <2>3, <2>4, <2>5, <2>6
<1>10. ASSUME NEW v \in Workers, v # w, NEW sid \in Sessions, NEW cont \in ContinuityIds,
              Begins(worker[v], sid, cont)
       PROVE  /\ sessions[sid] = <<>>
              /\ \A s \in Sessions : ~HasCont(s, cont)
              /\ \A c \in chains : c.chain[1] # cont
              /\ \A u \in Workers : \A prov \in CallerClasses : ~Claims(worker'[u], cont, prov)
  <2>1. /\ sessions[sid] = <<>>
        /\ \A s \in Sessions : ~HasCont(s, cont)
        /\ \A c \in chains : c.chain[1] # cont
        /\ \A u \in Workers : \A prov \in CallerClasses : ~Claims(worker[u], cont, prov)
    BY <1>10 DEF IInv, BeginsAlone
  <2>2. cont \in issued
    BY <1>10 DEF IInv, UsedIsIssued
  <2>3. \A prov \in CallerClasses : ~Claims(x, cont, prov)
    BY <2>1, <2>2
  <2> QED
    BY <1>2, <2>1, <2>3
<1>11. BeginsAlone'
  <2>1. \A v \in Workers : \A sid \in Sessions : \A cont \in ContinuityIds :
            Begins(worker'[v], sid, cont) =>
                /\ sessions[sid] = <<>>
                /\ \A s \in Sessions : ~HasCont(s, cont)
                /\ \A c \in chains : c.chain[1] # cont
                /\ \A u \in Workers : \A prov \in CallerClasses : ~Claims(worker'[u], cont, prov)
    BY <1>2, <1>9, <1>10
  <2>2. \A u, v \in Workers : \A s, t \in Sessions : \A c, d \in ContinuityIds :
            Begins(worker'[u], s, c) /\ Begins(worker'[v], t, d) /\ (s = t \/ c = d) => u = v
    <3> SUFFICES ASSUME NEW u \in Workers, NEW v \in Workers, NEW s \in Sessions, NEW t \in Sessions,
                        NEW c \in ContinuityIds, NEW d \in ContinuityIds,
                        Begins(worker'[u], s, c), Begins(worker'[v], t, d), s = t \/ c = d, u # v
                 PROVE  FALSE
      OBVIOUS
    <3>1. CASE u = w
      BY <1>2, <1>9, <3>1
    <3>2. CASE v = w
      BY <1>2, <1>9, <3>2
    <3>3. CASE u # w /\ v # w
      BY <1>2, <3>3 DEF IInv, BeginsAlone
    <3> QED
      BY <3>1, <3>2, <3>3
  <2> QED
    BY <1>1, <1>3, <2>1, <2>2, NextClaims DEF BeginsAlone
<1>12. CompletesOwn'
  <2>1. \A v \in Workers : \A sid \in Sessions : \A cont \in ContinuityIds :
            Completes(worker'[v], sid, cont) => HasCont(sid, cont)
    BY <1>2 DEF IInv, CompletesOwn
  <2> QED
    BY <1>3, <2>1, NextClaims DEF CompletesOwn
<1>13. UntrustedStays'
  <2>1. ASSUME NEW sid \in Sessions, NEW cont \in ContinuityIds, HasCont(sid, cont), Untrusted(sid)
        PROVE  /\ \A c \in chains : c.chain[1] = cont => c.prov \notin TrustedClasses
               /\ \A v \in Workers : \A prov \in CallerClasses :
                    Claims(worker'[v], cont, prov) => prov \notin TrustedClasses
    <3>1. cont \in issued
      BY <2>1 DEF IInv, UsedIsIssued
    <3>2. \A s \in Sessions : HasCont(s, cont) => s = sid
      BY <2>1 DEF IInv, SessionsAgree
    <3>3. \A prov \in CallerClasses : Claims(x, cont, prov) => prov \notin TrustedClasses
      BY <2>1, <3>1, <3>2 DEF IInv, UntrustedStays
    <3> QED
      BY <1>2, <2>1, <3>3 DEF IInv, UntrustedStays
  <2> QED
    BY <1>1, <1>3, <2>1, NextClaims DEF UntrustedStays
<1>14. ReceiptsNameRecordedChains'
  BY <1>1 DEF IInv, ReceiptsNameRecordedChains
<1> QED
  BY <1>4, <1>5, <1>6, <1>8, <1>11, <1>12, <1>13, <1>14 DEF IInv

(* A request that has nothing to record takes the place of another.        *)
LEMMA QuietStep ==
    ASSUME IInv, NEW w \in Workers, NEW x \in Requests, x.phase \in {"idle", "continuity"}, Become(w, x),
           issued' = issued, overlapped' = overlapped,
           abandoned' \subseteq Sessions, faults' \in 0 .. MaxFaults
    PROVE  IInv'
<1>1. /\ SessionFirst(x) /\ ChainFirst(x, chains)
      /\ \A cont, prov : ~Claims(x, cont, prov)
      /\ \A sid, cont : ~Begins(x, sid, cont) /\ ~Completes(x, sid, cont)
  BY DEF SessionFirst, ChainFirst, Claims, Begins, Completes
<1>2. issued' \subseteq ContinuityIds \cup SarIds \cup Sessions /\ overlapped' \subseteq Sessions
  BY DEF IInv, TypeOK
<1> QED
  BY <1>1, <1>2, BecomeStep

(* complete takes over the id of the session it read, and no class the     *)
(* session did not have.                                                   *)
LEMMA CompleteStep ==
    ASSUME IInv, NEW w \in Workers, NEW sid \in Sessions, NEW completer \in CallerClasses,
           Complete(w, sid, completer)
    PROVE  IInv'
<1> DEFINE session == Latest(sid)
           prov == CompletedProvenance(session.prov, completer)
           x == [phase |-> "sar", kind |-> "complete", sid |-> sid, cont |-> session.cont, prov |-> prov]
<1>1. /\ sessions[sid] # <<>> /\ Become(w, x) /\ issued' = issued /\ overlapped' \subseteq Sessions
      /\ abandoned' \subseteq Sessions /\ faults' \in 0 .. MaxFaults
  BY DEF Complete, IInv, TypeOK
<1>2. sessions[sid] \in Seq(SessionRecords) /\ Len(sessions[sid]) \in 1 .. Len(sessions[sid])
  BY <1>1, SessionStored DEF IInv, TypeOK
<1>3. session \in SessionRecords
  BY <1>2, ElementOfSeq DEF Latest
<1>4. HasCont(sid, session.cont)
  BY <1>1, <1>2 DEF IInv, SessionsAgree, HasCont, Latest
<1>5. Untrusted(sid) => session.prov \notin TrustedClasses
  BY <1>2 DEF IInv, SessionsAgree, Latest
<1>6. prov \in CallerClasses /\ (Untrusted(sid) => prov \notin TrustedClasses)
  BY <1>5 DEF CompletedProvenance, CallerClasses, TrustedClasses, Anonymous, Internal
<1>7. x \in Requests
  BY <1>3, <1>6 DEF Requests, SessionRecords
<1>8. SessionFirst(x) /\ ChainFirst(x, chains) /\ \A s, c : ~Begins(x, s, c)
  BY DEF SessionFirst, ChainFirst, Begins
<1>9. \A c, p : Claims(x, c, p) => c = session.cont /\ p = prov
  BY DEF Claims
<1>10. \A s, c : Completes(x, s, c) => s = sid /\ c = session.cont
  BY DEF Completes
<1>11. issued' \subseteq ContinuityIds \cup SarIds \cup Sessions
  BY <1>1 DEF IInv, TypeOK
<1> HIDE DEF x
<1> QED
  BY <1>1, <1>4, <1>6, <1>7, <1>8, <1>9, <1>10, <1>11, BecomeStep

-----------------------------------------------------------------------------
(* The three lists of records the handlers append.                         *)
LEMMA SyncList ==
    ASSUME NEW cont \in ContinuityIds, NEW sar \in SarIds, NEW prov \in CallerClasses, NEW x,
           x = Writing(SyncWrites(cont, sar, prov))
    PROVE  /\ x \in Requests /\ SessionFirst(x) /\ ChainFirst(x, chains)
           /\ \A c, p : Claims(x, c, p) => c = cont /\ p = prov
           /\ \A s, c : ~Begins(x, s, c) /\ ~Completes(x, s, c)
<1> DEFINE chain == ChainId(cont, sar)
           a == ChainWrite(cont, sar, prov)
           b == ReceiptWrite(cont, chain, prov)
           d == ReceiptWrite(sar, chain, prov)
<1>1. a \in Writes /\ b \in Writes /\ d \in Writes
  BY DEF Writes, Chains, Receipts, ChainWrite, ReceiptWrite, ChainId
<1>2. x.phase = "writing" /\ x.todo = <<a, b, d>>
  BY DEF Writing, SyncWrites
<1>3. /\ <<a, b, d>> \in Seq(Writes) /\ <<a, b, d>> # <<>> /\ Len(<<a, b, d>>) = 3
      /\ <<a, b, d>>[1] = a /\ <<a, b, d>>[2] = b /\ <<a, b, d>>[3] = d
  BY <1>1
<1>4. x \in Requests
  BY <1>3 DEF Requests, Writing, SyncWrites
<1>5. /\ Len(x.todo) = 3 /\ x.todo[1] = a /\ x.todo[2] = b /\ x.todo[3] = d
  BY <1>2, <1>3
<1>6. /\ a.to = "chains" /\ a.record.chain = chain /\ a.record.prov = prov
      /\ b.to = "receipts" /\ b.record.chain = chain /\ b.record.prov = prov
      /\ d.to = "receipts" /\ d.record.chain = chain /\ d.record.prov = prov
      /\ chain[1] = cont
  BY DEF ChainWrite, ReceiptWrite, ChainId
<1> HIDE DEF a, b, d, chain
<1>7. SessionFirst(x)
  BY <1>5, <1>6 DEF SessionFirst
<1>8. ChainFirst(x, chains)
  BY <1>5, <1>6 DEF ChainFirst
<1>9. \A c, p : Claims(x, c, p) => c = cont /\ p = prov
  BY <1>2, <1>5, <1>6 DEF Claims
<1>10. \A s, c : ~Begins(x, s, c) /\ ~Completes(x, s, c)
  BY <1>2, <1>5, <1>6 DEF Begins, Completes
<1> QED
  BY <1>4, <1>7, <1>8, <1>9, <1>10

LEMMA CompleteList ==
    ASSUME NEW sid \in Sessions, NEW cont \in ContinuityIds, NEW sar \in SarIds,
           NEW prov \in CallerClasses, NEW x, x = Writing(CompleteWrites(sid, cont, sar, prov))
    PROVE  /\ x \in Requests /\ SessionFirst(x) /\ ChainFirst(x, chains)
           /\ \A c, p : Claims(x, c, p) => c = cont /\ p = prov
           /\ \A s, c : ~Begins(x, s, c)
           /\ \A s, c : Completes(x, s, c) => s = sid /\ c = cont
<1> DEFINE chain == ChainId(cont, sar)
           a == SessionWrite(sid, "complete", cont, prov)
           b == ChainWrite(cont, sar, prov)
           d == ReceiptWrite(sar, chain, prov)
<1>1. a \in Writes /\ b \in Writes /\ d \in Writes
  BY DEF Writes, SessionRecords, Provenances, Chains, Receipts, SessionWrite, ChainWrite, ReceiptWrite, ChainId
<1>2. x.phase = "writing" /\ x.todo = <<a, b, d>>
  BY DEF Writing, CompleteWrites
<1>3. /\ <<a, b, d>> \in Seq(Writes) /\ <<a, b, d>> # <<>> /\ Len(<<a, b, d>>) = 3
      /\ <<a, b, d>>[1] = a /\ <<a, b, d>>[2] = b /\ <<a, b, d>>[3] = d
  BY <1>1
<1>4. x \in Requests
  BY <1>3 DEF Requests, Writing, CompleteWrites
<1>5. /\ Len(x.todo) = 3 /\ x.todo[1] = a /\ x.todo[2] = b /\ x.todo[3] = d
  BY <1>2, <1>3
<1>6. /\ a.to = "sessions" /\ a.key = sid /\ a.record.status = "complete"
      /\ a.record.cont = cont /\ a.record.prov = prov
      /\ b.to = "chains" /\ b.record.chain = chain /\ b.record.prov = prov
      /\ d.to = "receipts" /\ d.record.chain = chain /\ d.record.prov = prov
      /\ chain[1] = cont
  BY DEF SessionWrite, ChainWrite, ReceiptWrite, ChainId
<1> HIDE DEF a, b, d, chain
<1>7. SessionFirst(x)
  BY <1>5, <1>6 DEF SessionFirst
<1>8. ChainFirst(x, chains)
  BY <1>5, <1>6 DEF ChainFirst
<1>9. \A c, p : Claims(x, c, p) => c = cont /\ p = prov
  BY <1>2, <1>5, <1>6 DEF Claims
<1>10. \A s, c : ~Begins(x, s, c) /\ (Completes(x, s, c) => s = sid /\ c = cont)
  BY <1>2, <1>5, <1>6 DEF Begins, Completes
<1> QED
  BY <1>4, <1>7, <1>8, <1>9, <1>10

LEMMA BeginList ==
    ASSUME NEW sid \in Sessions, NEW cont \in ContinuityIds, NEW prov \in CallerClasses, NEW x,
           x = Writing(BeginWrites(sid, cont, prov))
    PROVE  /\ x \in Requests /\ SessionFirst(x) /\ ChainFirst(x, chains)
           /\ \A c, p : ~Claims(x, c, p)
           /\ \A s, c : Begins(x, s, c) => s = sid /\ c = cont
           /\ \A s, c : ~Completes(x, s, c)
<1> DEFINE a == SessionWrite(sid, "pending", cont, prov)
           b == ReceiptWrite(cont, None, prov)
<1>1. a \in Writes /\ b \in Writes
  BY DEF Writes, SessionRecords, Provenances, Receipts, SessionWrite, ReceiptWrite
<1>2. x.phase = "writing" /\ x.todo = <<a, b>>
  BY DEF Writing, BeginWrites
<1>3. /\ <<a, b>> \in Seq(Writes) /\ <<a, b>> # <<>> /\ Len(<<a, b>>) = 2
      /\ <<a, b>>[1] = a /\ <<a, b>>[2] = b
  BY <1>1
<1>4. x \in Requests
  BY <1>3 DEF Requests, Writing, BeginWrites
<1>5. /\ Len(x.todo) = 2 /\ x.todo[1] = a /\ x.todo[2] = b
  BY <1>2, <1>3
<1>6. /\ a.to = "sessions" /\ a.key = sid /\ a.record.status = "pending" /\ a.record.cont = cont
      /\ b.to = "receipts" /\ b.record.chain = None
  BY DEF SessionWrite, ReceiptWrite
<1> HIDE DEF a, b
<1>7. SessionFirst(x) /\ ChainFirst(x, chains)
  BY <1>5, <1>6 DEF SessionFirst, ChainFirst
<1>8. \A c, p : ~Claims(x, c, p)
  BY <1>2, <1>5, <1>6 DEF Claims
<1>9. \A s, c : (Begins(x, s, c) => s = sid /\ c = cont) /\ ~Completes(x, s, c)
  BY <1>2, <1>5, <1>6 DEF Begins, Completes
<1> QED
  BY <1>4, <1>7, <1>8, <1>9

-----------------------------------------------------------------------------
LEMMA ContinuityStep ==
    ASSUME IInv, NEW w \in Workers, NEW cont \in ContinuityIds, ContinuityAnswered(w, cont)
    PROVE  IInv'
<1> DEFINE prov == worker[w].prov
<1>1. /\ worker[w].phase = "continuity" /\ prov \in CallerClasses
      /\ cont \notin issued /\ overlapped' \subseteq Sessions
      /\ abandoned' \subseteq Sessions /\ faults' \in 0 .. MaxFaults
      /\ issued \subseteq ContinuityIds \cup SarIds \cup Sessions
  BY RequestFields DEF ContinuityAnswered, IInv, TypeOK
<1>2. CASE worker[w].kind = "sync"
  <2> DEFINE x == [phase |-> "sar", kind |-> "sync", cont |-> cont, prov |-> prov]
  <2>1. Become(w, x) /\ issued' = issued \cup {cont}
    BY <1>2 DEF ContinuityAnswered
  <2>2. x \in Requests
    BY <1>1 DEF Requests
  <2>3. /\ SessionFirst(x) /\ ChainFirst(x, chains)
        /\ \A c, p : Claims(x, c, p) => c = cont
        /\ \A s, c : ~Begins(x, s, c) /\ ~Completes(x, s, c)
    BY DEF SessionFirst, ChainFirst, Claims, Begins, Completes
  <2> HIDE DEF x
  <2> QED
    BY <1>1, <2>1, <2>2, <2>3, BecomeStep
<1>3. CASE worker[w].kind = "begin"
  <2>1. PICK sid \in Sessions \ issued :
            /\ Become(w, Writing(BeginWrites(sid, cont, prov)))
            /\ issued' = issued \cup {cont, sid}
    BY <1>3 DEF ContinuityAnswered
  <2>2. PICK x : x = Writing(BeginWrites(sid, cont, prov))
    OBVIOUS
  <2>3. Become(w, x)
    BY <2>1, <2>2
  <2>4. /\ x \in Requests /\ SessionFirst(x) /\ ChainFirst(x, chains)
        /\ \A c, p : ~Claims(x, c, p)
        /\ \A s, c : Begins(x, s, c) => s = sid /\ c = cont
        /\ \A s, c : ~Completes(x, s, c)
    BY <1>1, <2>2, BeginList
  <2> QED
    BY <1>1, <2>1, <2>3, <2>4, BecomeStep
<1>4. worker[w].kind \in {"sync", "begin"}
  BY <1>1, RequestFields DEF IInv, TypeOK
<1> QED
  BY <1>2, <1>3, <1>4

(* settlement-witness has answered: the claim moves into the list of       *)
(* records to append.                                                      *)
LEMMA SarStep ==
    ASSUME IInv, NEW w \in Workers, NEW sar \in SarIds, SarAnswered(w, sar)
    PROVE  IInv'
<1> DEFINE r == worker[w]
<1>1. /\ r.phase = "sar" /\ r.cont \in ContinuityIds /\ r.prov \in CallerClasses
      /\ r.kind \in {"sync", "complete"} /\ (r.kind = "complete" => r.sid \in Sessions)
  BY RequestFields DEF SarAnswered, IInv, TypeOK
<1>2. /\ issued' = issued \cup {sar} /\ overlapped' \subseteq Sessions
      /\ abandoned' \subseteq Sessions /\ faults' \in 0 .. MaxFaults
      /\ issued \subseteq issued' /\ issued' \subseteq ContinuityIds \cup SarIds \cup Sessions
  BY DEF SarAnswered, IInv, TypeOK
<1>3. Claims(r, r.cont, r.prov)
  BY <1>1 DEF Claims
<1>4. CASE r.kind = "sync"
  <2>1. PICK x : x = Writing(SyncWrites(r.cont, sar, r.prov))
    OBVIOUS
  <2>2. Become(w, x)
    BY <1>4, <2>1 DEF SarAnswered
  <2>3. /\ x \in Requests /\ SessionFirst(x) /\ ChainFirst(x, chains)
        /\ \A c, p : Claims(x, c, p) => c = r.cont /\ p = r.prov
        /\ \A s, c : ~Begins(x, s, c) /\ ~Completes(x, s, c)
    BY <1>1, <2>1, SyncList
  <2> QED
    BY <1>2, <1>3, <2>2, <2>3, BecomeStep
<1>5. CASE r.kind = "complete"
  <2>1. PICK x : x = Writing(CompleteWrites(r.sid, r.cont, sar, r.prov))
    OBVIOUS
  <2>2. Become(w, x)
    BY <1>5, <2>1 DEF SarAnswered
  <2>3. /\ x \in Requests /\ SessionFirst(x) /\ ChainFirst(x, chains)
        /\ \A c, p : Claims(x, c, p) => c = r.cont /\ p = r.prov
        /\ \A s, c : ~Begins(x, s, c)
        /\ \A s, c : Completes(x, s, c) => s = r.sid /\ c = r.cont
    BY <1>1, <1>5, <2>1, CompleteList
  <2>4. HasCont(r.sid, r.cont)
    BY <1>1, <1>5 DEF IInv, CompletesOwn, Completes
  <2> QED
    BY <1>2, <1>3, <2>2, <2>3, <2>4, BecomeStep
<1> QED
  BY <1>1, <1>4, <1>5

-----------------------------------------------------------------------------
(* What is left of a list of records after the first is appended.          *)
LEMMA Remains ==
    ASSUME NEW x \in Requests, x.phase = "writing", SessionFirst(x), NEW y,
           y = IF Tail(x.todo) = <<>> THEN Idle ELSE Writing(Tail(x.todo))
    PROVE  /\ y \in Requests /\ SessionFirst(y)
           /\ x.todo[1] \in Writes /\ Head(x.todo) = x.todo[1]
           /\ y.phase = "writing" => /\ Len(x.todo) \in Nat /\ Len(y.todo) \in Nat
                                     /\ Len(y.todo) = Len(x.todo) - 1
                                     /\ \A i \in 1 .. Len(y.todo) : y.todo[i] = x.todo[i + 1]
           /\ \A c, p : Claims(y, c, p) => Claims(x, c, p)
           /\ \A s, c : ~Begins(y, s, c) /\ ~Completes(y, s, c)
<1> DEFINE todo == x.todo
           rest == Tail(x.todo)
<1>1. todo \in Seq(Writes) /\ todo # <<>>
  BY RequestFields
<1>2. Len(todo) \in Nat /\ Len(todo) > 0 /\ Head(todo) = todo[1] /\ todo[1] \in Writes
  BY <1>1, EmptySeq, LenProperties, ElementOfSeq
<1>3. /\ rest \in Seq(Writes) /\ Len(rest) = Len(todo) - 1
      /\ \A i \in 1 .. Len(rest) : rest[i] = todo[i + 1]
  BY <1>1, HeadTailProperties
<1>4. CASE rest = <<>>
  <2>1. y \in Requests /\ y.phase = "idle"
    BY <1>4, IdleRequest
  <2> QED
    BY <1>2, <2>1 DEF SessionFirst, Claims, Begins, Completes
<1>5. CASE rest # <<>>
  <2>1. y.phase = "writing" /\ y.todo = rest
    BY <1>5 DEF Writing
  <2>2. y \in Requests
    BY <1>3, <1>5 DEF Requests, Writing
  <2>3. Len(rest) \in Nat /\ Len(rest) > 0
    BY <1>3, <1>5, EmptySeq, LenProperties
  <2>4. /\ y.phase = "writing"
        /\ Len(y.todo) \in Nat /\ Len(y.todo) > 0 /\ Len(y.todo) = Len(x.todo) - 1
        /\ \A i \in 1 .. Len(y.todo) : y.todo[i] = x.todo[i + 1]
    BY <1>3, <2>1, <2>3
  <2> HIDE DEF todo, rest
  <2>5. /\ \A i \in 1 .. Len(y.todo) : i + 1 \in 2 .. Len(x.todo)
        /\ \A i \in 2 .. Len(x.todo) : i \in 1 .. Len(x.todo)
        /\ \A i \in 2 .. Len(y.todo) : i \in 1 .. Len(y.todo)
        /\ 1 \in 1 .. Len(y.todo)
    <3>1. \A n, m \in Nat : m > 0 /\ m = n - 1 =>
            /\ \A i \in 1 .. m : i + 1 \in 2 .. n
            /\ \A i \in 2 .. n : i \in 1 .. n
            /\ \A i \in 2 .. m : i \in 1 .. m
            /\ 1 \in 1 .. m
      OBVIOUS
    <3>2. Len(x.todo) \in Nat
      BY <1>2 DEF todo
    <3> QED
      BY <2>4, <3>1, <3>2
  <2>6. \A i \in 1 .. Len(y.todo) : y.todo[i].to # "sessions"
    BY <2>4, <2>5 DEF SessionFirst
  <2>7. SessionFirst(y)
    BY <2>5, <2>6 DEF SessionFirst
  <2>8. \A s, c : ~Begins(y, s, c) /\ ~Completes(y, s, c)
    BY <2>4, <2>5, <2>6 DEF Begins, Completes
  <2>9. ASSUME NEW c, NEW p, Claims(y, c, p) PROVE Claims(x, c, p)
    <3>1. PICK i \in 1 .. Len(y.todo) : /\ y.todo[i].to = "chains"
                                       /\ y.todo[i].record.chain[1] = c
                                       /\ y.todo[i].record.prov = p
      BY <2>4, <2>5, <2>6, <2>9 DEF Claims
    <3>2. /\ i + 1 \in 1 .. Len(x.todo)
          /\ x.todo[i + 1].to = "chains"
          /\ x.todo[i + 1].record.chain[1] = c
          /\ x.todo[i + 1].record.prov = p
      BY <2>4, <2>5, <3>1
    <3> QED
      BY <3>2 DEF Claims
  <2> QED
    BY <1>2, <2>2, <2>4, <2>7, <2>8, <2>9 DEF todo
<1> QED
  BY <1>4, <1>5

LEMMA ChainsRemain ==
    ASSUME NEW x, NEW y, NEW known, NEW known1, known \subseteq known1,
           x.phase = "writing", ChainFirst(x, known),
           x.todo[1].to = "chains" => x.todo[1].record \in known1,
           y.phase = "writing" => /\ Len(x.todo) \in Nat /\ Len(y.todo) \in Nat
                                  /\ Len(y.todo) = Len(x.todo) - 1
                                  /\ \A i \in 1 .. Len(y.todo) : y.todo[i] = x.todo[i + 1]
    PROVE  ChainFirst(y, known1)
<1> SUFFICES ASSUME y.phase = "writing", NEW i \in 1 .. Len(y.todo),
                    y.todo[i].to = "receipts", y.todo[i].record.chain # None
             PROVE  \/ Recorded(y.todo[i].record, known1)
                    \/ \E j \in 1 .. i - 1 : /\ y.todo[j].to = "chains"
                                             /\ y.todo[j].record.chain = y.todo[i].record.chain
                                             /\ y.todo[j].record.prov = y.todo[i].record.prov
  BY DEF ChainFirst
<1>1. PICK r : r = y.todo[i].record
  OBVIOUS
<1>2. i \in Nat /\ i + 1 \in 1 .. Len(x.todo) /\ x.todo[i + 1] = y.todo[i]
  <2>1. \A n, m \in Nat : m = n - 1 => \A k \in 1 .. m : k \in Nat /\ k + 1 \in 1 .. n
    OBVIOUS
  <2>2. Len(y.todo) \in Nat
    OBVIOUS
  <2> QED
    BY <2>1, <2>2
<1>3. \/ Recorded(r, known)
      \/ \E j \in 1 .. i : /\ x.todo[j].to = "chains"
                           /\ x.todo[j].record.chain = r.chain /\ x.todo[j].record.prov = r.prov
  <2>1. (i + 1) - 1 = i
    BY <1>2
  <2>2. PICK m : m = i + 1
    OBVIOUS
  <2>3. /\ m \in 1 .. Len(x.todo) /\ m - 1 = i
        /\ x.todo[m].to = "receipts" /\ x.todo[m].record = r /\ r.chain # None
    BY <1>1, <1>2, <2>1, <2>2
  <2>4. \A k \in 1 .. Len(x.todo) :
            x.todo[k].to = "receipts" /\ x.todo[k].record.chain # None =>
                \/ Recorded(x.todo[k].record, known)
                \/ \E j \in 1 .. k - 1 : /\ x.todo[j].to = "chains"
                                         /\ x.todo[j].record.chain = x.todo[k].record.chain
                                         /\ x.todo[j].record.prov = x.todo[k].record.prov
    BY DEF ChainFirst
  <2> QED
    BY <2>3, <2>4
<1>4. CASE Recorded(r, known)
  BY <1>1, <1>4 DEF Recorded
<1>5. CASE \E j \in 1 .. i : /\ x.todo[j].to = "chains"
                            /\ x.todo[j].record.chain = r.chain /\ x.todo[j].record.prov = r.prov
  <2>1. PICK j \in 1 .. i : /\ x.todo[j].to = "chains"
                           /\ x.todo[j].record.chain = r.chain /\ x.todo[j].record.prov = r.prov
    BY <1>5
  <2>2. CASE j = 1
    BY <1>1, <2>1, <2>2 DEF Recorded
  <2>3. CASE j # 1
    <3>1. j - 1 \in 1 .. i - 1 /\ j - 1 \in 1 .. Len(y.todo) /\ (j - 1) + 1 = j
      BY <1>2, <2>1, <2>3
    <3>2. y.todo[j - 1] = x.todo[j]
      BY <3>1
    <3> QED
      BY <1>1, <2>1, <3>1, <3>2
  <2> QED
    BY <2>2, <2>3
<1> QED
  BY <1>3, <1>4, <1>5

(* What every append does to the requests, whatever ledger it goes to.     *)
Moved(w) ==
    /\ worker' \in [Workers -> Requests]
    /\ \A v \in Workers : v # w => worker'[v] = worker[v]
    /\ \A v \in Workers : SessionFirst(worker'[v]) /\ ChainFirst(worker'[v], chains')
    /\ \A v \in Workers : \A c \in ContinuityIds : \A p \in CallerClasses :
            Claims(worker'[v], c, p) => Claims(worker[v], c, p)
    /\ \A v \in Workers : \A s \in Sessions : \A c \in ContinuityIds :
            /\ Begins(worker'[v], s, c) => v # w /\ Begins(worker[v], s, c)
            /\ Completes(worker'[v], s, c) => v # w /\ Completes(worker[v], s, c)

LEMMA WriteMoves ==
    ASSUME IInv, NEW w \in Workers, Write(w)
    PROVE  /\ Moved(w)
           /\ worker[w].phase = "writing" /\ worker[w].todo[1] \in Writes
           /\ 1 \in 1 .. Len(worker[w].todo)
           /\ Head(worker[w].todo) = worker[w].todo[1]
<1>1. PICK x : x = worker[w]
  OBVIOUS
<1>2. PICK y : y = IF Tail(x.todo) = <<>> THEN Idle ELSE Writing(Tail(x.todo))
  OBVIOUS
<1>3. x \in Requests /\ x.phase = "writing" /\ SessionFirst(x) /\ ChainFirst(x, chains)
  BY <1>1 DEF Write, IInv, TypeOK, WritesInOrder
<1>4. /\ y \in Requests /\ SessionFirst(y)
      /\ x.todo[1] \in Writes /\ Head(x.todo) = x.todo[1]
      /\ y.phase = "writing" => /\ Len(x.todo) \in Nat /\ Len(y.todo) \in Nat
                                /\ Len(y.todo) = Len(x.todo) - 1
                                /\ \A i \in 1 .. Len(y.todo) : y.todo[i] = x.todo[i + 1]
      /\ \A c, p : Claims(y, c, p) => Claims(x, c, p)
      /\ \A s, c : ~Begins(y, s, c) /\ ~Completes(y, s, c)
  BY <1>2, <1>3, Remains
<1>5. worker' = [worker EXCEPT ![w] = y]
  BY <1>1, <1>2 DEF Write
<1>6. /\ worker' \in [Workers -> Requests] /\ worker'[w] = y
      /\ \A v \in Workers : v # w => worker'[v] = worker[v]
  BY <1>4, <1>5 DEF IInv, TypeOK
<1>7. /\ chains \subseteq chains'
      /\ x.todo[1].to = "chains" => x.todo[1].record \in chains'
  BY <1>1, <1>4 DEF Write
<1>8. ChainFirst(y, chains')
  BY <1>3, <1>4, <1>7, ChainsRemain
<1>9. \A v \in Workers : ChainFirst(worker[v], chains')
  BY <1>7 DEF IInv, WritesInOrder, ChainFirst, Recorded
<1>10. Moved(w)
  BY <1>1, <1>4, <1>6, <1>8, <1>9 DEF Moved, IInv, WritesInOrder
<1>11. 1 \in 1 .. Len(x.todo)
  <2>1. x.todo \in Seq(Writes) /\ x.todo # <<>>
    BY <1>3, RequestFields
  <2> QED
    BY <2>1, EmptySeq, LenProperties
<1> QED
  BY <1>1, <1>3, <1>4, <1>10, <1>11

-----------------------------------------------------------------------------
LEMMA WriteReceipt ==
    ASSUME IInv, NEW w \in Workers, Write(w), worker[w].todo[1].to = "receipts"
    PROVE  IInv'
<1> DEFINE record == worker[w].todo[1].record
<1>1. /\ Moved(w) /\ worker[w].phase = "writing" /\ worker[w].todo[1] \in Writes
      /\ 1 \in 1 .. Len(worker[w].todo) /\ Head(worker[w].todo) = worker[w].todo[1]
  BY WriteMoves
<1>2. /\ sessions' = sessions /\ chains' = chains /\ receipts' = receipts \cup {record}
      /\ issued' = issued /\ overlapped' = overlapped /\ abandoned' = abandoned /\ faults' = faults
  BY <1>1 DEF Write
<1>3. record \in Receipts
  BY <1>1 DEF Writes
<1>4. record.chain # None => Recorded(record, chains)
  BY <1>1 DEF IInv, WritesInOrder, ChainFirst
<1>5. /\ \A s, c : HasCont(s, c)' <=> HasCont(s, c)
      /\ \A s : Untrusted(s)' <=> Untrusted(s)
  BY <1>2 DEF HasCont, Untrusted
<1>6. TypeOK'
  BY <1>1, <1>2, <1>3 DEF IInv, TypeOK, Moved
<1>7. WritesInOrder'
  BY <1>1 DEF WritesInOrder, Moved, SessionFirst, ChainFirst, Recorded
<1>8. SessionsAgree'
  BY <1>2 DEF IInv, SessionsAgree, HasCont, Untrusted
<1>9. UsedIsIssued'
  <2>1. \A v \in Workers : \A c \in ContinuityIds :
            /\ \A p \in CallerClasses : Claims(worker'[v], c, p) => c \in issued
            /\ \A s \in Sessions : Begins(worker'[v], s, c) => {s, c} \subseteq issued
    BY <1>1 DEF IInv, UsedIsIssued, Moved
  <2> QED
    BY <1>2, <1>5, <2>1, NextClaims DEF IInv, UsedIsIssued
<1>10. BeginsAlone'
  <2>1. /\ \A v \in Workers : \A s \in Sessions : \A c \in ContinuityIds :
            Begins(worker'[v], s, c) =>
                /\ sessions[s] = <<>>
                /\ \A t \in Sessions : ~HasCont(t, c)
                /\ \A d \in chains : d.chain[1] # c
                /\ \A u \in Workers : \A p \in CallerClasses : ~Claims(worker'[u], c, p)
        /\ \A u, v \in Workers : \A s, t \in Sessions : \A c, d \in ContinuityIds :
            Begins(worker'[u], s, c) /\ Begins(worker'[v], t, d) /\ (s = t \/ c = d) => u = v
    BY <1>1 DEF IInv, BeginsAlone, Moved
  <2> QED
    BY <1>2, <1>5, <2>1, NextClaims DEF BeginsAlone
<1>11. CompletesOwn'
  <2>1. \A v \in Workers : \A s \in Sessions : \A c \in ContinuityIds :
            Completes(worker'[v], s, c) => HasCont(s, c)
    BY <1>1 DEF IInv, CompletesOwn, Moved
  <2> QED
    BY <1>5, <2>1, NextClaims DEF CompletesOwn
<1>12. UntrustedStays'
  <2>1. \A s \in Sessions : \A c \in ContinuityIds :
            HasCont(s, c) /\ Untrusted(s) =>
                /\ \A d \in chains : d.chain[1] = c => d.prov \notin TrustedClasses
                /\ \A v \in Workers : \A p \in CallerClasses :
                    Claims(worker'[v], c, p) => p \notin TrustedClasses
    BY <1>1 DEF IInv, UntrustedStays, Moved
  <2> QED
    BY <1>2, <1>5, <2>1, NextClaims DEF UntrustedStays
<1>13. ReceiptsNameRecordedChains'
  BY <1>2, <1>4 DEF IInv, ReceiptsNameRecordedChains, Recorded
<1> QED
  BY <1>6, <1>7, <1>8, <1>9, <1>10, <1>11, <1>12, <1>13 DEF IInv

LEMMA WriteChain ==
    ASSUME IInv, NEW w \in Workers, Write(w), worker[w].todo[1].to = "chains"
    PROVE  IInv'
<1> DEFINE record == worker[w].todo[1].record
           cont == record.chain[1]
<1>1. /\ Moved(w) /\ worker[w].phase = "writing" /\ worker[w].todo[1] \in Writes
      /\ 1 \in 1 .. Len(worker[w].todo) /\ Head(worker[w].todo) = worker[w].todo[1]
  BY WriteMoves
<1>2. /\ sessions' = sessions /\ receipts' = receipts /\ chains' = chains \cup {record}
      /\ issued' = issued /\ overlapped' = overlapped /\ abandoned' = abandoned /\ faults' = faults
  BY <1>1 DEF Write
<1>3. record \in Chains
  BY <1>1 DEF Writes
<1>4. cont \in ContinuityIds /\ record.prov \in CallerClasses
  BY <1>3 DEF Chains
<1>5. Claims(worker[w], cont, record.prov)
  BY <1>1 DEF Claims
<1>6. /\ \A s, c : HasCont(s, c)' <=> HasCont(s, c)
      /\ \A s : Untrusted(s)' <=> Untrusted(s)
  BY <1>2 DEF HasCont, Untrusted
<1>7. TypeOK'
  BY <1>1, <1>2, <1>3 DEF IInv, TypeOK, Moved
<1>8. WritesInOrder'
  BY <1>1 DEF WritesInOrder, Moved, SessionFirst, ChainFirst, Recorded
<1>9. SessionsAgree'
  BY <1>2 DEF IInv, SessionsAgree, HasCont, Untrusted
<1>10. UsedIsIssued'
  <2>1. \A v \in Workers : \A c \in ContinuityIds :
            /\ \A p \in CallerClasses : Claims(worker'[v], c, p) => c \in issued
            /\ \A s \in Sessions : Begins(worker'[v], s, c) => {s, c} \subseteq issued
    BY <1>1 DEF IInv, UsedIsIssued, Moved
  <2>2. cont \in issued
    BY <1>4, <1>5 DEF IInv, UsedIsIssued
  <2>3. \A d \in chains' : d.chain[1] \in issued
    BY <1>2, <2>2 DEF IInv, UsedIsIssued
  <2> QED
    BY <1>2, <1>6, <2>1, <2>3, NextClaims DEF IInv, UsedIsIssued
<1>11. BeginsAlone'
  <2>1. \A v \in Workers : \A s \in Sessions : \A c \in ContinuityIds :
            Begins(worker'[v], s, c) =>
                /\ sessions[s] = <<>>
                /\ \A t \in Sessions : ~HasCont(t, c)
                /\ \A d \in chains : d.chain[1] # c
                /\ \A u \in Workers : \A p \in CallerClasses : ~Claims(worker[u], c, p)
    BY <1>1 DEF IInv, BeginsAlone, Moved
  <2>2. \A v \in Workers : \A s \in Sessions : \A c \in ContinuityIds :
            Begins(worker'[v], s, c) =>
                /\ \A d \in chains' : d.chain[1] # c
                /\ \A u \in Workers : \A p \in CallerClasses : ~Claims(worker'[u], c, p)
    <3> SUFFICES ASSUME NEW v \in Workers, NEW s \in Sessions, NEW c \in ContinuityIds, Begins(worker'[v], s, c)
                 PROVE  /\ \A d \in chains' : d.chain[1] # c
                        /\ \A u \in Workers : \A p \in CallerClasses : ~Claims(worker'[u], c, p)
      OBVIOUS
    <3>1. \A u \in Workers : \A p \in CallerClasses : ~Claims(worker[u], c, p)
      BY <2>1
    <3>2. cont # c
      BY <1>4, <1>5, <3>1
    <3>3. \A d \in chains' : d.chain[1] # c
      BY <1>2, <2>1, <3>2
    <3>4. \A u \in Workers : \A p \in CallerClasses : ~Claims(worker'[u], c, p)
      BY <1>1, <3>1 DEF Moved
    <3> QED
      BY <3>3, <3>4
  <2>3. \A u, v \in Workers : \A s, t \in Sessions : \A c, d \in ContinuityIds :
            Begins(worker'[u], s, c) /\ Begins(worker'[v], t, d) /\ (s = t \/ c = d) => u = v
    BY <1>1 DEF IInv, BeginsAlone, Moved
  <2>4. ASSUME NEW v \in Workers, NEW s \in Sessions, NEW c \in ContinuityIds, Begins(worker[v], s, c)'
        PROVE  /\ sessions'[s] = <<>>
               /\ \A t \in Sessions : ~HasCont(t, c)'
               /\ \A d \in chains' : d.chain[1] # c
               /\ \A u \in Workers : \A p \in CallerClasses : ~Claims(worker[u], c, p)'
    <3>1. Begins(worker'[v], s, c)
      BY <2>4, NextClaims
    <3>2. sessions[s] = <<>> /\ \A t \in Sessions : ~HasCont(t, c)
      BY <2>1, <3>1
    <3>3. \A u \in Workers : \A p \in CallerClasses : ~Claims(worker'[u], c, p)
      BY <2>2, <3>1
    <3> QED
      BY <1>2, <1>6, <2>2, <3>1, <3>2, <3>3, NextClaims
  <2>5. \A u, v \in Workers : \A s, t \in Sessions : \A c, d \in ContinuityIds :
            Begins(worker[u], s, c)' /\ Begins(worker[v], t, d)' /\ (s = t \/ c = d) => u = v
    BY <2>3, NextClaims
  <2> QED
    BY <2>4, <2>5 DEF BeginsAlone
<1>12. CompletesOwn'
  <2>1. \A v \in Workers : \A s \in Sessions : \A c \in ContinuityIds :
            Completes(worker'[v], s, c) => HasCont(s, c)
    BY <1>1 DEF IInv, CompletesOwn, Moved
  <2> QED
    BY <1>6, <2>1, NextClaims DEF CompletesOwn
<1>13. UntrustedStays'
  <2>1. \A s \in Sessions : \A c \in ContinuityIds :
            HasCont(s, c) /\ Untrusted(s) =>
                /\ \A d \in chains' : d.chain[1] = c => d.prov \notin TrustedClasses
                /\ \A v \in Workers : \A p \in CallerClasses :
                    Claims(worker'[v], c, p) => p \notin TrustedClasses
    <3> SUFFICES ASSUME NEW s \in Sessions, NEW c \in ContinuityIds, HasCont(s, c), Untrusted(s)
                 PROVE  /\ \A d \in chains' : d.chain[1] = c => d.prov \notin TrustedClasses
                        /\ \A v \in Workers : \A p \in CallerClasses :
                            Claims(worker'[v], c, p) => p \notin TrustedClasses
      OBVIOUS
    <3>1. /\ \A d \in chains : d.chain[1] = c => d.prov \notin TrustedClasses
          /\ \A v \in Workers : \A p \in CallerClasses : Claims(worker[v], c, p) => p \notin TrustedClasses
      BY DEF IInv, UntrustedStays
    <3>2. cont = c => record.prov \notin TrustedClasses
      BY <1>4, <1>5, <3>1
    <3>3. \A d \in chains' : d.chain[1] = c => d.prov \notin TrustedClasses
      BY <1>2, <3>1, <3>2
    <3> QED
      BY <1>1, <3>1, <3>3 DEF Moved
  <2>2. \A s \in Sessions : \A c \in ContinuityIds :
            HasCont(s, c)' /\ Untrusted(s)' =>
                \A v \in Workers : \A p \in CallerClasses :
                    Claims(worker[v], c, p)' => p \notin TrustedClasses
    BY <1>6, <2>1, NextClaims
  <2> QED
    BY <1>6, <2>1, <2>2 DEF UntrustedStays
<1>14. ReceiptsNameRecordedChains'
  BY <1>2 DEF IInv, ReceiptsNameRecordedChains
<1> QED
  BY <1>7, <1>8, <1>9, <1>10, <1>11, <1>12, <1>13, <1>14 DEF IInv

(* A session record goes behind those the session has, and is of the class *)
(* the request took over.                                                  *)
LEMMA WriteSession ==
    ASSUME IInv, NEW w \in Workers, Write(w), worker[w].todo[1].to = "sessions"
    PROVE  IInv'
<1>0. PICK key, record, cont : /\ key = worker[w].todo[1].key
                              /\ record = worker[w].todo[1].record
                              /\ cont = record.cont
  OBVIOUS
<1>1. /\ Moved(w) /\ worker[w].phase = "writing" /\ worker[w].todo[1] \in Writes
      /\ 1 \in 1 .. Len(worker[w].todo) /\ Head(worker[w].todo) = worker[w].todo[1]
      /\ worker[w].todo[1].key = key /\ worker[w].todo[1].record = record /\ record.cont = cont
  BY <1>0, WriteMoves
<1>2. /\ sessions' = [sessions EXCEPT ![key] = Append(@, record)]
      /\ chains' = chains /\ receipts' = receipts
      /\ issued' = issued /\ overlapped' = overlapped /\ abandoned' = abandoned /\ faults' = faults
  BY <1>1 DEF Write
<1>3. key \in Sessions /\ record \in SessionRecords
  BY <1>1 DEF Writes, Chains, Receipts
<1>4. /\ cont \in ContinuityIds /\ record.prov \in Provenances
      /\ record.status \in {"pending", "complete"}
  BY <1>1, <1>3 DEF SessionRecords
<1>5. sessions[key] \in Seq(SessionRecords)
  BY <1>3 DEF IInv, TypeOK
<1>6. /\ sessions' \in [Sessions -> Seq(SessionRecords)]
      /\ sessions'[key] = Append(sessions[key], record)
      /\ \A s \in Sessions : s # key => sessions'[s] = sessions[s]
  BY <1>2, <1>3, <1>5, AppendProperties DEF IInv, TypeOK
<1>7. TypeOK'
  BY <1>1, <1>2, <1>6 DEF IInv, TypeOK, Moved
<1>8. WritesInOrder'
  BY <1>1 DEF WritesInOrder, Moved, SessionFirst, ChainFirst, Recorded
<1>9. /\ \A s \in Sessions : s # key =>
            /\ \A c \in ContinuityIds : HasCont(s, c)' <=> HasCont(s, c)
            /\ Untrusted(s)' <=> Untrusted(s)
  BY <1>6 DEF HasCont, Untrusted
<1>10. ReceiptsNameRecordedChains'
  BY <1>2 DEF IInv, ReceiptsNameRecordedChains
<1>11. /\ Len(sessions[key]) \in Nat /\ Len(sessions'[key]) = Len(sessions[key]) + 1
       /\ \A i \in 1 .. Len(sessions[key]) : sessions'[key][i] = sessions[key][i]
       /\ sessions'[key][Len(sessions[key]) + 1] = record
       /\ sessions'[key] # <<>>
  <2> DEFINE old == sessions[key]
             new == sessions'[key]
  <2>1. old \in Seq(SessionRecords) /\ record \in SessionRecords /\ new = Append(old, record)
    BY <1>3, <1>5, <1>6
  <2> HIDE DEF old, new
  <2>2. Append(old, record) \in Seq(SessionRecords) /\ Append(old, record) # <<>>
    BY <2>1, AppendProperties
  <2>3. Len(old) \in Nat /\ Len(new) = Len(old) + 1
    BY <2>1, LenProperties, AppendProperties
  <2>4. /\ \A i \in 1 .. Len(old) : new[i] = old[i]
        /\ new[Len(old) + 1] = record
    BY <2>1, AppendProperties
  <2> QED
    BY <2>1, <2>2, <2>3, <2>4 DEF old, new
<1>12. CASE record.status = "pending"
  <2>1. Begins(worker[w], key, cont)
    BY <1>1, <1>12 DEF Begins
  <2>2. /\ sessions[key] = <<>>
        /\ \A s \in Sessions : ~HasCont(s, cont)
        /\ \A c \in chains : c.chain[1] # cont
        /\ \A v \in Workers : \A p \in CallerClasses : ~Claims(worker[v], cont, p)
        /\ \A v \in Workers : \A s \in Sessions : \A c \in ContinuityIds :
                v # w /\ Begins(worker[v], s, c) => s # key /\ c # cont
        /\ {key, cont} \subseteq issued
    BY <1>3, <1>4, <2>1 DEF IInv, BeginsAlone, UsedIsIssued
  <2>3. Len(sessions'[key]) = 1 /\ sessions'[key][1] = record
    BY <1>11, <2>2, EmptySeq
  <2>4. \A c \in ContinuityIds : HasCont(key, c)' <=> c = cont
    BY <1>1, <1>11, <2>3 DEF HasCont
  <2>5. SessionsAgree'
    <3>1. \A i \in 1 .. Len(sessions'[key]) : i = 1
      BY <2>3
    <3>2. ASSUME NEW s \in Sessions
          PROVE  \A i \in 1 .. Len(sessions'[s]) :
                    /\ sessions'[s][i].cont = sessions'[s][1].cont
                    /\ Untrusted(s)' => sessions'[s][i].prov \notin TrustedClasses
      <4>1. CASE s = key
        BY <3>1, <4>1 DEF Untrusted
      <4>2. CASE s # key
        BY <1>6, <1>9, <4>2 DEF IInv, SessionsAgree
      <4> QED
        BY <4>1, <4>2
    <3>3. \A s, t \in Sessions : \A c \in ContinuityIds : HasCont(s, c)' /\ HasCont(t, c)' => s = t
      BY <1>9, <2>2, <2>4 DEF IInv, SessionsAgree
    <3> QED
      BY <3>2, <3>3 DEF SessionsAgree, HasCont, Untrusted
  <2>6. UsedIsIssued'
    <3>1. \A v \in Workers : \A c \in ContinuityIds :
            /\ \A p \in CallerClasses : Claims(worker'[v], c, p) => c \in issued
            /\ \A s \in Sessions : Begins(worker'[v], s, c) => {s, c} \subseteq issued
      BY <1>1 DEF IInv, UsedIsIssued, Moved
    <3>2. \A s \in Sessions : \A c \in ContinuityIds : HasCont(s, c)' => {s, c} \subseteq issued
      BY <1>9, <2>2, <2>4 DEF IInv, UsedIsIssued
    <3>3. \A c \in chains : c.chain[1] \in issued
      BY DEF IInv, UsedIsIssued
    <3> QED
      BY <1>2, <3>1, <3>2, <3>3, NextClaims DEF UsedIsIssued
  <2>7. BeginsAlone'
    <3>1. ASSUME NEW v \in Workers, NEW s \in Sessions, NEW c \in ContinuityIds, Begins(worker'[v], s, c)
          PROVE  /\ sessions'[s] = <<>>
                 /\ \A t \in Sessions : ~HasCont(t, c)'
                 /\ \A d \in chains : d.chain[1] # c
                 /\ \A u \in Workers : \A p \in CallerClasses : ~Claims(worker'[u], c, p)
      <4>1. v # w /\ Begins(worker[v], s, c)
        BY <1>1, <3>1 DEF Moved
      <4>2. /\ sessions[s] = <<>>
            /\ \A t \in Sessions : ~HasCont(t, c)
            /\ \A d \in chains : d.chain[1] # c
            /\ \A u \in Workers : \A p \in CallerClasses : ~Claims(worker[u], c, p)
        BY <4>1 DEF IInv, BeginsAlone
      <4>3. s # key /\ c # cont
        BY <2>2, <4>1
      <4> QED
        BY <1>1, <1>6, <1>9, <2>4, <4>2, <4>3 DEF Moved
    <3>2. \A u, v \in Workers : \A s, t \in Sessions : \A c, d \in ContinuityIds :
            Begins(worker'[u], s, c) /\ Begins(worker'[v], t, d) /\ (s = t \/ c = d) => u = v
      BY <1>1 DEF IInv, BeginsAlone, Moved
    <3> QED
      BY <1>2, <3>1, <3>2, NextClaims DEF BeginsAlone
  <2>8. CompletesOwn'
    <3>1. \A v \in Workers : \A s \in Sessions : \A c \in ContinuityIds :
            Completes(worker'[v], s, c) => HasCont(s, c)'
      BY <1>1, <1>9, <2>2 DEF IInv, CompletesOwn, Moved, HasCont
    <3> QED
      BY <3>1, NextClaims DEF CompletesOwn
  <2>9. UntrustedStays'
    <3>1. ASSUME NEW s \in Sessions, NEW c \in ContinuityIds, HasCont(s, c)', Untrusted(s)'
          PROVE  /\ \A d \in chains : d.chain[1] = c => d.prov \notin TrustedClasses
                 /\ \A v \in Workers : \A p \in CallerClasses :
                        Claims(worker'[v], c, p) => p \notin TrustedClasses
      <4>1. CASE s = key
        BY <1>1, <2>2, <2>4, <3>1, <4>1 DEF Moved
      <4>2. CASE s # key
        BY <1>1, <1>9, <3>1, <4>2 DEF IInv, UntrustedStays, Moved
      <4> QED
        BY <4>1, <4>2
    <3> QED
      BY <1>2, <3>1, NextClaims DEF UntrustedStays
  <2> QED
    BY <1>7, <1>8, <1>10, <2>5, <2>6, <2>7, <2>8, <2>9 DEF IInv
<1>13. CASE record.status = "complete"
  <2>1. Completes(worker[w], key, cont)
    BY <1>1, <1>13 DEF Completes
  <2>2. HasCont(key, cont)
    BY <1>3, <1>4, <2>1 DEF IInv, CompletesOwn
  <2>3. Len(sessions[key]) > 0
    BY <1>5, <1>11, <2>2, EmptySeq DEF HasCont
  <2>4. sessions'[key][1] = sessions[key][1]
    BY <1>11, <2>3
  <2>5. /\ \A s \in Sessions : \A c \in ContinuityIds : HasCont(s, c)' <=> HasCont(s, c)
        /\ \A s \in Sessions : Untrusted(s)' <=> Untrusted(s)
    BY <1>9, <1>11, <2>2, <2>4 DEF HasCont, Untrusted
  <2>6. record.prov \in CallerClasses => Claims(worker[w], cont, record.prov)
    BY <1>1, <1>13 DEF Claims
  <2>7. Untrusted(key) => record.prov \notin TrustedClasses
    BY <1>3, <1>4, <2>2, <2>6 DEF IInv, UntrustedStays, TrustedClasses, CallerClasses
  <2>8. SessionsAgree'
    <3>1. ASSUME NEW i \in 1 .. Len(sessions'[key])
          PROVE  /\ sessions'[key][i].cont = sessions'[key][1].cont
                 /\ Untrusted(key)' => sessions'[key][i].prov \notin TrustedClasses
      <4>1. CASE i = Len(sessions[key]) + 1
        BY <1>1, <1>3, <1>11, <2>2, <2>4, <2>5, <2>7, <4>1 DEF HasCont
      <4>2. CASE i # Len(sessions[key]) + 1
        <5>1. i \in 1 .. Len(sessions[key])
          BY <1>11, <4>2
        <5> QED
          BY <1>3, <1>11, <2>4, <2>5, <5>1 DEF IInv, SessionsAgree
      <4> QED
        BY <4>1, <4>2
    <3>2. ASSUME NEW s \in Sessions
          PROVE  \A i \in 1 .. Len(sessions'[s]) :
                    /\ sessions'[s][i].cont = sessions'[s][1].cont
                    /\ Untrusted(s)' => sessions'[s][i].prov \notin TrustedClasses
      <4>1. CASE s = key
        BY <3>1, <4>1
      <4>2. CASE s # key
        BY <1>6, <1>9, <4>2 DEF IInv, SessionsAgree
      <4> QED
        BY <4>1, <4>2
    <3>3. \A s, t \in Sessions : \A c \in ContinuityIds : HasCont(s, c)' /\ HasCont(t, c)' => s = t
      BY <2>5 DEF IInv, SessionsAgree
    <3> QED
      BY <3>2, <3>3 DEF SessionsAgree, HasCont, Untrusted
  <2>9. UsedIsIssued'
    <3>1. \A v \in Workers : \A c \in ContinuityIds :
            /\ \A p \in CallerClasses : Claims(worker'[v], c, p) => c \in issued
            /\ \A s \in Sessions : Begins(worker'[v], s, c) => {s, c} \subseteq issued
      BY <1>1 DEF IInv, UsedIsIssued, Moved
    <3>2. \A s \in Sessions : \A c \in ContinuityIds : HasCont(s, c)' => {s, c} \subseteq issued
      BY <2>5 DEF IInv, UsedIsIssued
    <3>3. \A c \in chains : c.chain[1] \in issued
      BY DEF IInv, UsedIsIssued
    <3> QED
      BY <1>2, <3>1, <3>2, <3>3, NextClaims DEF UsedIsIssued
  <2>10. BeginsAlone'
    <3>1. ASSUME NEW v \in Workers, NEW s \in Sessions, NEW c \in ContinuityIds, Begins(worker'[v], s, c)
          PROVE  /\ sessions'[s] = <<>>
                 /\ \A t \in Sessions : ~HasCont(t, c)'
                 /\ \A d \in chains : d.chain[1] # c
                 /\ \A u \in Workers : \A p \in CallerClasses : ~Claims(worker'[u], c, p)
      <4>1. /\ sessions[s] = <<>>
            /\ \A t \in Sessions : ~HasCont(t, c)
            /\ \A d \in chains : d.chain[1] # c
            /\ \A u \in Workers : \A p \in CallerClasses : ~Claims(worker[u], c, p)
        BY <1>1, <3>1 DEF IInv, BeginsAlone, Moved
      <4>2. s # key
        BY <2>2, <4>1 DEF HasCont
      <4> QED
        BY <1>1, <1>6, <2>5, <4>1, <4>2 DEF Moved
    <3>2. \A u, v \in Workers : \A s, t \in Sessions : \A c, d \in ContinuityIds :
            Begins(worker'[u], s, c) /\ Begins(worker'[v], t, d) /\ (s = t \/ c = d) => u = v
      BY <1>1 DEF IInv, BeginsAlone, Moved
    <3> QED
      BY <1>2, <3>1, <3>2, NextClaims DEF BeginsAlone
  <2>11. CompletesOwn'
    <3>1. \A v \in Workers : \A s \in Sessions : \A c \in ContinuityIds :
            Completes(worker'[v], s, c) => HasCont(s, c)'
      BY <1>1, <2>5 DEF IInv, CompletesOwn, Moved
    <3> QED
      BY <3>1, NextClaims DEF CompletesOwn
  <2>12. UntrustedStays'
    <3>1. \A s \in Sessions : \A c \in ContinuityIds :
            HasCont(s, c)' /\ Untrusted(s)' =>
                /\ \A d \in chains : d.chain[1] = c => d.prov \notin TrustedClasses
                /\ \A v \in Workers : \A p \in CallerClasses :
                    Claims(worker'[v], c, p) => p \notin TrustedClasses
      BY <1>1, <2>5 DEF IInv, UntrustedStays, Moved
    <3> QED
      BY <1>2, <3>1, NextClaims DEF UntrustedStays
  <2> QED
    BY <1>7, <1>8, <1>10, <2>8, <2>9, <2>10, <2>11, <2>12 DEF IInv
<1> QED
  BY <1>4, <1>12, <1>13

-----------------------------------------------------------------------------
(* A request that is idle, as all are at first and after a crash, has no   *)
(* claim to anything.                                                      *)
LEMMA IdleHasNothing ==
    /\ \A known : SessionFirst(Idle) /\ ChainFirst(Idle, known)
    /\ \A c, p : ~Claims(Idle, c, p)
    /\ \A s, c : ~Begins(Idle, s, c) /\ ~Completes(Idle, s, c)
BY DEF Idle, SessionFirst, ChainFirst, Claims, Begins, Completes

LEMMA InitIInv == Init => IInv
<1> SUFFICES ASSUME Init PROVE IInv
  OBVIOUS
<1>1. PICK old \in Sessions \cup {None}, cont \in ContinuityIds :
        /\ sessions = [sid \in Sessions |-> IF sid = old THEN <<LegacySession(cont)>> ELSE <<>>]
        /\ issued = IF old = None THEN {} ELSE {old, cont}
  BY DEF Init
<1>2. PICK first : first = LegacySession(cont)
  OBVIOUS
<1>3. first \in SessionRecords /\ first.cont = cont /\ first.prov = None
  BY <1>2 DEF LegacySession, SessionRecords, Provenances
<1>4. /\ <<first>> \in Seq(SessionRecords) /\ <<first>> # <<>>
      /\ Len(<<first>>) = 1 /\ <<first>>[1] = first
      /\ <<>> \in Seq(SessionRecords) /\ Len(<<>>) = 0
  BY <1>3
<1>5. sessions = [sid \in Sessions |-> IF sid = old THEN <<first>> ELSE <<>>]
  BY <1>1, <1>2
<1>6. /\ chains = {} /\ receipts = {} /\ overlapped = {} /\ abandoned = {} /\ faults = 0
      /\ worker = [w \in Workers |-> Idle]
  BY DEF Init
<1>7. sessions \in [Sessions -> Seq(SessionRecords)]
  BY <1>4, <1>5
<1>8. issued \subseteq ContinuityIds \cup SarIds \cup Sessions
  BY <1>1
<1>9. TypeOK
  BY <1>6, <1>7, <1>8, IdleRequest, IdAssumption DEF TypeOK
<1>10. \A sid \in Sessions : \A c : HasCont(sid, c) => sid = old /\ c = cont
  BY <1>3, <1>4, <1>5 DEF HasCont
<1>11. SessionsAgree
  <2>1. \A sid \in Sessions : \A i \in 1 .. Len(sessions[sid]) : i = 1
    BY <1>4, <1>5
  <2> QED
    BY <1>10, <2>1 DEF SessionsAgree, Untrusted
<1>12. WritesInOrder /\ BeginsAlone /\ CompletesOwn
  BY <1>6, IdleHasNothing DEF WritesInOrder, BeginsAlone, CompletesOwn
<1>13. UsedIsIssued
  BY <1>1, <1>6, <1>10, IdleHasNothing, IdAssumption DEF UsedIsIssued
<1>14. UntrustedStays /\ ReceiptsNameRecordedChains
  BY <1>6, IdleHasNothing DEF UntrustedStays, ReceiptsNameRecordedChains
<1> QED
  BY <1>9, <1>11, <1>12, <1>13, <1>14 DEF IInv

LEMMA CrashStep ==
    ASSUME IInv, Crash
    PROVE  IInv'
<1>1. /\ sessions' = sessions /\ chains' = chains /\ receipts' = receipts
      /\ issued' = issued /\ overlapped' = overlapped
      /\ abandoned' \subseteq Sessions /\ faults' = faults + 1 /\ faults < MaxFaults
      /\ worker' = [w \in Workers |-> Idle]
  BY DEF Crash, Unchained, IInv, TypeOK
<1>2. TypeOK'
  BY <1>1, IdleRequest, IdAssumption DEF IInv, TypeOK
<1>3. \A v \in Workers :
        /\ SessionFirst(worker'[v]) /\ ChainFirst(worker'[v], chains)
        /\ \A c, p : ~Claims(worker'[v], c, p)
        /\ \A s, c : ~Begins(worker'[v], s, c) /\ ~Completes(worker'[v], s, c)
  BY <1>1, IdleHasNothing
<1>4. /\ \A s, c : HasCont(s, c)' <=> HasCont(s, c)
      /\ \A s : Untrusted(s)' <=> Untrusted(s)
  BY <1>1 DEF HasCont, Untrusted
<1>5. WritesInOrder'
  BY <1>1, <1>3 DEF WritesInOrder, SessionFirst, ChainFirst, Recorded
<1>6. SessionsAgree'
  BY <1>1 DEF IInv, SessionsAgree, HasCont, Untrusted
<1>7. UsedIsIssued'
  <2>1. \A sid \in Sessions : \A cont \in ContinuityIds : HasCont(sid, cont)' => {sid, cont} \subseteq issued
    BY <1>4 DEF IInv, UsedIsIssued
  <2>2. \A c \in chains : c.chain[1] \in issued
    BY DEF IInv, UsedIsIssued
  <2>3. \A v \in Workers : \A cont \in ContinuityIds :
        /\ \A prov \in CallerClasses : Claims(worker'[v], cont, prov) => cont \in issued
        /\ \A sid \in Sessions : Begins(worker'[v], sid, cont) => {sid, cont} \subseteq issued
    BY <1>3
  <2> QED
    BY <1>1, <2>1, <2>2, <2>3, NextClaims DEF UsedIsIssued
<1>8. BeginsAlone' /\ CompletesOwn'
  <2>1. BeginsAlone'
    <3>1. \A v \in Workers : \A s, c : ~Begins(worker[v], s, c)'
      BY <1>3 DEF Begins
    <3> QED
      BY <3>1 DEF BeginsAlone
  <2>2. CompletesOwn'
    <3>1. \A v \in Workers : \A s, c : ~Completes(worker[v], s, c)'
      BY <1>3 DEF Completes
    <3> QED
      BY <3>1 DEF CompletesOwn
  <2> QED
    BY <2>1, <2>2
<1>9. UntrustedStays'
  <2>1. \A sid \in Sessions : \A cont \in ContinuityIds :
            HasCont(sid, cont)' /\ Untrusted(sid)' =>
                /\ \A c \in chains : c.chain[1] = cont => c.prov \notin TrustedClasses
                /\ \A v \in Workers : \A prov \in CallerClasses :
                    Claims(worker'[v], cont, prov) => prov \notin TrustedClasses
    BY <1>3, <1>4 DEF IInv, UntrustedStays
  <2> QED
    BY <1>1, <2>1, NextClaims DEF UntrustedStays
<1>10. ReceiptsNameRecordedChains'
  BY <1>1 DEF IInv, ReceiptsNameRecordedChains
<1> QED
  BY <1>2, <1>5, <1>6, <1>7, <1>8, <1>9, <1>10 DEF IInv

LEMMA NextIInv == IInv /\ [Next]_vars => IInv'
<1> SUFFICES ASSUME IInv, [Next]_vars PROVE IInv'
  OBVIOUS
<1>1. CASE UNCHANGED vars
  <2>1. UNCHANGED <<sessions, chains, receipts, worker, issued, overlapped, abandoned, faults>>
    BY <1>1 DEF vars
  <2>2. TypeOK' /\ ReceiptsNameRecordedChains'
    BY <2>1 DEF IInv, TypeOK, ReceiptsNameRecordedChains
  <2>3. WritesInOrder'
    BY <2>1 DEF IInv, WritesInOrder, SessionFirst, ChainFirst, Recorded
  <2>4. SessionsAgree'
    BY <2>1 DEF IInv, SessionsAgree, HasCont, Untrusted
  <2>5. /\ \A s, c : HasCont(s, c)' <=> HasCont(s, c)
        /\ \A s : Untrusted(s)' <=> Untrusted(s)
        /\ \A v, c, p : Claims(worker[v], c, p)' <=> Claims(worker[v], c, p)
        /\ \A v, s, c : Begins(worker[v], s, c)' <=> Begins(worker[v], s, c)
        /\ \A v, s, c : Completes(worker[v], s, c)' <=> Completes(worker[v], s, c)
    BY <2>1 DEF HasCont, Untrusted, Claims, Begins, Completes
  <2>6. UsedIsIssued'
    BY <2>1, <2>5 DEF IInv, UsedIsIssued
  <2>7. BeginsAlone'
    BY <2>1, <2>5 DEF IInv, BeginsAlone
  <2>8. CompletesOwn' /\ UntrustedStays'
    BY <2>1, <2>5 DEF IInv, CompletesOwn, UntrustedStays
  <2> QED
    BY <2>2, <2>3, <2>4, <2>6, <2>7, <2>8 DEF IInv
<1>2. CASE Crash
  BY <1>2, CrashStep
<1>3. ASSUME NEW w \in Workers, Step(w)
      PROVE  IInv'
  <2>1. ASSUME NEW prov \in CallerClasses, Attest(w, prov)
        PROVE  IInv'
    <3> DEFINE x == [phase |-> "continuity", kind |-> "sync", prov |-> prov]
    <3>1. x \in Requests /\ x.phase = "continuity"
      BY DEF Requests
    <3> QED
      BY <2>1, <3>1, QuietStep DEF Attest, IInv, TypeOK
  <2>2. ASSUME NEW prov \in CallerClasses, Begin(w, prov)
        PROVE  IInv'
    <3> DEFINE x == [phase |-> "continuity", kind |-> "begin", prov |-> prov]
    <3>1. x \in Requests /\ x.phase = "continuity"
      BY DEF Requests
    <3> QED
      BY <2>2, <3>1, QuietStep DEF Begin, IInv, TypeOK
  <2>3. ASSUME NEW sid \in Sessions, NEW prov \in CallerClasses, Complete(w, sid, prov)
        PROVE  IInv'
    BY <2>3, CompleteStep
  <2>4. ASSUME NEW cont \in ContinuityIds, ContinuityAnswered(w, cont)
        PROVE  IInv'
    BY <2>4, ContinuityStep
  <2>5. ASSUME NEW sar \in SarIds, SarAnswered(w, sar)
        PROVE  IInv'
    BY <2>5, SarStep
  <2>6. CASE CallFails(w) \/ WriteFails(w)
    <3>1. abandoned' \subseteq Sessions /\ faults' \in 0 .. MaxFaults
      BY <2>6, IdAssumption DEF CallFails, WriteFails, Unchained, IInv, TypeOK
    <3> QED
      BY <2>6, <3>1, IdleRequest, QuietStep DEF CallFails, WriteFails
  <2>7. CASE Write(w)
    <3>1. worker[w].todo[1] \in Writes
      BY <2>7, WriteMoves
    <3>2. worker[w].todo[1].to \in {"sessions", "chains", "receipts"}
      BY <3>1 DEF Writes
    <3> QED
      BY <2>7, <3>2, WriteSession, WriteChain, WriteReceipt
  <2> QED
    BY <1>3, <2>1, <2>2, <2>3, <2>4, <2>5, <2>6, <2>7 DEF Step
<1> QED
  BY <1>1, <1>2, <1>3 DEF Next

LEMMA Inductive == Spec => []IInv
<1> QED
  BY InitIInv, NextIInv, PTL DEF Spec

-----------------------------------------------------------------------------
(* The ledgers hold records of their kind and every request carries its    *)
(* fields, whatever crashes or fails (begin, complete, attest).            *)
THEOREM TypeCorrect == Spec => []TypeOK
<1>1. IInv => TypeOK
  BY DEF IInv
<1> QED
  BY <1>1, Inductive, PTL

(* A receipt that names a chain is only on the ledger with its chain, of   *)
(* the same class: the chain is appended first (attest_sync, complete).    *)
THEOREM ReceiptsFollowTheirChain == Spec => []ReceiptsNameRecordedChains
<1>1. IInv => ReceiptsNameRecordedChains
  BY DEF IInv
<1> QED
  BY <1>1, Inductive, PTL

(* No chain and no SAR receipt of a session is more trusted than the       *)
(* session was when it was begun, whoever completes it and however often.  *)
THEOREM SessionsBoundTrust == Spec => []NeverMoreTrustedThanBegun
<1>1. ASSUME IInv, NEW sid \in Sessions, sessions[sid] # <<>>, sessions[sid][1].prov \notin TrustedClasses
      PROVE  /\ \A c \in ChainsOf(sid) : c.prov \notin TrustedClasses
             /\ \A r \in receipts : r.chain \in {c.chain : c \in ChainsOf(sid)} => r.prov \notin TrustedClasses
  <2> DEFINE cont == sessions[sid][1].cont
  <2>1. HasCont(sid, cont) /\ Untrusted(sid) /\ cont \in ContinuityIds
    BY <1>1, SessionStored DEF Untrusted, SessionRecords
  <2>2. \A c \in chains : c.chain[1] = cont => c.prov \notin TrustedClasses
    BY <1>1, <2>1 DEF IInv, UntrustedStays
  <2>3. sessions[sid] \in Seq(SessionRecords)
    BY <1>1 DEF IInv, TypeOK
  <2>4. \A i \in DOMAIN sessions[sid] : sessions[sid][i].cont = cont
    BY <1>1, <2>3 DEF IInv, SessionsAgree
  <2>5. \A c \in ChainsOf(sid) : c \in chains /\ c.chain[1] = cont
    BY <2>4 DEF ChainsOf
  <2>6. ASSUME NEW r \in receipts, r.chain \in {c.chain : c \in ChainsOf(sid)}
        PROVE  r.prov \notin TrustedClasses
    <3>1. r.chain[1] = cont /\ \E c \in chains : c.chain = r.chain
      BY <2>5, <2>6
    <3>2. r.chain # None
      <4>1. r.chain \in ContinuityIds \X SarIds
        BY <1>1, <3>1 DEF IInv, TypeOK, Chains
      <4> QED
        BY <4>1, IdAssumption
    <3>3. PICK d \in chains : d.chain = r.chain /\ d.prov = r.prov
      BY <1>1, <3>2 DEF IInv, ReceiptsNameRecordedChains
    <3> QED
      BY <2>2, <3>1, <3>3
  <2> QED
    BY <2>2, <2>5, <2>6
<1>2. IInv => NeverMoreTrustedThanBegun
  BY <1>1 DEF NeverMoreTrustedThanBegun
<1> QED
  BY <1>2, Inductive, PTL

-----------------------------------------------------------------------------
(* A session no two requests were completing at once.  Whoever has a claim *)
(* to its id has it alone, and either is still completing it or has put    *)
(* its last record on the ledger, after which complete answers 409.        *)
ChainOnce(x) ==
    x.phase = "writing" =>
        \A i, j \in 1 .. Len(x.todo) : x.todo[i].to = "chains" /\ x.todo[j].to = "chains" => i = j

AllTrusted(sid) == \A i \in 1 .. Len(sessions[sid]) : sessions[sid][i].prov \in TrustedClasses

AloneSession(sid) ==
    \A cont \in ContinuityIds : HasCont(sid, cont) =>
        /\ \A v, w \in Workers : \A p, q \in CallerClasses :
            Claims(worker[v], cont, p) /\ Claims(worker[w], cont, q) => v = w
        /\ \A v, w \in Workers :
            Completes(worker[v], sid, cont) /\ Completes(worker[w], sid, cont) => v = w
        /\ \A w \in Workers : \A p \in CallerClasses : Claims(worker[w], cont, p) =>
            /\ \A c \in chains : c.chain[1] # cont
            /\ Completes(worker[w], sid, cont) /\ p \in TrustedClasses => AllTrusted(sid)
            /\ ~Completes(worker[w], sid, cont) => IsComplete(sid)
        /\ \A c, d \in chains : c.chain[1] = cont /\ d.chain[1] = cont => c = d
        /\ \A c \in chains : c.chain[1] = cont => IsComplete(sid)
        /\ ClassNeverRises(sid)

Alone ==
    /\ \A w \in Workers : ChainOnce(worker[w])
    /\ \A sid \in Sessions \ overlapped : AloneSession(sid)

LEMMA ListsChainOnce ==
    ASSUME NEW sid, NEW cont, NEW sar, NEW prov
    PROVE  /\ ChainOnce(Writing(SyncWrites(cont, sar, prov)))
           /\ ChainOnce(Writing(BeginWrites(sid, cont, prov)))
           /\ ChainOnce(Writing(CompleteWrites(sid, cont, sar, prov)))
<1>1. /\ ChainWrite(cont, sar, prov).to = "chains"
      /\ \A id, c : ReceiptWrite(id, c, prov).to = "receipts"
      /\ \A status : SessionWrite(sid, status, cont, prov).to = "sessions"
  BY DEF ChainWrite, ReceiptWrite, SessionWrite
<1>2. \A a, b, c : /\ Len(<<a, b, c>>) = 3 /\ Len(<<a, b>>) = 2
                   /\ <<a, b, c>>[1] = a /\ <<a, b, c>>[2] = b /\ <<a, b, c>>[3] = c
                   /\ <<a, b>>[1] = a /\ <<a, b>>[2] = b
  OBVIOUS
<1>3. \A todo : Writing(todo).todo = todo
  BY DEF Writing
<1>4. ChainOnce(Writing(SyncWrites(cont, sar, prov)))
  BY <1>1, <1>2, <1>3 DEF ChainOnce, SyncWrites
<1>5. ChainOnce(Writing(BeginWrites(sid, cont, prov)))
  BY <1>1, <1>2, <1>3 DEF ChainOnce, BeginWrites
<1>6. ChainOnce(Writing(CompleteWrites(sid, cont, sar, prov)))
  BY <1>1, <1>2, <1>3 DEF ChainOnce, CompleteWrites
<1> QED
  BY <1>4, <1>5, <1>6

(* A request that appends nothing and claims nothing it did not.           *)
LEMMA AloneBecome ==
    ASSUME IInv, Alone, NEW w \in Workers, NEW x \in Requests, Become(w, x),
           overlapped \subseteq overlapped', ChainOnce(x),
           \A cont \in ContinuityIds : \A sid \in Sessions :
                Completes(x, sid, cont) => Completes(worker[w], sid, cont),
           \A cont \in ContinuityIds : \A p \in CallerClasses : Claims(x, cont, p) =>
                \/ \A sid \in Sessions : ~HasCont(sid, cont)
                \/ /\ Claims(worker[w], cont, p)
                   /\ \A sid \in Sessions : Completes(worker[w], sid, cont) => Completes(x, sid, cont)
    PROVE  Alone'
<1>1. /\ sessions' = sessions /\ chains' = chains
      /\ worker' = [worker EXCEPT ![w] = x]
  BY DEF Become
<1>2. /\ worker'[w] = x
      /\ \A v \in Workers : v # w => worker'[v] = worker[v]
  BY <1>1 DEF IInv, TypeOK
<1>3. \A v \in Workers : ChainOnce(worker'[v])
  BY <1>2 DEF Alone
<1>4. ASSUME NEW sid \in Sessions \ overlapped', NEW cont \in ContinuityIds, HasCont(sid, cont)
      PROVE  /\ \A u, v \in Workers : \A p, q \in CallerClasses :
                Claims(worker'[u], cont, p) /\ Claims(worker'[v], cont, q) => u = v
             /\ \A u, v \in Workers :
                Completes(worker'[u], sid, cont) /\ Completes(worker'[v], sid, cont) => u = v
             /\ \A v \in Workers : \A p \in CallerClasses : Claims(worker'[v], cont, p) =>
                /\ \A c \in chains : c.chain[1] # cont
                /\ Completes(worker'[v], sid, cont) /\ p \in TrustedClasses => AllTrusted(sid)
                /\ ~Completes(worker'[v], sid, cont) => IsComplete(sid)
             /\ \A c, d \in chains : c.chain[1] = cont /\ d.chain[1] = cont => c = d
             /\ \A c \in chains : c.chain[1] = cont => IsComplete(sid)
             /\ ClassNeverRises(sid)
  <2>1. AloneSession(sid)
    BY <1>4 DEF Alone
  <2>2. \A v \in Workers : \A p \in CallerClasses : Claims(worker'[v], cont, p) =>
            /\ Claims(worker[v], cont, p)
            /\ Completes(worker'[v], sid, cont) <=> Completes(worker[v], sid, cont)
    BY <1>2, <1>4
  <2>3. \A v \in Workers : Completes(worker'[v], sid, cont) => Completes(worker[v], sid, cont)
    BY <1>2
  <2> QED
    BY <1>4, <2>1, <2>2, <2>3 DEF AloneSession
<1>5. /\ \A s, c : HasCont(s, c)' <=> HasCont(s, c)
      /\ \A s : (AllTrusted(s)' <=> AllTrusted(s)) /\ (IsComplete(s)' <=> IsComplete(s))
      /\ \A s : ClassNeverRises(s)' <=> ClassNeverRises(s)
  BY <1>1 DEF HasCont, AllTrusted, IsComplete, Latest, ClassNeverRises
<1>6. ASSUME NEW sid \in Sessions \ overlapped', NEW cont \in ContinuityIds, HasCont(sid, cont)'
      PROVE  /\ \A u, v \in Workers : \A p, q \in CallerClasses :
                Claims(worker'[u], cont, p) /\ Claims(worker'[v], cont, q) => u = v
             /\ \A u, v \in Workers :
                Completes(worker'[u], sid, cont) /\ Completes(worker'[v], sid, cont) => u = v
             /\ \A v \in Workers : \A p \in CallerClasses : Claims(worker'[v], cont, p) =>
                /\ \A c \in chains' : c.chain[1] # cont
                /\ Completes(worker'[v], sid, cont) /\ p \in TrustedClasses => AllTrusted(sid)'
                /\ ~Completes(worker'[v], sid, cont) => IsComplete(sid)'
             /\ \A c, d \in chains' : c.chain[1] = cont /\ d.chain[1] = cont => c = d
             /\ \A c \in chains' : c.chain[1] = cont => IsComplete(sid)'
             /\ ClassNeverRises(sid)'
  BY <1>1, <1>4, <1>5, <1>6
<1>7. \A sid \in Sessions \ overlapped' : AloneSession(sid)'
  BY <1>6, NextClaims DEF AloneSession
<1>8. (\A v \in Workers : ChainOnce(worker[v]))'
  BY <1>3 DEF ChainOnce
<1> QED
  BY <1>7, <1>8 DEF Alone

(* complete reads a session that is not complete: nobody has a claim to    *)
(* its id, unless another request is completing it.                        *)
LEMMA AloneComplete ==
    ASSUME IInv, Alone, NEW w \in Workers, NEW sid \in Sessions, NEW completer \in CallerClasses,
           Complete(w, sid, completer)
    PROVE  Alone'
<1>1. PICK session : session = Latest(sid)
  OBVIOUS
<1>2. PICK prov : prov = CompletedProvenance(session.prov, completer)
  OBVIOUS
<1>3. PICK x : x = [phase |-> "sar", kind |-> "complete", sid |-> sid, cont |-> session.cont, prov |-> prov]
  OBVIOUS
<1>4. /\ sessions[sid] # <<>> /\ session.status # "complete"
      /\ worker' = [worker EXCEPT ![w] = x] /\ sessions' = sessions /\ chains' = chains
      /\ overlapped' = IF Completing(sid) = {} THEN overlapped ELSE overlapped \cup {sid}
  BY <1>1, <1>2, <1>3 DEF Complete, Become
<1>5. ~IsComplete(sid)
  BY <1>1, <1>4 DEF IsComplete
<1>6. sessions[sid] \in Seq(SessionRecords) /\ Len(sessions[sid]) \in 1 .. Len(sessions[sid])
  BY <1>4, SessionStored DEF IInv, TypeOK
<1>7. /\ session \in SessionRecords /\ session = sessions[sid][Len(sessions[sid])]
      /\ session.cont = sessions[sid][1].cont /\ session.cont \in ContinuityIds
  <2>1. session = sessions[sid][Len(sessions[sid])]
    BY <1>1 DEF Latest
  <2>2. session \in SessionRecords
    BY <1>6, <2>1, ElementOfSeq
  <2>3. session.cont = sessions[sid][1].cont
    BY <1>6, <2>1 DEF IInv, SessionsAgree
  <2>4. session.cont \in ContinuityIds
    BY <2>2 DEF SessionRecords
  <2> QED
    BY <2>1, <2>2, <2>3, <2>4
<1>8. /\ \A c, p : Claims(x, c, p) => c = session.cont /\ p = prov
      /\ \A s, c : Completes(x, s, c) => s = sid
      /\ Completes(x, sid, session.cont) /\ ChainOnce(x)
  BY <1>3 DEF Claims, Completes, ChainOnce
<1>9. /\ worker'[w] = x
      /\ \A v \in Workers : v # w => worker'[v] = worker[v]
  BY <1>4 DEF IInv, TypeOK
<1>10. prov \in TrustedClasses => session.prov \in TrustedClasses
  BY <1>2 DEF CompletedProvenance, TrustedClasses, Anonymous, Internal
<1>11. ASSUME NEW s \in Sessions \ overlapped', NEW cont \in ContinuityIds, HasCont(s, cont)
       PROVE  /\ \A u, v \in Workers : \A p, q \in CallerClasses :
                Claims(worker'[u], cont, p) /\ Claims(worker'[v], cont, q) => u = v
              /\ \A u, v \in Workers :
                 Completes(worker'[u], s, cont) /\ Completes(worker'[v], s, cont) => u = v
              /\ \A v \in Workers : \A p \in CallerClasses : Claims(worker'[v], cont, p) =>
                /\ \A c \in chains : c.chain[1] # cont
                /\ Completes(worker'[v], s, cont) /\ p \in TrustedClasses => AllTrusted(s)
                /\ ~Completes(worker'[v], s, cont) => IsComplete(s)
              /\ \A c, d \in chains : c.chain[1] = cont /\ d.chain[1] = cont => c = d
              /\ \A c \in chains : c.chain[1] = cont => IsComplete(s)
              /\ ClassNeverRises(s)
  <2>1. AloneSession(s)
    BY <1>4, <1>11 DEF Alone
  <2>2. CASE s # sid
    <3>1. session.cont # cont
      BY <1>4, <1>7, <1>11, <2>2 DEF IInv, SessionsAgree, HasCont
    <3>2. /\ \A v \in Workers : \A p : Claims(worker'[v], cont, p) => worker'[v] = worker[v]
          /\ \A v \in Workers : Completes(worker'[v], s, cont) => worker'[v] = worker[v]
      BY <1>8, <1>9, <2>2, <3>1
    <3> QED
      BY <1>11, <2>1, <3>2 DEF AloneSession
  <2>3. CASE s = sid
    <3>1. cont = session.cont
      BY <1>7, <1>11, <2>3 DEF HasCont
    <3>2. Completing(sid) = {}
      BY <1>4, <1>11, <2>3
    <3>3. ASSUME NEW v \in Workers PROVE ~Completes(worker[v], sid, cont)
      <4>1. worker[v] \in Requests
        BY DEF IInv, TypeOK
      <4>2. worker[v].phase = "writing" => Head(worker[v].todo) = worker[v].todo[1]
        BY <4>1, RequestFields, HeadTailProperties
      <4> QED
        BY <3>2, <4>2 DEF Completing, Completes
    <3>4. \A v \in Workers : \A p \in CallerClasses : ~Claims(worker[v], cont, p)
      BY <1>5, <1>11, <2>1, <2>3, <3>3 DEF AloneSession
    <3>5. \A v \in Workers : \A p \in CallerClasses : Claims(worker'[v], cont, p) => v = w /\ p = prov
      BY <1>8, <1>9, <3>4
    <3>6. \A c \in chains : c.chain[1] # cont
      BY <1>5, <1>11, <2>1, <2>3 DEF AloneSession
    <3>7. ClassNeverRises(sid)
      BY <1>11, <2>1, <2>3 DEF AloneSession
    <3>8. prov \in TrustedClasses => AllTrusted(sid)
      <4>1. ASSUME prov \in TrustedClasses, NEW i \in 1 .. Len(sessions[sid])
            PROVE  sessions[sid][i].prov \in TrustedClasses
        <5>1. CASE i = Len(sessions[sid])
          BY <1>7, <1>10, <4>1, <5>1
        <5>2. CASE i < Len(sessions[sid])
          BY <1>6, <1>7, <1>10, <3>7, <4>1, <5>2 DEF ClassNeverRises
        <5> QED
          BY <1>6, <5>1, <5>2
      <4> QED
        BY <4>1 DEF AllTrusted
    <3> QED
      BY <1>8, <1>9, <2>3, <3>1, <3>3, <3>5, <3>6, <3>7, <3>8
  <2> QED
    BY <2>2, <2>3
<1>12. /\ \A s, c : HasCont(s, c)' <=> HasCont(s, c)
       /\ \A s : (AllTrusted(s)' <=> AllTrusted(s)) /\ (IsComplete(s)' <=> IsComplete(s))
       /\ \A s : ClassNeverRises(s)' <=> ClassNeverRises(s)
  BY <1>4 DEF HasCont, AllTrusted, IsComplete, Latest, ClassNeverRises
<1>13. \A v \in Workers : ChainOnce(worker'[v])
  BY <1>8, <1>9 DEF Alone
<1>14. ASSUME NEW s \in Sessions \ overlapped', NEW cont \in ContinuityIds, HasCont(s, cont)'
      PROVE  /\ \A u, v \in Workers : \A p, q \in CallerClasses :
                Claims(worker'[u], cont, p) /\ Claims(worker'[v], cont, q) => u = v
             /\ \A u, v \in Workers :
                Completes(worker'[u], s, cont) /\ Completes(worker'[v], s, cont) => u = v
             /\ \A v \in Workers : \A p \in CallerClasses : Claims(worker'[v], cont, p) =>
                /\ \A c \in chains' : c.chain[1] # cont
                /\ Completes(worker'[v], s, cont) /\ p \in TrustedClasses => AllTrusted(s)'
                /\ ~Completes(worker'[v], s, cont) => IsComplete(s)'
             /\ \A c, d \in chains' : c.chain[1] = cont /\ d.chain[1] = cont => c = d
             /\ \A c \in chains' : c.chain[1] = cont => IsComplete(s)'
             /\ ClassNeverRises(s)'
  BY <1>4, <1>11, <1>12, <1>14
<1>15. \A s \in Sessions \ overlapped' : AloneSession(s)'
  BY <1>14, NextClaims DEF AloneSession
<1>16. (\A v \in Workers : ChainOnce(worker[v]))'
  BY <1>13 DEF ChainOnce
<1> QED
  BY <1>15, <1>16 DEF Alone

(* What is left to append has at most one chain, and none once it is there. *)
LEMMA ChainOnceMoves ==
    ASSUME IInv, Alone, NEW w \in Workers, Write(w)
    PROVE  /\ \A v \in Workers : ChainOnce(worker'[v])
           /\ worker[w].todo[1].to = "chains" => \A c, p : ~Claims(worker'[w], c, p)
<1>1. PICK x : x = worker[w]
  OBVIOUS
<1>2. PICK y : y = IF Tail(x.todo) = <<>> THEN Idle ELSE Writing(Tail(x.todo))
  OBVIOUS
<1>3. x \in Requests /\ x.phase = "writing" /\ SessionFirst(x) /\ ChainOnce(x)
  BY <1>1 DEF Write, IInv, TypeOK, WritesInOrder, Alone
<1>4. /\ y \in Requests /\ SessionFirst(y)
      /\ y.phase = "writing" => /\ Len(x.todo) \in Nat /\ Len(y.todo) \in Nat
                                /\ Len(y.todo) = Len(x.todo) - 1
                                /\ \A i \in 1 .. Len(y.todo) : y.todo[i] = x.todo[i + 1]
      /\ \A s, c : ~Begins(y, s, c) /\ ~Completes(y, s, c)
  BY <1>2, <1>3, Remains
<1>5. worker' = [worker EXCEPT ![w] = y]
  BY <1>1, <1>2 DEF Write
<1>6. /\ worker'[w] = y
      /\ \A v \in Workers : v # w => worker'[v] = worker[v]
  BY <1>5 DEF IInv, TypeOK
<1>7. \A n, m \in Nat : m = n - 1 =>
        \A i \in 1 .. m : i \in Nat /\ i + 1 # 1 /\ i + 1 \in 1 .. n /\ 1 \in 1 .. n
  OBVIOUS
<1>8. ASSUME y.phase = "writing"
      PROVE  \A i \in 1 .. Len(y.todo) :
                /\ i \in Nat /\ i + 1 # 1 /\ i + 1 \in 1 .. Len(x.todo) /\ 1 \in 1 .. Len(x.todo)
                /\ y.todo[i] = x.todo[i + 1]
  BY <1>4, <1>7, <1>8
<1>9. ChainOnce(y)
  <2> SUFFICES ASSUME y.phase = "writing", NEW i \in 1 .. Len(y.todo), NEW j \in 1 .. Len(y.todo),
                      y.todo[i].to = "chains", y.todo[j].to = "chains"
               PROVE  i = j
    BY DEF ChainOnce
  <2>1. i + 1 = j + 1
    BY <1>3, <1>8 DEF ChainOnce
  <2> QED
    BY <1>8, <2>1
<1>10. ASSUME x.todo[1].to = "chains", NEW c, NEW p, Claims(y, c, p)
       PROVE  FALSE
  <2>1. CASE y.phase = "sar"
    BY <1>2, <2>1 DEF Idle, Writing
  <2>2. ASSUME y.phase = "writing", NEW i \in 1 .. Len(y.todo), y.todo[i].to = "chains"
        PROVE  FALSE
    BY <1>3, <1>8, <1>10, <2>2 DEF ChainOnce
  <2>3. CASE y.phase = "writing" /\ y.todo[1].to = "sessions"
    <3>1. Len(x.todo) > 1
      <4>1. x.todo \in Seq(Writes) /\ y.todo # <<>> /\ y.todo \in Seq(Writes)
        BY <1>3, <1>4, <2>3, RequestFields
      <4>2. Len(y.todo) > 0
        BY <4>1, EmptySeq, LenProperties
      <4> QED
        BY <1>4, <2>3, <4>2
    <3>2. 2 \in 2 .. Len(x.todo) /\ y.todo[1] = x.todo[2]
      BY <1>4, <2>3, <3>1
    <3> QED
      BY <1>3, <2>3, <3>2 DEF SessionFirst
  <2> QED
    BY <1>10, <2>1, <2>2, <2>3 DEF Claims
<1> QED
  BY <1>1, <1>3, <1>6, <1>9, <1>10 DEF Alone

(* An append that is not of a session record.                              *)
LEMMA AloneWriteRecord ==
    ASSUME IInv, Alone, NEW w \in Workers, Write(w), worker[w].todo[1].to \in {"chains", "receipts"}
    PROVE  Alone'
<1>1. PICK record : record = worker[w].todo[1].record
  OBVIOUS
<1>2. /\ Moved(w) /\ worker[w].phase = "writing" /\ worker[w].todo[1] \in Writes
      /\ 1 \in 1 .. Len(worker[w].todo) /\ Head(worker[w].todo) = worker[w].todo[1]
  BY WriteMoves
<1>3. /\ sessions' = sessions /\ overlapped' = overlapped
      /\ chains' = IF worker[w].todo[1].to = "chains" THEN chains \cup {record} ELSE chains
  BY <1>1, <1>2 DEF Write
<1>4. /\ \A s, c : HasCont(s, c)' <=> HasCont(s, c)
      /\ \A s : (AllTrusted(s)' <=> AllTrusted(s)) /\ (IsComplete(s)' <=> IsComplete(s))
      /\ \A s : ClassNeverRises(s)' <=> ClassNeverRises(s)
  BY <1>3 DEF HasCont, AllTrusted, IsComplete, Latest, ClassNeverRises
<1>5. \A s, c : ~Completes(worker[w], s, c)
  BY <1>2 DEF Completes
<1>6. ASSUME NEW s \in Sessions \ overlapped, NEW cont \in ContinuityIds, HasCont(s, cont)'
      PROVE  /\ \A u, v \in Workers : \A p, q \in CallerClasses :
                Claims(worker'[u], cont, p) /\ Claims(worker'[v], cont, q) => u = v
             /\ \A u, v \in Workers :
                Completes(worker'[u], s, cont) /\ Completes(worker'[v], s, cont) => u = v
             /\ \A v \in Workers : \A p \in CallerClasses : Claims(worker'[v], cont, p) =>
                /\ \A c \in chains' : c.chain[1] # cont
                /\ Completes(worker'[v], s, cont) /\ p \in TrustedClasses => AllTrusted(s)'
                /\ ~Completes(worker'[v], s, cont) => IsComplete(s)'
             /\ \A c, d \in chains' : c.chain[1] = cont /\ d.chain[1] = cont => c = d
             /\ \A c \in chains' : c.chain[1] = cont => IsComplete(s)'
             /\ ClassNeverRises(s)'
  <2>1. HasCont(s, cont) /\ AloneSession(s)
    BY <1>4, <1>6 DEF Alone
  <2>2. /\ \A v \in Workers : \A p \in CallerClasses :
                Claims(worker'[v], cont, p) => /\ Claims(worker[v], cont, p)
                                               /\ v = w => worker[w].todo[1].to = "receipts"
        /\ \A v \in Workers :
                /\ Completes(worker'[v], s, cont) => v # w /\ Completes(worker[v], s, cont)
                /\ v # w => worker'[v] = worker[v]
    BY <1>2, ChainOnceMoves DEF Moved
  <2>3. CASE worker[w].todo[1].to = "receipts"
    <3>1. chains' = chains
      BY <1>3, <2>3
    <3>2. \A v \in Workers : \A p \in CallerClasses : Claims(worker'[v], cont, p) =>
            (~Completes(worker'[v], s, cont) => ~Completes(worker[v], s, cont))
      BY <1>5, <2>2
    <3> QED
      BY <1>4, <2>1, <2>2, <3>1, <3>2 DEF AloneSession
  <2>4. CASE worker[w].todo[1].to = "chains"
    <3>1. record \in Chains /\ chains' = chains \cup {record}
      BY <1>1, <1>2, <1>3, <2>4 DEF Writes
    <3>2. record.prov \in CallerClasses
      BY <3>1 DEF Chains
    <3>3. record.chain[1] = cont => Claims(worker[w], cont, record.prov)
      BY <1>1, <1>2, <2>4 DEF Claims
    <3>4. \A v \in Workers : \A p \in CallerClasses :
            Claims(worker'[v], cont, p) => v # w /\ Claims(worker[v], cont, p) /\ worker'[v] = worker[v]
      BY <2>2, <2>4
    <3>5. record.chain[1] = cont =>
            /\ \A c \in chains : c.chain[1] # cont
            /\ IsComplete(s)
            /\ \A v \in Workers : \A p \in CallerClasses : ~Claims(worker'[v], cont, p)
      BY <1>5, <2>1, <3>2, <3>3, <3>4 DEF AloneSession
    <3>6. /\ \A u, v \in Workers : \A p, q \in CallerClasses :
                Claims(worker'[u], cont, p) /\ Claims(worker'[v], cont, q) => u = v
          /\ \A u, v \in Workers :
                Completes(worker'[u], s, cont) /\ Completes(worker'[v], s, cont) => u = v
          /\ ClassNeverRises(s)
      BY <2>1, <2>2, <3>4 DEF AloneSession
    <3>7. \A v \in Workers : \A p \in CallerClasses : Claims(worker'[v], cont, p) =>
            /\ \A c \in chains' : c.chain[1] # cont
            /\ Completes(worker'[v], s, cont) /\ p \in TrustedClasses => AllTrusted(s)
            /\ ~Completes(worker'[v], s, cont) => IsComplete(s)
      BY <2>1, <3>1, <3>4, <3>5 DEF AloneSession
    <3>8. /\ \A c, d \in chains' : c.chain[1] = cont /\ d.chain[1] = cont => c = d
          /\ \A c \in chains' : c.chain[1] = cont => IsComplete(s)
      BY <2>1, <3>1, <3>5 DEF AloneSession
    <3> QED
      BY <1>4, <3>6, <3>7, <3>8
  <2> QED
    BY <2>3, <2>4
<1>7. \A s \in Sessions \ overlapped : AloneSession(s)'
  BY <1>6, NextClaims DEF AloneSession
<1>8. (\A v \in Workers : ChainOnce(worker[v]))'
  BY ChainOnceMoves DEF ChainOnce
<1> QED
  BY <1>3, <1>7, <1>8 DEF Alone

(* The session record of a completion: from here on complete answers 409.  *)
LEMMA AloneWriteSession ==
    ASSUME IInv, Alone, NEW w \in Workers, Write(w), worker[w].todo[1].to = "sessions"
    PROVE  Alone'
<1>0. PICK key, record : key = worker[w].todo[1].key /\ record = worker[w].todo[1].record
  OBVIOUS
<1>1. /\ Moved(w) /\ worker[w].phase = "writing" /\ worker[w].todo[1] \in Writes
      /\ 1 \in 1 .. Len(worker[w].todo) /\ Head(worker[w].todo) = worker[w].todo[1]
      /\ worker[w].todo[1].key = key /\ worker[w].todo[1].record = record
  BY <1>0, WriteMoves
<1>2. /\ sessions' = [sessions EXCEPT ![key] = Append(@, record)]
      /\ chains' = chains /\ overlapped' = overlapped
  BY <1>1 DEF Write
<1>3. key \in Sessions /\ record \in SessionRecords
  BY <1>1 DEF Writes, Chains, Receipts
<1>4. /\ record.cont \in ContinuityIds /\ record.prov \in Provenances
      /\ record.status \in {"pending", "complete"}
  BY <1>3 DEF SessionRecords
<1>5. sessions[key] \in Seq(SessionRecords)
  BY <1>3 DEF IInv, TypeOK
<1>6. /\ sessions'[key] = Append(sessions[key], record)
      /\ \A s \in Sessions : s # key => sessions'[s] = sessions[s]
  BY <1>2, <1>3 DEF IInv, TypeOK
<1>7. /\ Len(sessions[key]) \in Nat /\ Len(sessions'[key]) = Len(sessions[key]) + 1
      /\ \A i \in 1 .. Len(sessions[key]) : sessions'[key][i] = sessions[key][i]
      /\ sessions'[key][Len(sessions[key]) + 1] = record
      /\ sessions'[key] # <<>> /\ DOMAIN sessions'[key] = 1 .. Len(sessions'[key])
  <2> DEFINE old == sessions[key]
             new == sessions'[key]
  <2>1. old \in Seq(SessionRecords) /\ record \in SessionRecords /\ new = Append(old, record)
    BY <1>3, <1>5, <1>6
  <2> HIDE DEF old, new
  <2>2. Append(old, record) \in Seq(SessionRecords) /\ Append(old, record) # <<>>
    BY <2>1, AppendProperties
  <2>3. Len(old) \in Nat /\ Len(new) = Len(old) + 1 /\ DOMAIN new = 1 .. Len(new)
    BY <2>1, <2>2, LenProperties, AppendProperties
  <2>4. /\ \A i \in 1 .. Len(old) : new[i] = old[i]
        /\ new[Len(old) + 1] = record
    BY <2>1, AppendProperties
  <2> QED
    BY <2>1, <2>2, <2>3, <2>4 DEF old, new
<1>8. /\ \A v \in Workers : \A c \in ContinuityIds : \A p \in CallerClasses :
            Claims(worker'[v], c, p) => Claims(worker[v], c, p)
      /\ \A v \in Workers : \A s \in Sessions : \A c \in ContinuityIds :
            Completes(worker'[v], s, c) => v # w /\ Completes(worker[v], s, c)
      /\ \A v \in Workers : v # w => worker'[v] = worker[v]
  BY <1>1 DEF Moved
<1>9. \A s, c : Completes(worker[w], s, c) => s = key
  BY <1>1 DEF Completes
<1>10. ASSUME NEW s \in Sessions \ overlapped, NEW cont \in ContinuityIds, HasCont(s, cont)'
      PROVE  /\ \A u, v \in Workers : \A p, q \in CallerClasses :
                Claims(worker'[u], cont, p) /\ Claims(worker'[v], cont, q) => u = v
             /\ \A u, v \in Workers :
                Completes(worker'[u], s, cont) /\ Completes(worker'[v], s, cont) => u = v
             /\ \A v \in Workers : \A p \in CallerClasses : Claims(worker'[v], cont, p) =>
                /\ \A c \in chains' : c.chain[1] # cont
                /\ Completes(worker'[v], s, cont) /\ p \in TrustedClasses => AllTrusted(s)'
                /\ ~Completes(worker'[v], s, cont) => IsComplete(s)'
             /\ \A c, d \in chains' : c.chain[1] = cont /\ d.chain[1] = cont => c = d
             /\ \A c \in chains' : c.chain[1] = cont => IsComplete(s)'
             /\ ClassNeverRises(s)'
  <2>1. CASE s # key
    <3>1. sessions'[s] = sessions[s]
      BY <1>6, <1>10, <2>1
    <3>2. /\ HasCont(s, cont) /\ (AllTrusted(s)' <=> AllTrusted(s)) /\ (IsComplete(s)' <=> IsComplete(s))
          /\ ClassNeverRises(s)' <=> ClassNeverRises(s)
      BY <1>10, <3>1 DEF HasCont, AllTrusted, IsComplete, Latest, ClassNeverRises
    <3>3. AloneSession(s)
      BY <1>10 DEF Alone
    <3>4. \A v \in Workers : Completes(worker[v], s, cont) => worker'[v] = worker[v]
      BY <1>8, <1>9, <2>1
    <3> QED
      BY <1>2, <1>8, <1>10, <3>2, <3>3, <3>4 DEF AloneSession
  <2>2. CASE s = key /\ record.status = "pending"
    <3>1. Begins(worker[w], key, record.cont)
      BY <1>1, <2>2 DEF Begins
    <3>2. /\ sessions[key] = <<>>
          /\ \A t \in Sessions : ~HasCont(t, record.cont)
          /\ \A c \in chains : c.chain[1] # record.cont
          /\ \A v \in Workers : \A p \in CallerClasses : ~Claims(worker[v], record.cont, p)
      BY <1>3, <1>4, <3>1 DEF IInv, BeginsAlone
    <3>3. Len(sessions'[key]) = 1 /\ sessions'[key][1] = record
      BY <1>7, <3>2, EmptySeq
    <3>4. cont = record.cont
      BY <1>10, <2>2, <3>3 DEF HasCont
    <3>5. \A v \in Workers : ~Completes(worker[v], key, cont)
      BY <1>3, <3>2, <3>4 DEF IInv, CompletesOwn
    <3>6. ClassNeverRises(key)'
      <4>1. \A i \in DOMAIN sessions'[key] : i = 1
        BY <1>7, <3>3
      <4> QED
        BY <4>1 DEF ClassNeverRises
    <3> QED
      BY <1>2, <1>8, <1>10, <2>2, <3>2, <3>4, <3>5, <3>6
  <2>3. CASE s = key /\ record.status = "complete"
    <3>1. Completes(worker[w], key, record.cont)
      BY <1>1, <2>3 DEF Completes
    <3>2. HasCont(key, record.cont)
      BY <1>3, <1>4, <3>1 DEF IInv, CompletesOwn
    <3>3. Len(sessions[key]) > 0
      BY <1>5, <1>7, <3>2, EmptySeq DEF HasCont
    <3>4. cont = record.cont /\ HasCont(key, cont)
      BY <1>7, <1>10, <2>3, <3>2, <3>3 DEF HasCont
    <3>5. AloneSession(key)
      BY <1>10, <2>3 DEF Alone
    <3>6. IsComplete(key)'
      BY <1>7, <2>3 DEF IsComplete, Latest
    <3>7. \A v \in Workers : ~Completes(worker'[v], key, cont)
      BY <1>3, <1>8, <3>1, <3>4, <3>5 DEF AloneSession
    <3>8. record.prov \in TrustedClasses => AllTrusted(key)
      <4>1. Claims(worker[w], cont, record.prov)
        BY <1>1, <2>3, <3>4 DEF Claims
      <4> QED
        BY <1>3, <3>1, <3>4, <3>5, <4>1 DEF AloneSession, TrustedClasses, CallerClasses
    <3>9. ClassNeverRises(key)'
      <4> SUFFICES ASSUME NEW i \in 1 .. Len(sessions'[key]), NEW j \in 1 .. Len(sessions'[key]), i < j,
                          sessions'[key][j].prov \in TrustedClasses
                   PROVE  sessions'[key][i].prov \in TrustedClasses
        BY <1>7 DEF ClassNeverRises
      <4>1. i \in 1 .. Len(sessions[key]) /\ sessions'[key][i] = sessions[key][i]
        BY <1>7
      <4>2. CASE j = Len(sessions[key]) + 1
        BY <1>7, <3>8, <4>1, <4>2 DEF AllTrusted
      <4>3. CASE j # Len(sessions[key]) + 1
        <5>1. j \in 1 .. Len(sessions[key]) /\ sessions'[key][j] = sessions[key][j]
          BY <1>7, <4>3
        <5>2. ClassNeverRises(key)
          BY <3>4, <3>5 DEF AloneSession
        <5> QED
          BY <1>5, <4>1, <5>1, <5>2 DEF ClassNeverRises
      <4> QED
        BY <4>2, <4>3
    <3> QED
      BY <1>2, <1>8, <1>10, <2>3, <3>4, <3>5, <3>6, <3>7, <3>9 DEF AloneSession
  <2> QED
    BY <1>4, <2>1, <2>2, <2>3
<1>11. \A s \in Sessions \ overlapped : AloneSession(s)'
  BY <1>10, NextClaims DEF AloneSession
<1>12. (\A v \in Workers : ChainOnce(worker[v]))'
  BY ChainOnceMoves DEF ChainOnce
<1> QED
  BY <1>2, <1>11, <1>12 DEF Alone

LEMMA IdleChainOnce == ChainOnce(Idle)
BY DEF ChainOnce, Idle

LEMMA AloneInit == Init => Alone
<1> SUFFICES ASSUME Init PROVE Alone
  OBVIOUS
<1>1. PICK old \in Sessions \cup {None}, cont \in ContinuityIds :
        sessions = [sid \in Sessions |-> IF sid = old THEN <<LegacySession(cont)>> ELSE <<>>]
  BY DEF Init
<1>2. PICK first : first = LegacySession(cont)
  OBVIOUS
<1>3. DOMAIN <<first>> = {1} /\ DOMAIN <<>> = {}
  OBVIOUS
<1>4. chains = {} /\ overlapped = {} /\ worker = [w \in Workers |-> Idle]
  BY DEF Init
<1>5. \A sid \in Sessions : ClassNeverRises(sid)
  BY <1>1, <1>2, <1>3 DEF ClassNeverRises
<1>6. \A w \in Workers :
        /\ \A c, p : ~Claims(worker[w], c, p)
        /\ \A s, c : ~Completes(worker[w], s, c)
  BY <1>4, IdleHasNothing
<1>7. \A sid \in Sessions : AloneSession(sid)
  BY <1>4, <1>5, <1>6 DEF AloneSession
<1>8. \A w \in Workers : ChainOnce(worker[w])
  BY <1>4, IdleChainOnce
<1> QED
  BY <1>7, <1>8 DEF Alone

LEMMA AloneCrash ==
    ASSUME IInv, Alone, Crash
    PROVE  Alone'
<1>1. /\ sessions' = sessions /\ chains' = chains /\ overlapped' = overlapped
      /\ worker' = [w \in Workers |-> Idle]
  BY DEF Crash
<1>2. \A v \in Workers :
        /\ ChainOnce(worker'[v])
        /\ \A c, p : ~Claims(worker'[v], c, p)
        /\ \A s, c : ~Completes(worker'[v], s, c)
  BY <1>1, IdleHasNothing, IdleChainOnce
<1>3. /\ \A s, c : HasCont(s, c)' <=> HasCont(s, c)
      /\ \A s : (AllTrusted(s)' <=> AllTrusted(s)) /\ (IsComplete(s)' <=> IsComplete(s))
      /\ \A s : ClassNeverRises(s)' <=> ClassNeverRises(s)
  BY <1>1 DEF HasCont, AllTrusted, IsComplete, Latest, ClassNeverRises
<1>4. ASSUME NEW s \in Sessions \ overlapped, NEW cont \in ContinuityIds, HasCont(s, cont)'
      PROVE  /\ \A u, v \in Workers : \A p, q \in CallerClasses :
                Claims(worker'[u], cont, p) /\ Claims(worker'[v], cont, q) => u = v
             /\ \A u, v \in Workers :
                Completes(worker'[u], s, cont) /\ Completes(worker'[v], s, cont) => u = v
             /\ \A v \in Workers : \A p \in CallerClasses : Claims(worker'[v], cont, p) =>
                /\ \A c \in chains' : c.chain[1] # cont
                /\ Completes(worker'[v], s, cont) /\ p \in TrustedClasses => AllTrusted(s)'
                /\ ~Completes(worker'[v], s, cont) => IsComplete(s)'
             /\ \A c, d \in chains' : c.chain[1] = cont /\ d.chain[1] = cont => c = d
             /\ \A c \in chains' : c.chain[1] = cont => IsComplete(s)'
             /\ ClassNeverRises(s)'
  BY <1>1, <1>2, <1>3, <1>4 DEF Alone, AloneSession
<1>5. \A s \in Sessions \ overlapped : AloneSession(s)'
  BY <1>4, NextClaims DEF AloneSession
<1>6. (\A v \in Workers : ChainOnce(worker[v]))'
  BY <1>2 DEF ChainOnce
<1> QED
  BY <1>1, <1>5, <1>6 DEF Alone

LEMMA AloneNext == IInv /\ Alone /\ [Next]_vars => Alone'
<1> SUFFICES ASSUME IInv, Alone, [Next]_vars PROVE Alone'
  OBVIOUS
<1>1. CASE UNCHANGED vars
  <2>1. sessions' = sessions /\ chains' = chains /\ overlapped' = overlapped /\ worker' = worker
    BY <1>1 DEF vars
  <2>2. /\ \A s, c : HasCont(s, c)' <=> HasCont(s, c)
        /\ \A s : (AllTrusted(s)' <=> AllTrusted(s)) /\ (IsComplete(s)' <=> IsComplete(s))
        /\ \A s : ClassNeverRises(s)' <=> ClassNeverRises(s)
    BY <2>1 DEF HasCont, AllTrusted, IsComplete, Latest, ClassNeverRises
  <2>3. /\ \A v : ChainOnce(worker[v])' <=> ChainOnce(worker[v])
        /\ \A v, c, p : Claims(worker[v], c, p)' <=> Claims(worker[v], c, p)
        /\ \A v, s, c : Completes(worker[v], s, c)' <=> Completes(worker[v], s, c)
    BY <2>1 DEF ChainOnce, Claims, Completes
  <2>4. \A s \in Sessions : AloneSession(s) => AloneSession(s)'
    BY <2>1, <2>2, <2>3 DEF AloneSession
  <2> QED
    BY <2>1, <2>3, <2>4 DEF Alone
<1>2. CASE Crash
  BY <1>2, AloneCrash
<1>3. ASSUME NEW w \in Workers, NEW x \in Requests, x.phase \in {"idle", "continuity"}, Become(w, x),
             overlapped' = overlapped
      PROVE  Alone'
  <2>1. /\ ChainOnce(x)
        /\ \A c, p : ~Claims(x, c, p)
        /\ \A s, c : ~Completes(x, s, c)
    BY <1>3 DEF ChainOnce, Claims, Completes
  <2> QED
    BY <1>3, <2>1, AloneBecome
<1>4. ASSUME NEW w \in Workers, NEW cont \in ContinuityIds, ContinuityAnswered(w, cont)
      PROVE  Alone'
  <2>1. /\ worker[w].phase = "continuity" /\ worker[w].prov \in CallerClasses
        /\ worker[w].kind \in {"sync", "begin"} /\ overlapped' = overlapped
    BY <1>4, RequestFields DEF ContinuityAnswered, IInv, TypeOK
  <2>2. \A s \in Sessions : ~HasCont(s, cont)
    BY <1>4 DEF ContinuityAnswered, IInv, UsedIsIssued
  <2>3. CASE worker[w].kind = "sync"
    <3>1. PICK x : x = [phase |-> "sar", kind |-> "sync", cont |-> cont, prov |-> worker[w].prov]
      OBVIOUS
    <3>2. Become(w, x)
      BY <1>4, <2>3, <3>1 DEF ContinuityAnswered
    <3>3. /\ x \in Requests /\ ChainOnce(x)
          /\ \A c, p : Claims(x, c, p) => c = cont
          /\ \A s, c : ~Completes(x, s, c)
      BY <2>1, <3>1 DEF Requests, ChainOnce, Claims, Completes
    <3> QED
      BY <2>1, <2>2, <3>2, <3>3, AloneBecome
  <2>4. CASE worker[w].kind = "begin"
    <3>1. PICK sid \in Sessions \ issued : Become(w, Writing(BeginWrites(sid, cont, worker[w].prov)))
      BY <1>4, <2>4 DEF ContinuityAnswered
    <3>2. PICK x : x = Writing(BeginWrites(sid, cont, worker[w].prov))
      OBVIOUS
    <3>3. /\ x \in Requests
          /\ \A c, p : ~Claims(x, c, p)
          /\ \A s, c : ~Completes(x, s, c)
      BY <2>1, <3>2, BeginList
    <3>4. ChainOnce(x)
      BY <3>2, ListsChainOnce
    <3> QED
      BY <2>1, <3>1, <3>2, <3>3, <3>4, AloneBecome
  <2> QED
    BY <2>1, <2>3, <2>4
<1>5. ASSUME NEW w \in Workers, NEW sar \in SarIds, SarAnswered(w, sar)
      PROVE  Alone'
  <2> DEFINE r == worker[w]
  <2>1. /\ r.phase = "sar" /\ r.cont \in ContinuityIds /\ r.prov \in CallerClasses
        /\ r.kind \in {"sync", "complete"} /\ (r.kind = "complete" => r.sid \in Sessions)
        /\ overlapped' = overlapped
    BY <1>5, RequestFields DEF SarAnswered, IInv, TypeOK
  <2>2. /\ Claims(r, r.cont, r.prov)
        /\ r.kind = "sync" => \A s, c : ~Completes(r, s, c)
        /\ r.kind = "complete" => \A s, c : Completes(r, s, c) <=> s = r.sid /\ c = r.cont
    BY <2>1 DEF Claims, Completes
  <2>3. CASE r.kind = "sync"
    <3>1. PICK x : x = Writing(SyncWrites(r.cont, sar, r.prov))
      OBVIOUS
    <3>2. Become(w, x)
      BY <1>5, <2>3, <3>1 DEF SarAnswered
    <3>3. /\ x \in Requests
          /\ \A c, p : Claims(x, c, p) => c = r.cont /\ p = r.prov
          /\ \A s, c : ~Completes(x, s, c)
      BY <2>1, <3>1, SyncList
    <3>4. ChainOnce(x)
      BY <3>1, ListsChainOnce
    <3> QED
      BY <2>1, <2>2, <2>3, <3>2, <3>3, <3>4, AloneBecome
  <2>4. CASE r.kind = "complete"
    <3>1. PICK x : x = Writing(CompleteWrites(r.sid, r.cont, sar, r.prov))
      OBVIOUS
    <3>2. Become(w, x)
      BY <1>5, <2>4, <3>1 DEF SarAnswered
    <3>3. /\ x \in Requests
          /\ \A c, p : Claims(x, c, p) => c = r.cont /\ p = r.prov
          /\ \A s, c : Completes(x, s, c) => s = r.sid /\ c = r.cont
      BY <2>1, <2>4, <3>1, CompleteList
    <3>4. ChainOnce(x)
      BY <3>1, ListsChainOnce
    <3>5. Completes(x, r.sid, r.cont)
      BY <3>1 DEF Writing, CompleteWrites, SessionWrite, Completes
    <3>6. \A s, c : Completes(x, s, c) <=> Completes(r, s, c)
      BY <2>2, <2>4, <3>3, <3>5
    <3> QED
      BY <2>1, <2>2, <3>2, <3>3, <3>4, <3>6, AloneBecome
  <2> QED
    BY <2>1, <2>3, <2>4
<1>6. ASSUME NEW w \in Workers, Step(w)
      PROVE  Alone'
  <2>1. ASSUME NEW prov \in CallerClasses, Attest(w, prov)
        PROVE  Alone'
    <3> DEFINE x == [phase |-> "continuity", kind |-> "sync", prov |-> prov]
    <3>1. x \in Requests /\ x.phase = "continuity"
      BY DEF Requests
    <3> QED
      BY <1>3, <2>1, <3>1 DEF Attest
  <2>2. ASSUME NEW prov \in CallerClasses, Begin(w, prov)
        PROVE  Alone'
    <3> DEFINE x == [phase |-> "continuity", kind |-> "begin", prov |-> prov]
    <3>1. x \in Requests /\ x.phase = "continuity"
      BY DEF Requests
    <3> QED
      BY <1>3, <2>2, <3>1 DEF Begin
  <2>3. ASSUME NEW sid \in Sessions, NEW prov \in CallerClasses, Complete(w, sid, prov)
        PROVE  Alone'
    BY <2>3, AloneComplete
  <2>4. CASE CallFails(w) \/ WriteFails(w)
    BY <1>3, <2>4, IdleRequest DEF CallFails, WriteFails
  <2>5. CASE Write(w)
    <3>1. worker[w].todo[1] \in Writes
      BY <2>5, WriteMoves
    <3>2. worker[w].todo[1].to \in {"sessions", "chains", "receipts"}
      BY <3>1 DEF Writes
    <3> QED
      BY <2>5, <3>2, AloneWriteSession, AloneWriteRecord
  <2> QED
    BY <1>4, <1>5, <1>6, <2>1, <2>2, <2>3, <2>4, <2>5 DEF Step
<1> QED
  BY <1>1, <1>2, <1>6 DEF Next

LEMMA AloneInductive == Spec => [](IInv /\ Alone)
<1> QED
  BY InitIInv, NextIInv, AloneInit, AloneNext, PTL DEF Spec

(* The record of a session never becomes more trusted than it was, unless  *)
(* two requests were completing it at once (complete, begin_provenance).   *)
THEOREM RecordsOnlyLoseTrust == Spec => []RecordNeverMoreTrustedAlone
<1>1. ASSUME IInv, Alone, NEW sid \in Sessions \ overlapped
      PROVE  ClassNeverRises(sid)
  <2>1. CASE sessions[sid] = <<>>
    BY <2>1 DEF ClassNeverRises
  <2>2. CASE sessions[sid] # <<>>
    BY <1>1, <2>2, SessionStored DEF Alone, AloneSession, SessionRecords
  <2> QED
    BY <2>1, <2>2
<1>2. IInv /\ Alone => RecordNeverMoreTrustedAlone
  BY <1>1 DEF RecordNeverMoreTrustedAlone
<1> QED
  BY <1>2, AloneInductive, PTL

(* A session has at most one chain, restarts included, unless two requests *)
(* were completing it at once: complete answers 409 on a complete session. *)
THEOREM AtMostOneChain == Spec => []OneChainPerSession
<1>1. ASSUME IInv, Alone, NEW sid \in Sessions \ overlapped
      PROVE  Cardinality(ChainsOf(sid)) =< 1
  <2>1. sessions[sid] \in Seq(SessionRecords)
    BY <1>1 DEF IInv, TypeOK
  <2>2. ASSUME NEW c \in ChainsOf(sid), NEW d \in ChainsOf(sid)
        PROVE  c = d
    <3>1. c \in chains /\ d \in chains /\ sessions[sid] # <<>>
      BY <2>2 DEF ChainsOf
    <3>2. HasCont(sid, sessions[sid][1].cont) /\ sessions[sid][1].cont \in ContinuityIds
      BY <1>1, <3>1, SessionStored DEF SessionRecords
    <3>3. \A i \in DOMAIN sessions[sid] : sessions[sid][i].cont = sessions[sid][1].cont
      BY <1>1, <2>1 DEF IInv, SessionsAgree
    <3>4. c.chain[1] = sessions[sid][1].cont /\ d.chain[1] = sessions[sid][1].cont
      BY <2>2, <3>3 DEF ChainsOf
    <3> QED
      BY <1>1, <3>1, <3>2, <3>4 DEF Alone, AloneSession
  <2>3. CASE ChainsOf(sid) = {}
    BY <2>3, FS_EmptySet
  <2>4. CASE ChainsOf(sid) # {}
    <3>1. PICK c : c \in ChainsOf(sid)
      BY <2>4
    <3>2. ChainsOf(sid) = {c}
      BY <2>2, <3>1
    <3>3. Cardinality({c}) = 1
      BY FS_Singleton
    <3> QED
      BY <3>2, <3>3
  <2> QED
    BY <2>3, <2>4
<1>2. IInv /\ Alone => OneChainPerSession
  BY <1>1 DEF OneChainPerSession
<1> QED
  BY <1>2, AloneInductive, PTL
=============================================================================
