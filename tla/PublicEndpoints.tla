---------------------------- MODULE PublicEndpoints ----------------------------
(***************************************************************************)
(* The two endpoints that issue receipts to the public, in the one process *)
(* whose threads they share.  A restart loses the requests in progress and *)
(* the rate limiter's memory; what the facilitator did remains.            *)
(***************************************************************************)
EXTENDS DemoReceipt, UrlSummary

CONSTANT MaxRestarts

ASSUME RestartAssumption == MaxRestarts \in Nat

VARIABLE restarts

vars == <<thread, accepted, restarts, demoVars, payVars>>

Init ==
    /\ PoolInit
    /\ DemoInit
    /\ PayInit
    /\ restarts = 0

Asked == {t \in Threads : thread[t].phase = "settling"}

Restart ==
    /\ restarts < MaxRestarts
    /\ restarts' = restarts + 1
    /\ thread' = [t \in Threads |-> Idle]
    /\ rateState' = [c \in Clients |-> {}]
    /\ admitted' = [c \in Clients |-> {}]
    /\ overlapped' = {}
    /\ hitsTaken' = 0
    /\ env' \in Environments
    /\ inflight' = inflight \cup {thread[t].req.payment : t \in Asked}
    /\ unresolved' = unresolved \cup {thread[t].req.payment : t \in Asked} \cup (InProgress \ {None})
    /\ UNCHANGED <<accepted, clock, stepBacks, settled, receipts>>

Next ==
    \/ DemoNext /\ UNCHANGED <<payVars, restarts>>
    \/ PayNext /\ UNCHANGED <<demoVars, restarts>>
    \/ Restart

Spec == Init /\ [][Next]_vars

-----------------------------------------------------------------------------
(* Both endpoints keep their state in shape, and a thread serves one of    *)
(* them.                                                                   *)
TypeOK ==
    /\ thread \in [Threads -> DemoPhases \cup PayPhases]
    /\ accepted \in 0 .. MaxRequests
    /\ restarts \in 0 .. MaxRestarts
    /\ DemoTypeOK
    /\ PayTypeOK
=============================================================================
