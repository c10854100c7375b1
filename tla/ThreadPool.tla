------------------------------ MODULE ThreadPool ------------------------------
(***************************************************************************)
(* The thread pool of the one service process: FastAPI runs every handler  *)
(* declared with a plain def in a thread of its own, from the request to   *)
(* its answer.  The handlers of the public endpoints are built on it.      *)
(***************************************************************************)
EXTENDS Naturals

CONSTANTS
    Threads,
    MaxRequests     \* bound on the requests accepted

ASSUME PoolAssumption == MaxRequests \in Nat

VARIABLES
    thread,         \* per thread, the progress of the request it serves
    accepted        \* requests accepted so far

Idle == [phase |-> "idle"]

PoolInit ==
    /\ thread = [t \in Threads |-> Idle]
    /\ accepted = 0

(* A free thread takes a request up to the first point where it waits.     *)
Accept(t, state) ==
    /\ thread[t] = Idle
    /\ accepted < MaxRequests
    /\ accepted' = accepted + 1
    /\ thread' = [thread EXCEPT ![t] = state]

Continue(t, state) ==
    /\ thread' = [thread EXCEPT ![t] = state]
    /\ UNCHANGED accepted

Finish(t) == Continue(t, Idle)
=============================================================================
