------------------------------ MODULE DemoReceipt ------------------------------
(***************************************************************************)
(* POST /v1/demo-receipt (attest_service.py): a fixed receipt issued       *)
(* through settlement-witness for anyone who asks, at most                 *)
(* DEMO_RATE_LIMIT_MAX_PER_IP times per client and window.                 *)
(*                                                                         *)
(* The limiter reads the client's list of hits, decides, and puts a new    *)
(* list back.  No lock joins the two, so a thread may be preempted between *)
(* them: ReadRate and WriteRate.  The order of a list of hits never        *)
(* matters, only which are in it and when each came: it is a set of hits.  *)
(* A hit is the time it came, and what tells it from the others: a number  *)
(* of its own, and how often the wall clock had been stepped back by then. *)
(***************************************************************************)
EXTENDS ThreadPool, FiniteSets

CONSTANTS
    Clients,        \* client addresses
    RateMax,        \* DEMO_RATE_LIMIT_MAX_PER_IP
    Window,         \* DEMO_RATE_LIMIT_WINDOW_SECONDS
    MaxClock,       \* bound on the clock
    MaxStepBacks    \* bound on how often it is stepped back

ASSUME RateAssumption ==
    RateMax \in Nat /\ Window \in Nat /\ MaxClock \in Nat /\ MaxStepBacks \in Nat

VARIABLES
    clock,          \* time.time()
    stepBacks,      \* history: how often it has been stepped back
    rateState,      \* _demo_rate_state, in the memory of the process
    admitted,       \* history: per client, the hits that were let through
    overlapped,     \* history: clients that were in the limiter twice at once
    hitsTaken       \* history: hits so far, which number them

demoVars == <<clock, stepBacks, rateState, admitted, overlapped, hitsTaken>>

DemoInit ==
    /\ clock = 0
    /\ stepBacks = 0
    /\ rateState = [c \in Clients |-> {}]
    /\ admitted = [c \in Clients |-> {}]
    /\ overlapped = {}
    /\ hitsTaken = 0

Limiting(c) == {t \in Threads : thread[t].phase = "limiting" /\ thread[t].client = c}

(* Mutant: hits leave the list one instant early.                          *)
RecentStrict(hit, now) == hit.at + Window > now

(* t >= cutoff, without negative numbers.                                  *)
Recent(hit, now) == hit.at + Window >= now

(* Mutant: a rejected request counts as a hit too.                         *)
HitsCountingRejected(hits, hit) == hits \cup {hit}

NewHits(hits, hit) == IF Cardinality(hits) >= RateMax THEN hits ELSE hits \cup {hit}

(* _demo_rate_limited up to the assignment that puts the list back.        *)
ReadRate(t, c) ==
    LET hits == {hit \in rateState[c] : Recent(hit, clock)}
        limited == Cardinality(hits) >= RateMax
        mine == [number |-> hitsTaken, at |-> clock, era |-> stepBacks]
    IN
    /\ Accept(t, [phase |-> "limiting", client |-> c, hit |-> mine,
                  limited |-> limited, hits |-> NewHits(hits, mine)])
    /\ hitsTaken' = IF limited THEN hitsTaken ELSE hitsTaken + 1
    /\ overlapped' = IF Limiting(c) = {} THEN overlapped ELSE overlapped \cup {c}
    /\ UNCHANGED <<clock, stepBacks, rateState, admitted>>

(* The list is put back; a limited client is answered 429.                 *)
WriteRate(t) ==
    LET run == thread[t] IN
    /\ run.phase = "limiting"
    /\ rateState' = [rateState EXCEPT ![run.client] = run.hits]
    /\ IF run.limited
       THEN Finish(t) /\ UNCHANGED admitted
       ELSE /\ Continue(t, [phase |-> "issuing"])
            /\ admitted' = [admitted EXCEPT ![run.client] = @ \cup {run.hit}]
    /\ UNCHANGED <<clock, stepBacks, overlapped, hitsTaken>>

(* settlement-witness answers with a receipt (200), without one or with an *)
(* error (502), or the call times out (500).                               *)
SarReplies(t) ==
    /\ thread[t].phase = "issuing"
    /\ Finish(t)
    /\ UNCHANGED demoVars

Tick ==
    /\ clock < MaxClock
    /\ clock' = clock + 1
    /\ UNCHANGED <<thread, accepted, stepBacks, rateState, admitted, overlapped, hitsTaken>>

(* The wall clock is corrected.                                            *)
StepBack ==
    /\ stepBacks < MaxStepBacks
    /\ stepBacks' = stepBacks + 1
    /\ \E now \in 0 .. MaxClock : now < clock /\ clock' = now
    /\ UNCHANGED <<thread, accepted, rateState, admitted, overlapped, hitsTaken>>

DemoNext ==
    \/ \E t \in Threads :
        \/ \E c \in Clients : ReadRate(t, c)
        \/ WriteRate(t)
        \/ SarReplies(t)
    \/ Tick
    \/ StepBack

-----------------------------------------------------------------------------
Hits == [number : 0 .. MaxRequests, at : 0 .. MaxClock, era : 0 .. MaxStepBacks]

DemoPhases ==
    [phase : {"limiting"}, client : Clients, hit : Hits, limited : BOOLEAN, hits : SUBSET Hits]
    \cup [phase : {"issuing"}]

DemoTypeOK ==
    /\ clock \in 0 .. MaxClock
    /\ stepBacks \in 0 .. MaxStepBacks
    /\ rateState \in [Clients -> SUBSET Hits]
    /\ admitted \in [Clients -> SUBSET Hits]
    /\ overlapped \subseteq Clients
    /\ hitsTaken \in 0 .. accepted

(* Between one step back of the clock and the next, and since the process  *)
(* started, no client is let through more than RateMax times in any        *)
(* window, unless two of its requests were in the limiter at once and one  *)
(* put back a list without the other's hit.  Each step back lets a client  *)
(* through up to RateMax times more (_demo_rate_limited).                  *)
LimitHoldsAlone ==
    \A c \in Clients \ overlapped : \A era \in 0 .. stepBacks : \A now \in 0 .. MaxClock :
        Cardinality({hit \in admitted[c] :
            hit.era = era /\ hit.at =< now /\ hit.at + Window >= now}) =< RateMax

(* No client is answered 429 that was not let through RateMax times within *)
(* the window, or at times the clock has yet to reach again: whatever the  *)
(* limiter's threads overwrite, they only ever lose hits                   *)
(* (_demo_rate_limited).                                                   *)
LimitedIsJustified ==
    \A t \in Threads : thread[t].phase = "limiting" /\ thread[t].limited =>
        LET c == thread[t].client
            now == thread[t].hit.at
        IN  Cardinality({hit \in admitted[c] : hit.at + Window >= now}) >= RateMax
=============================================================================
