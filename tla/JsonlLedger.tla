------------------------------ MODULE JsonlLedger ------------------------------
(***************************************************************************)
(* The byte layer of every JSONL ledger: append_jsonl and read_jsonl of    *)
(* attest_service.py, and their copies in the stores.  An append writes    *)
(* one line under an exclusive file lock; a read takes no lock, splits the *)
(* text into lines and fails if one of them is not a JSON document.        *)
(*                                                                         *)
(* A record's text is two halves and a line break.  json.dumps is told     *)
(* ensure_ascii=False and str.splitlines breaks at U+0085, U+2028 and      *)
(* U+2029 too, so a record that holds one of them has a break between its  *)
(* halves.  A record longer than the file's buffer is written in several   *)
(* system calls, any other in one.  A write may fail half way (full disk); *)
(* the file object then still holds the rest, and closing it, after the    *)
(* lock was given back, tries to write that.                               *)
(***************************************************************************)
EXTENDS Naturals, Sequences, FiniteSets

CONSTANTS
    None,
    Writers,        \* threads and processes that append
    Records,
    Splitting,      \* records with a line separator in a string
    Long,           \* records longer than the buffer
    MaxAppends, MaxFaults   \* bounds on appends, and on failures and crashes

ASSUME BoundAssumption == MaxAppends \in Nat /\ MaxFaults \in Nat

ASSUME WritersAssumption == IsFiniteSet(Writers)

ASSUME RecordAssumption ==
    /\ None \notin Records \cup Writers
    /\ Splitting \subseteq Records
    /\ Long \subseteq Records

VARIABLES
    locking,        \* the ledger's append takes the lock (one does not)
    file,           \* the text
    lock,           \* the writer that holds the lock
    writer,         \* per writer, its append and the text it has yet to write
    lastRead,       \* what the last read that succeeded returned
    acknowledged,   \* history: per record, appends that returned
    spoiled,        \* history: a write left a partial line, went between the
                    \* halves of another one or held a line separator
    appends, faults

vars == <<locking, file, lock, writer, lastRead, acknowledged, spoiled, appends, faults>>

Half(r, n) == [record |-> r, half |-> n]
Break == Half(None, 0)

Text(r) ==
    IF r \in Splitting THEN <<Half(r, 1), Break, Half(r, 2), Break>>
    ELSE <<Half(r, 1), Half(r, 2), Break>>

Idle == [phase |-> "idle"]

Appending(phase, r, rest) == [phase |-> phase, record |-> r, rest |-> rest]

-----------------------------------------------------------------------------
(* read_jsonl.  Every nonempty line must be the two halves of one record.  *)
StartsLine(i) == i > 1 => file[i - 1] = Break
EndsLine(i) == i < Len(file) => file[i + 1] = Break

Parses ==
    \A i \in DOMAIN file :
        /\ file[i].half = 1 =>
            /\ StartsLine(i)
            /\ i < Len(file) /\ file[i + 1] = Half(file[i].record, 2)
        /\ file[i].half = 2 =>
            /\ EndsLine(i)
            /\ i > 1 /\ file[i - 1] = Half(file[i].record, 1)

(* Where a record ends, which the k-th of these is, and so the records.    *)
Ends == {i \in DOMAIN file : file[i].half = 2}

Nth(k) == CHOOSE i \in Ends : Cardinality({j \in Ends : j =< i}) = k

ReadJsonl == [k \in 1 .. Cardinality(Ends) |-> file[Nth(k)].record]

(* The text of writer w is partly in the file.                             *)
Midway(w) == writer[w].phase \in {"writing", "closing"} /\ writer[w].rest # Text(writer[w].record)

(* Two appends write at once: one of them without the lock.                *)
Overlaps(w) ==
    \E v \in Writers \ {w} :
        Midway(v) /\ (~locking \/ "closing" \in {writer[v].phase, writer[w].phase})

-----------------------------------------------------------------------------
Init ==
    /\ locking \in BOOLEAN
    /\ file = <<>>
    /\ lock = None
    /\ writer = [w \in Writers |-> Idle]
    /\ lastRead = <<>>
    /\ acknowledged = [r \in Records |-> 0]
    /\ spoiled = FALSE
    /\ appends = 0
    /\ faults = 0

(* Mutant: opening the file truncates it.                                  *)
OpenTruncates(w, r) ==
    /\ writer[w] = Idle
    /\ appends < MaxAppends
    /\ appends' = appends + 1
    /\ writer' = [writer EXCEPT ![w] = Appending("opened", r, Text(r))]
    /\ file' = <<>>
    /\ UNCHANGED <<locking, lock, lastRead, acknowledged, spoiled, faults>>

(* The file is opened for appending.                                       *)
Open(w, r) ==
    /\ writer[w] = Idle
    /\ appends < MaxAppends
    /\ appends' = appends + 1
    /\ writer' = [writer EXCEPT ![w] = Appending("opened", r, Text(r))]
    /\ UNCHANGED <<locking, file, lock, lastRead, acknowledged, spoiled, faults>>

Become(w, phase) == writer' = [writer EXCEPT ![w].phase = phase]

(* Mutant: the lock is not exclusive.                                      *)
AcquireShared(w) ==
    /\ writer[w].phase = "opened"
    /\ lock' = w
    /\ Become(w, "writing")
    /\ UNCHANGED <<locking, file, lastRead, acknowledged, spoiled, appends, faults>>

Acquire(w) ==
    /\ writer[w].phase = "opened"
    /\ locking => lock = None
    /\ lock' = IF locking THEN w ELSE lock
    /\ Become(w, "writing")
    /\ UNCHANGED <<locking, file, lastRead, acknowledged, spoiled, appends, faults>>

(* The first n pieces of what w has left reach the file.                   *)
Put(w, n) == file' = file \o SubSeq(writer[w].rest, 1, n)

Left(w, n) == SubSeq(writer[w].rest, n + 1, Len(writer[w].rest))

(* One system call: all that is left, or some of it of a long record.      *)
Write(w) ==
    /\ writer[w].phase = "writing"
    /\ \E n \in 1 .. Len(writer[w].rest) :
        /\ writer[w].record \notin Long => n = Len(writer[w].rest)
        /\ Put(w, n)
        /\ writer' = [writer EXCEPT ![w].rest = Left(w, n),
                                    ![w].phase = IF n = Len(writer[w].rest) THEN "written" ELSE @]
    /\ spoiled' = (spoiled \/ writer[w].record \in Splitting \/ Overlaps(w))
    /\ UNCHANGED <<locking, lock, lastRead, acknowledged, appends, faults>>

Release(w) == lock' = IF lock = w THEN None ELSE lock

(* The lock is given back, the file closed and the append returns.         *)
Return(w) ==
    /\ writer[w].phase = "written"
    /\ Release(w)
    /\ writer' = [writer EXCEPT ![w] = Idle]
    /\ acknowledged' = [acknowledged EXCEPT ![writer[w].record] = @ + 1]
    /\ UNCHANGED <<locking, file, lastRead, spoiled, appends, faults>>

(* Mutant: an append that failed keeps the lock.                           *)
WriteFailsHoldingLock(w) ==
    /\ faults < MaxFaults
    /\ faults' = faults + 1
    /\ writer[w].phase = "writing"
    /\ Become(w, "stuck")
    /\ UNCHANGED <<locking, file, lock, lastRead, acknowledged, spoiled, appends>>

(* A write fails with some of it, or nothing, in the file.  The finally    *)
(* gives the lock back while the file object holds the rest.               *)
WriteFails(w) ==
    /\ faults < MaxFaults
    /\ faults' = faults + 1
    /\ writer[w].phase = "writing"
    /\ \E n \in 0 .. Len(writer[w].rest) - 1 :
        /\ Put(w, n)
        /\ writer' = [writer EXCEPT ![w].rest = Left(w, n), ![w].phase = "closing"]
    /\ Release(w)
    /\ spoiled' = (spoiled \/ Overlaps(w))
    /\ UNCHANGED <<locking, lastRead, acknowledged, appends>>

(* Mutant: the caller of an append that failed is told it succeeded.       *)
CloseAcknowledges(w) ==
    /\ writer[w].phase = "closing"
    /\ writer' = [writer EXCEPT ![w] = Idle]
    /\ acknowledged' = [acknowledged EXCEPT ![writer[w].record] = @ + 1]
    /\ UNCHANGED <<locking, file, lock, lastRead, spoiled, appends, faults>>

(* Closing the file writes the rest, without the lock, or drops it; the    *)
(* error reaches the caller either way.                                    *)
Close(w) ==
    /\ writer[w].phase = "closing"
    /\ writer' = [writer EXCEPT ![w] = Idle]
    /\ \/ /\ Put(w, Len(writer[w].rest))
          /\ spoiled' = (spoiled \/ writer[w].record \in Splitting \/ Overlaps(w) \/ Midway(w))
       \/ /\ UNCHANGED file
          /\ spoiled' = (spoiled \/ Midway(w))
    /\ UNCHANGED <<locking, lock, lastRead, acknowledged, appends, faults>>

(* The processes die.  The lock goes with them, the text stays.            *)
Crash ==
    /\ faults < MaxFaults
    /\ faults' = faults + 1
    /\ lock' = None
    /\ writer' = [w \in Writers |-> Idle]
    /\ spoiled' = (spoiled \/ \E w \in Writers : Midway(w))
    /\ UNCHANGED <<locking, file, lastRead, acknowledged, appends>>

(* A read that succeeds; one that does not raises and changes nothing.     *)
Read ==
    /\ Parses
    /\ lastRead' = ReadJsonl
    /\ UNCHANGED <<locking, file, lock, writer, acknowledged, spoiled, appends, faults>>

Proceed(w) == Write(w) \/ Return(w) \/ Close(w)

Next ==
    \/ \E w \in Writers :
        \/ \E r \in Records : Open(w, r)
        \/ Acquire(w)
        \/ Proceed(w)
        \/ WriteFails(w)
    \/ Crash
    \/ Read

Spec == Init /\ [][Next]_vars

(* A writer that has the lock, or needs none, computes and returns; a disk *)
(* that is full fails the call.                                            *)
FairSpec == Spec /\ \A w \in Writers : WF_vars(Proceed(w))

-----------------------------------------------------------------------------
Tokens == {Half(r, n) : r \in Records, n \in {1, 2}} \cup {Break}

(* The text is made of halves of records and breaks.                       *)
TypeOK ==
    /\ locking \in BOOLEAN
    /\ file \in Seq(Tokens)
    /\ lock \in Writers \cup {None}
    /\ writer \in [Writers -> {Idle} \cup [phase : {"opened", "writing", "closing", "written"},
                                           record : Records, rest : Seq(Tokens)]]
    /\ lastRead \in Seq(Records)
    /\ acknowledged \in [Records -> 0 .. MaxAppends]
    /\ spoiled \in BOOLEAN
    /\ appends \in 0 .. MaxAppends
    /\ faults \in 0 .. MaxFaults

(* A read fails only while a long record is being written, or after one of *)
(* the writes that spoil a ledger: a partial line left behind, one written *)
(* without the lock between the halves of another, a record with a line    *)
(* separator (append_jsonl, read_jsonl).                                   *)
ReadsFailOnlyIfSpoiled == Parses \/ spoiled \/ \E w \in Writers : Midway(w)

Count(r) == Cardinality({i \in DOMAIN file : file[i] = Half(r, 2)})

(* Until a ledger is spoiled, whatever append has returned is in it, as    *)
(* often as it did, failures and crashes of other appends included.        *)
AcknowledgedAreRead == ~spoiled => \A r \in Records : acknowledged[r] =< Count(r)

(* A read that succeeds returns what every earlier one returned and then   *)
(* more, spoiled or not: this is the ledger the other modules assume.      *)
Log == INSTANCE AppendOnlyLog WITH log <- lastRead
ReadsAreAppendOnly == Log!Spec

(* The lock is given back by every append, also by one that fails: no      *)
(* later append waits for ever behind it (append_jsonl, the finally).      *)
LockIsReleased == \A w \in Writers : (lock = w) ~> (lock # w)
=============================================================================
