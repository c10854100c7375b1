----------------------- MODULE RecordingWrappers_proofs -----------------------
(***************************************************************************)
(* What a recording wrapper proves, for every number of receipts, operator *)
(* runs, recording events and restarts.  The strengthening follows one     *)
(* wrapper from its build to the ledger: it is over a receipt that was     *)
(* recorded, under that receipt's own id, and signed by the key its kid    *)
(* stands for.  Receipts are never removed, so it stays so.                *)
(***************************************************************************)
EXTENDS RecordingWrappers, SequenceTheorems, WellFoundedInduction, TLAPS

Recorded(receipt) == \E i \in 1 .. Len(receipts) : receipts[i] = receipt

Sound(wrapper) ==
    /\ wrapper \in Wrappers
    /\ wrapper.id = wrapper.receipt.id
    /\ wrapper.digest = wrapper.receipt.digest
    /\ wrapper.digest = wrapper.id
    /\ Recorded(wrapper.receipt)
    /\ \/ wrapper.kid = LegacyKid /\ wrapper.key = LegacyKey
       \/ wrapper.kid = OverlayKid /\ wrapper.key \in ExpectedKeys

IInv ==
    /\ TypeOK
    /\ \A i \in 1 .. Len(wrappers) : Sound(wrappers[i])
    /\ \A o \in Operators : operator[o].phase # "idle" => Sound(operator[o].wrapper)

-----------------------------------------------------------------------------
(* A nonempty set of positions of a ledger has a last one.                 *)
LEMMA LastPosition ==
    ASSUME NEW n \in Nat, NEW S \in SUBSET (1 .. n), S # {}
    PROVE  \E i \in S : \A j \in S : j <= i
<1> DEFINE D == {n - i : i \in S}
<1>1. D \subseteq Nat /\ D # {}
  <2>1. \A i \in S : n - i \in Nat
    OBVIOUS
  <2>2. D \subseteq Nat
    BY <2>1
  <2> QED
    BY <2>2
<1>2. PICK x \in D : \A y \in D : ~(<<y, x>> \in OpToRel(<, Nat))
  BY <1>1, NatLessThanWellFounded, WFMin
<1>3. \A y \in D : ~(y < x)
  BY <1>1, <1>2 DEF OpToRel
<1>4. PICK i \in S : x = n - i
  BY <1>2
<1>5. \A j \in S : j <= i
  BY <1>3, <1>4
<1> QED
  BY <1>5

(* A search of a ledger finds one of the positions it looks at.            *)
LEMMA LatestAtFinds ==
    ASSUME NEW R, NEW log \in Seq(R), NEW hits \in SUBSET (1 .. Len(log)), LatestAt(log, hits) # None
    PROVE  \E i \in hits : LatestAt(log, hits) = log[i]
<1> DEFINE last == CHOOSE i \in hits : \A j \in hits : j <= i
<1>1. hits # {} /\ LatestAt(log, hits) = log[last]
  BY DEF LatestAt
<1>2. Len(log) \in Nat
  BY LenProperties
<1>3. \E i \in hits : \A j \in hits : j <= i
  BY ONLY <1>1, <1>2, LastPosition
<1> QED
  BY <1>1, <1>3

LEMMA FindReceiptFinds ==
    ASSUME TypeOK, NEW id, FindReceipt(id) # None
    PROVE  FindReceipt(id) \in Receipts /\ Recorded(FindReceipt(id))
<1> DEFINE hits == {i \in DOMAIN receipts : id = receipts[i].id \/ id \in receipts[i].mentions}
<1>1. receipts \in Seq(Receipts) /\ DOMAIN receipts = 1 .. Len(receipts)
  BY LenProperties DEF TypeOK
<1>2. PICK i \in hits : FindReceipt(id) = receipts[i]
  BY <1>1, LatestAtFinds DEF FindReceipt
<1>3. receipts[i] \in Receipts
  BY <1>1, <1>2, ElementOfSeq
<1> QED
  BY <1>1, <1>2, <1>3 DEF Recorded

(* What the endpoints serve is a sound wrapper under the id asked for.     *)
LEMMA GetWrapperFinds ==
    ASSUME IInv, NEW id, GetWrapper(id) # None
    PROVE  GetWrapper(id).id = id /\ Sound(GetWrapper(id))
<1> DEFINE hits == {i \in DOMAIN wrappers : wrappers[i].id = id}
<1>1. wrappers \in Seq(Wrappers) /\ DOMAIN wrappers = 1 .. Len(wrappers)
  BY LenProperties DEF IInv, TypeOK
<1>2. PICK i \in hits : GetWrapper(id) = wrappers[i]
  BY <1>1, LatestAtFinds DEF GetWrapper
<1> QED
  BY <1>1, <1>2 DEF IInv

-----------------------------------------------------------------------------
LEMMA InitIInv == Init => IInv
<1> SUFFICES ASSUME Init PROVE IInv
  OBVIOUS
<1>1. /\ env \in Environments /\ operator = [o \in Operators |-> Idle]
      /\ contended = {} /\ restarts = 0
  BY DEF Init
<1>2. operator \in [Operators -> OperatorStates] /\ \A o \in Operators : operator[o].phase = "idle"
  BY <1>1 DEF OperatorStates, Idle
<1>3. contended \subseteq ReceiptIds /\ restarts \in 0 .. MaxRestarts
  BY <1>1, WrapperBounds
<1>4. CASE receipts = <<>> /\ wrappers = <<>> /\ drawn = {}
  <2>1. receipts \in Seq(Receipts) /\ wrappers \in Seq(Wrappers) /\ Len(wrappers) = 0
    BY <1>4, EmptySeq
  <2> QED
    BY <1>1, <1>2, <1>3, <1>4, <2>1 DEF IInv, TypeOK
<1>5. ASSUME NEW id \in ReceiptIds, NEW body \in Bodies, NEW event \in Events,
             receipts = <<Sar402Receipt(id, {}, body)>>,
             wrappers = <<WrapperOver(Sar402Receipt(id, {}, body), LegacyKid, LegacyKey, event)>>,
             drawn = {event}
      PROVE  IInv
  <2> DEFINE r == Sar402Receipt(id, {}, body)
             wrapper == WrapperOver(r, LegacyKid, LegacyKey, event)
  <2>1. r \in Receipts /\ wrapper \in Wrappers
    BY DEF Receipts, Sar402Receipt, Wrappers, WrapperOver, Kids, Keys
  <2>2. /\ receipts \in Seq(Receipts) /\ Len(receipts) = 1 /\ receipts[1] = r
        /\ wrappers \in Seq(Wrappers) /\ Len(wrappers) = 1 /\ wrappers[1] = wrapper
    BY <1>5, <2>1
  <2>3. Sound(wrapper)
    BY <2>1, <2>2 DEF Sound, WrapperOver, Sar402Receipt, Recorded
  <2> QED
    BY <1>1, <1>2, <1>3, <1>5, <2>2, <2>3 DEF IInv, TypeOK
<1> QED
  BY <1>4, <1>5 DEF Init

(* Ledgers only grow, so a sound wrapper stays sound.                      *)
LEMMA SoundStays ==
    ASSUME receipts' = receipts, NEW wrapper, Sound(wrapper)
    PROVE  Sound(wrapper)'
BY DEF Sound, Recorded, Wrappers, Receipts

LEMMA RecordStep ==
    ASSUME IInv, NEW receipt \in Receipts, RecordReceipt(receipt)
    PROVE  IInv'
<1>1. /\ receipts' = Append(receipts, receipt)
      /\ wrappers' = wrappers /\ env' = env /\ operator' = operator
      /\ drawn' = drawn /\ contended' = contended /\ restarts' = restarts
  BY DEF RecordReceipt
<1>2. /\ receipts' \in Seq(Receipts)
      /\ Len(receipts') = Len(receipts) + 1
      /\ \A i \in 1 .. Len(receipts) : receipts'[i] = receipts[i]
      /\ Len(receipts) \in Nat
  BY <1>1, AppendProperties, LenProperties DEF IInv, TypeOK
<1>3. \A r : Recorded(r) => Recorded(r)'
  BY <1>2 DEF Recorded
<1>4. \A wrapper : Sound(wrapper) => Sound(wrapper)'
  BY <1>3 DEF Sound, Wrappers, Receipts
<1> QED
  BY <1>1, <1>2, <1>4 DEF IInv, TypeOK

(* A run of the script goes on; at most it draws an event.                 *)
LEMMA BecomeStep ==
    ASSUME IInv, NEW o \in Operators, NEW x \in OperatorStates, Become(o, x),
           x.phase # "idle" => Sound(x.wrapper),
           wrappers' = wrappers, drawn' \subseteq Events
    PROVE  IInv'
<1>1. /\ receipts' = receipts /\ env' = env /\ restarts' = restarts
      /\ operator' = [operator EXCEPT ![o] = x]
  BY DEF Become
<1>2. /\ operator' \in [Operators -> OperatorStates]
      /\ operator'[o] = x
      /\ \A p \in Operators : p # o => operator'[p] = operator[p]
  BY <1>1 DEF IInv, TypeOK
<1>3. contended' \subseteq ReceiptIds
  <2>1. x.phase = "appending" => x.wrapper.id \in ReceiptIds
    BY DEF Sound, Wrappers
  <2> QED
    BY <2>1 DEF Become, IInv, TypeOK
<1>4. \A wrapper : Sound(wrapper) => Sound(wrapper)'
  BY <1>1, SoundStays
<1>5. (\A p \in Operators : operator[p].phase # "idle" => Sound(operator[p].wrapper))'
  BY <1>1, <1>2 DEF IInv, Sound, Recorded
<1> QED
  BY <1>1, <1>2, <1>3, <1>4, <1>5 DEF IInv, TypeOK

LEMMA IdleState == Idle \in OperatorStates /\ Idle.phase = "idle"
BY DEF OperatorStates, Idle

LEMMA BuildStep ==
    ASSUME IInv, NEW o \in Operators, NEW asked, NEW kid \in Kids, NEW seed \in Keys,
           NEW expected \in ExpectedKeys, NEW event \in Events,
           Build(o, asked, kid, seed, expected, event)
    PROVE  IInv'
<1> DEFINE receipt == FindReceipt(asked)
           wrapper == WrapperOver(receipt, kid, seed, event)
           x == [phase |-> "built", wrapper |-> wrapper]
<1>1. receipt \in Receipts /\ Recorded(receipt) /\ receipt.digest = receipt.id
  BY FindReceiptFinds DEF Build, IInv, Wrappable
<1>2. kid = OverlayKid /\ seed \in ExpectedKeys
  BY DEF Build, Coherent
<1>3. receipt.id \in ReceiptIds
  BY <1>1 DEF Receipts
<1>4. wrapper \in Wrappers
  BY <1>1, <1>3 DEF Wrappers, WrapperOver
<1>5. Sound(wrapper)
  BY <1>1, <1>2, <1>4 DEF Sound, WrapperOver
<1>6. x \in OperatorStates
  BY <1>4 DEF OperatorStates
<1>7. Become(o, x) /\ wrappers' = wrappers /\ drawn' \subseteq Events
  BY DEF Build, IInv, TypeOK
<1> HIDE DEF x
<1>8. x.phase # "idle" => Sound(x.wrapper)
  BY <1>5 DEF x
<1> QED
  BY <1>6, <1>7, <1>8, BecomeStep

LEMMA ScriptStep ==
    ASSUME IInv, NEW o \in Operators, Stop(o) \/ CheckStore(o)
    PROVE  IInv'
<1> DEFINE x == [operator[o] EXCEPT !.phase = "appending"]
<1>1. wrappers' = wrappers /\ drawn' \subseteq Events
  BY DEF Stop, CheckStore, IInv, TypeOK
<1>2. CASE Become(o, Idle)
  BY <1>1, <1>2, IdleState, BecomeStep
<1>3. CASE operator[o].phase = "built" /\ Become(o, x)
  <2>1. operator[o] \in [phase : {"built", "appending"}, wrapper : Wrappers]
    BY <1>3 DEF IInv, TypeOK, OperatorStates, Idle
  <2>2. x \in OperatorStates /\ x.wrapper = operator[o].wrapper
    BY <2>1 DEF OperatorStates
  <2>3. Sound(operator[o].wrapper)
    BY <1>3 DEF IInv
  <2> QED
    BY <1>1, <1>3, <2>2, <2>3, BecomeStep
<1> QED
  BY <1>2, <1>3 DEF Stop, CheckStore

LEMMA AppendStep ==
    ASSUME IInv, NEW o \in Operators, AppendWrapper(o)
    PROVE  IInv'
<1> DEFINE wrapper == operator[o].wrapper
<1>1. Sound(wrapper) /\ wrapper \in Wrappers
  BY DEF IInv, AppendWrapper, Sound
<1>2. /\ receipts' = receipts /\ env' = env /\ restarts' = restarts /\ drawn' = drawn
      /\ contended' = contended
      /\ operator' = [operator EXCEPT ![o] = Idle]
      /\ wrappers' = Append(wrappers, wrapper)
  BY IdleState DEF AppendWrapper, Become
<1>3. /\ wrappers' \in Seq(Wrappers) /\ Len(wrappers) \in Nat
      /\ Len(wrappers') = Len(wrappers) + 1
      /\ \A i \in 1 .. Len(wrappers) : wrappers'[i] = wrappers[i]
      /\ wrappers'[Len(wrappers) + 1] = wrapper
  BY <1>1, <1>2, AppendProperties, LenProperties DEF IInv, TypeOK
<1>4. /\ operator' \in [Operators -> OperatorStates]
      /\ operator'[o].phase = "idle"
      /\ \A p \in Operators : p # o => operator'[p] = operator[p]
  BY <1>2, IdleState DEF IInv, TypeOK
<1>5. (\A i \in 1 .. Len(wrappers) : Sound(wrappers[i]))'
  <2> SUFFICES ASSUME NEW i \in 1 .. Len(wrappers') PROVE Sound(wrappers[i])'
    OBVIOUS
  <2>1. Sound(wrappers'[i])
    BY <1>1, <1>3 DEF IInv
  <2> QED
    BY <1>2, <2>1 DEF Sound, Recorded
<1>6. (\A p \in Operators : operator[p].phase # "idle" => Sound(operator[p].wrapper))'
  BY <1>2, <1>4 DEF IInv, Sound, Recorded
<1> QED
  BY <1>2, <1>3, <1>4, <1>5, <1>6 DEF IInv, TypeOK

LEMMA ConfigureStep ==
    ASSUME IInv, NEW new \in Environments, Configure(new)
    PROVE  IInv'
<1>1. /\ receipts' = receipts /\ wrappers' = wrappers /\ operator' = operator
      /\ drawn' = drawn /\ contended' = contended
      /\ env' \in Environments /\ restarts' \in 0 .. MaxRestarts
  BY WrapperBounds DEF Configure, IInv, TypeOK
<1>2. \A w : Sound(w) => Sound(w)'
  BY <1>1, SoundStays
<1> QED
  BY <1>1, <1>2 DEF IInv, TypeOK

LEMMA NextIInv == IInv /\ [Next]_vars => IInv'
<1> SUFFICES ASSUME IInv, [Next]_vars PROVE IInv'
  OBVIOUS
<1>1. CASE UNCHANGED vars
  BY <1>1, SoundStays DEF vars, IInv, TypeOK
<1>2. ASSUME NEW id \in ReceiptIds, NEW mentions \in SUBSET ReceiptIds, NEW body \in Bodies,
             Ingest(id, mentions, body) \/ RecordOther(id, mentions, body)
      PROVE  IInv'
  <2>1. /\ Sar402Receipt(id, mentions, body) \in Receipts
        /\ [id |-> id, digest |-> None, mentions |-> mentions, body |-> body] \in Receipts
    BY DEF Receipts, Sar402Receipt
  <2> QED
    BY <1>2, <2>1, RecordStep DEF Ingest, RecordOther
<1>3. ASSUME NEW o \in Operators,
             \/ \E asked \in ReceiptIds, kid \in Kids, seed \in Keys, expected \in ExpectedKeys,
                   event \in Events : Build(o, asked, kid, seed, expected, event)
             \/ Stop(o) \/ CheckStore(o) \/ AppendWrapper(o)
      PROVE  IInv'
  BY <1>3, BuildStep, ScriptStep, AppendStep
<1>4. ASSUME NEW new \in Environments, Configure(new) PROVE IInv'
  BY <1>4, ConfigureStep
<1> QED
  BY <1>1, <1>2, <1>3, <1>4 DEF Next

-----------------------------------------------------------------------------
LEMMA Inductive == Spec => []IInv
BY InitIInv, NextIInv, PTL DEF Spec

(* Ledgers, configuration and runs of the script keep their shapes.        *)
THEOREM TypeCorrect == Spec => []TypeOK
<1>1. IInv => TypeOK
  BY DEF IInv
<1> QED
  BY <1>1, Inductive, PTL

(* A wrapper the recording endpoint serves as valid is over a receipt that *)
(* was recorded under the id asked for, whatever receipts mention each     *)
(* other and however many runs of the script race (get_sar402_recording).  *)
THEOREM NoWrapperWithoutReceipt == Spec => []ServedWrapperHasReceipt
<1>1. IInv => ServedWrapperHasReceipt
  <2> SUFFICES ASSUME IInv, NEW id \in ReceiptIds, RecordingStatus(id) = 200
               PROVE  \E i \in DOMAIN receipts : /\ receipts[i] = GetWrapper(id).receipt
                                                 /\ receipts[i].id = id
                                                 /\ receipts[i].digest = GetWrapper(id).digest
    BY DEF ServedWrapperHasReceipt
  <2>1. GetWrapper(id) # None
    BY DEF RecordingStatus
  <2>2. GetWrapper(id).id = id /\ Sound(GetWrapper(id))
    BY <2>1, GetWrapperFinds
  <2>3. DOMAIN receipts = 1 .. Len(receipts)
    BY LenProperties DEF IInv, TypeOK
  <2> QED
    BY <2>2, <2>3 DEF Sound, Recorded
<1> QED
  BY <1>1, Inductive, PTL

(* When operators are told to expect no key but the published one, a       *)
(* sound wrapper verifies under the key its kid stands for.                *)
LEMMA SoundVerifies ==
    ASSUME ExpectedKeys \subseteq {RecordingKey}, NEW wrapper, Sound(wrapper)
    PROVE  /\ wrapper.kid = LegacyKid => Verifies(wrapper, LegacyKey)
           /\ wrapper.kid = OverlayKid => Verifies(wrapper, RecordingKey)
           /\ wrapper.kid \in {LegacyKid, OverlayKid}
BY DEF Sound, Verifies, LegacyKid, OverlayKid

(* During the rotation, with base key -1 and overlay key -2, no stored     *)
(* wrapper is reported as a fault, if operators were told to expect no key *)
(* but the published one (get_sar402_recording, startup_coherence_gate).   *)
THEOREM RotationLosesNothing ==
    ASSUME ExpectedKeys \subseteq {RecordingKey}
    PROVE  Spec => []RotatedVerifierServesAll
<1>1. IInv => RotatedVerifierServesAll
  <2> SUFFICES ASSUME IInv, env = [base |-> LegacyKey, overlay |-> RecordingKey], NEW id \in ReceiptIds
               PROVE  RecordingStatus(id) \in {200, 404}
    BY DEF RotatedVerifierServesAll
  <2> DEFINE wrapper == GetWrapper(id)
  <2>1. env.base = LegacyKey /\ env.overlay = RecordingKey /\ env.base # None /\ env.overlay # None
    BY KeyAssumption
  <2>2. CASE wrapper = None
    BY <2>2 DEF RecordingStatus
  <2>3. CASE wrapper # None
    <3>1. Sound(wrapper)
      BY <2>3, GetWrapperFinds
    <3>2. Verifies(wrapper, VerifyKey(wrapper))
      BY <2>1, <3>1, SoundVerifies DEF VerifyKey, LegacyKid, OverlayKid
    <3> QED
      BY <2>1, <2>3, <3>2 DEF RecordingStatus
  <2> QED
    BY <2>2, <2>3
<1> QED
  BY <1>1, Inductive, PTL

(* The correlation view calls verified only what the endpoint serves, and  *)
(* all of that but what the endpoint gives the overlay key, under the same *)
(* condition on operators (_recording_wrapper_view).                       *)
THEOREM CorrelationIsSound ==
    ASSUME ExpectedKeys \subseteq {RecordingKey}
    PROVE  Spec => []CorrelationNeverOverclaims
<1>1. IInv => CorrelationNeverOverclaims
  <2> SUFFICES ASSUME IInv, NEW id \in ReceiptIds
               PROVE  /\ CorrelationStatus(id) = "present_verified" => RecordingStatus(id) = 200
                      /\ RecordingStatus(id) = 200 /\ CorrelationStatus(id) # "present_verified" =>
                            GetWrapper(id).kid = OverlayKid /\ env.overlay # None
    BY DEF CorrelationNeverOverclaims
  <2> DEFINE wrapper == GetWrapper(id)
  <2>1. ASSUME CorrelationStatus(id) = "present_verified" PROVE RecordingStatus(id) = 200
    <3>1. wrapper # None /\ env.base # None /\ Verifies(wrapper, env.base)
      BY <2>1 DEF CorrelationStatus
    <3>2. Sound(wrapper)
      BY <3>1, GetWrapperFinds
    <3>3. env.overlay # None => env.overlay = RecordingKey
      BY DEF IInv, TypeOK, Environments
    <3>4. Verifies(wrapper, VerifyKey(wrapper))
      BY <3>1, <3>2, <3>3, SoundVerifies DEF VerifyKey
    <3> QED
      BY <3>1, <3>4 DEF RecordingStatus
  <2>2. ASSUME RecordingStatus(id) = 200, CorrelationStatus(id) # "present_verified"
        PROVE  wrapper.kid = OverlayKid /\ env.overlay # None
    <3>1. wrapper # None /\ env.base # None /\ Verifies(wrapper, VerifyKey(wrapper))
      BY <2>2 DEF RecordingStatus
    <3>2. ~Verifies(wrapper, env.base)
      BY <2>2, <3>1 DEF CorrelationStatus
    <3> QED
      BY <3>1, <3>2 DEF VerifyKey
  <2> QED
    BY <2>1, <2>2
<1> QED
  BY <1>1, Inductive, PTL

-----------------------------------------------------------------------------
(* The wrapper ledger implements the write-once store.  A run that has     *)
(* found no wrapper and is about to append still finds none, unless        *)
(* another one was about to append for the same receipt.                   *)
AppendsFirst ==
    /\ \A o \in Operators : operator[o].phase = "appending" =>
            GetWrapper(operator[o].wrapper.id) = None \/ operator[o].wrapper.id \in contended
    /\ \A o, p \in Operators :
            /\ o # p
            /\ operator[o].phase = "appending" /\ operator[p].phase = "appending"
            /\ operator[o].wrapper.id = operator[p].wrapper.id
            => operator[o].wrapper.id \in contended

RInv == IInv /\ AppendsFirst

LEMMA InitRInv == Init => RInv
<1> SUFFICES ASSUME Init PROVE AppendsFirst
  BY InitIInv DEF RInv
<1>1. \A o \in Operators : operator[o].phase = "idle"
  BY IdleState DEF Init
<1> QED
  BY <1>1 DEF AppendsFirst

(* A step of the script that appends nothing.                              *)
LEMMA BecomeAppendsFirst ==
    ASSUME RInv, NEW o \in Operators, NEW x \in OperatorStates, Become(o, x), wrappers' = wrappers,
           x.phase = "appending" => GetWrapper(x.wrapper.id) = None
    PROVE  AppendsFirst'
<1>1. /\ operator'[o] = x
      /\ \A p \in Operators : p # o => operator'[p] = operator[p]
  BY DEF Become, RInv, IInv, TypeOK
<1>2. contended \subseteq contended' /\ \A id : GetWrapper(id)' = GetWrapper(id)
  BY DEF Become, GetWrapper, LatestAt
<1>3. ASSUME NEW p \in Operators, operator'[p].phase = "appending"
      PROVE  GetWrapper(operator'[p].wrapper.id) = None \/ operator'[p].wrapper.id \in contended'
  BY <1>1, <1>2, <1>3 DEF RInv, AppendsFirst
<1>4. ASSUME x.phase = "appending", NEW p \in Operators, p # o, operator[p].phase = "appending",
             x.wrapper.id = operator[p].wrapper.id
      PROVE  x.wrapper.id \in contended'
  BY <1>4 DEF Become, Appending
<1>5. ASSUME NEW p \in Operators, NEW q \in Operators, p # q,
             operator'[p].phase = "appending", operator'[q].phase = "appending",
             operator'[p].wrapper.id = operator'[q].wrapper.id
      PROVE  operator'[p].wrapper.id \in contended'
  <2>1. CASE p = o
    BY <1>1, <1>4, <1>5, <2>1
  <2>2. CASE q = o
    BY <1>1, <1>4, <1>5, <2>2
  <2>3. CASE p # o /\ q # o
    BY <1>1, <1>2, <1>5, <2>3 DEF RInv, AppendsFirst
  <2> QED
    BY <2>1, <2>2, <2>3
<1>6. (\A p \in Operators : operator[p].phase = "appending" =>
            GetWrapper(operator[p].wrapper.id) = None \/ operator[p].wrapper.id \in contended)'
  BY <1>2, <1>3 DEF GetWrapper
<1> QED
  BY <1>5, <1>6 DEF AppendsFirst

(* An append changes what is served for its own receipt and for no other.  *)
LEMMA AppendServes ==
    ASSUME IInv, NEW wrapper \in Wrappers, wrappers' = Append(wrappers, wrapper), NEW id, id # wrapper.id
    PROVE  GetWrapper(id)' = GetWrapper(id)
<1> DEFINE hits == {i \in DOMAIN wrappers : wrappers[i].id = id}
<1>1. /\ DOMAIN wrappers = 1 .. Len(wrappers) /\ DOMAIN wrappers' = 1 .. Len(wrappers) + 1
      /\ Len(wrappers) \in Nat
      /\ \A i \in 1 .. Len(wrappers) : wrappers'[i] = wrappers[i]
      /\ wrappers'[Len(wrappers) + 1] = wrapper
  BY AppendProperties, LenProperties DEF IInv, TypeOK
<1>2. hits' = hits
  BY <1>1
<1>3. CASE hits = {}
  BY <1>2, <1>3 DEF GetWrapper, LatestAt
<1>4. CASE hits # {}
  <2> DEFINE last == CHOOSE i \in hits : \A j \in hits : j <= i
  <2>1. hits \in SUBSET (1 .. Len(wrappers))
    BY <1>1
  <2>2. \E i \in hits : \A j \in hits : j <= i
    BY ONLY <1>1, <1>4, <2>1, LastPosition
  <2>3. last \in hits
    BY ONLY <2>2
  <2>4. wrappers'[last] = wrappers[last]
    BY <1>1, <2>1, <2>3
  <2> QED
    BY <1>2, <1>4, <2>4 DEF GetWrapper, LatestAt
<1> QED
  BY <1>3, <1>4

LEMMA AppendAppendsFirst ==
    ASSUME RInv, NEW o \in Operators, AppendWrapper(o)
    PROVE  AppendsFirst'
<1> DEFINE wrapper == operator[o].wrapper
<1>1. wrapper \in Wrappers /\ operator[o].phase = "appending"
  BY DEF RInv, IInv, AppendWrapper, Sound
<1>2. /\ wrappers' = Append(wrappers, wrapper) /\ contended' = contended
      /\ operator' = [operator EXCEPT ![o] = Idle]
  BY IdleState DEF AppendWrapper, Become
<1>3. /\ operator'[o].phase = "idle"
      /\ \A p \in Operators : p # o => operator'[p] = operator[p]
  BY <1>2, IdleState DEF RInv, IInv, TypeOK
<1>4. \A id : id # wrapper.id => GetWrapper(id)' = GetWrapper(id)
  BY <1>1, <1>2, AppendServes DEF RInv
<1>5. ASSUME NEW p \in Operators, p # o, operator[p].phase = "appending"
      PROVE  \/ operator[p].wrapper.id \in contended
             \/ operator[p].wrapper.id # wrapper.id /\ GetWrapper(operator[p].wrapper.id) = None
  BY <1>1, <1>5 DEF RInv, AppendsFirst
<1>6. (\A p \in Operators : operator[p].phase = "appending" =>
            GetWrapper(operator[p].wrapper.id) = None \/ operator[p].wrapper.id \in contended)'
  <2> SUFFICES ASSUME NEW p \in Operators, operator'[p].phase = "appending"
               PROVE  (GetWrapper(operator[p].wrapper.id) = None \/ operator[p].wrapper.id \in contended)'
    OBVIOUS
  <2>1. p # o /\ operator'[p] = operator[p]
    BY <1>3
  <2>2. \/ operator'[p].wrapper.id \in contended'
        \/ operator'[p].wrapper.id # wrapper.id /\ GetWrapper(operator'[p].wrapper.id) = None
    BY <1>2, <1>5, <2>1
  <2> QED
    BY <1>4, <2>2 DEF GetWrapper
<1>7. (\A p, q \in Operators :
            /\ p # q
            /\ operator[p].phase = "appending" /\ operator[q].phase = "appending"
            /\ operator[p].wrapper.id = operator[q].wrapper.id
            => operator[p].wrapper.id \in contended)'
  BY <1>2, <1>3 DEF RInv, AppendsFirst
<1> QED
  BY <1>6, <1>7 DEF AppendsFirst

(* One step of the system is one step of the store, or none.               *)
LEMMA StepRefines ==
    ASSUME RInv, [Next]_vars
    PROVE  AppendsFirst' /\ [Register!Next]_<<StoredWrapper, contended>>
<1>1. ASSUME operator' = operator, contended' = contended, wrappers' = wrappers
      PROVE  AppendsFirst' /\ [Register!Next]_<<StoredWrapper, contended>>
  <2>1. \A id : GetWrapper(id)' = GetWrapper(id)
    BY <1>1 DEF GetWrapper, LatestAt
  <2>2. AppendsFirst'
    BY <1>1 DEF RInv, AppendsFirst, GetWrapper, LatestAt
  <2> QED
    BY <1>1, <2>1, <2>2 DEF StoredWrapper
<1>2. ASSUME NEW o \in Operators, NEW x \in OperatorStates, Become(o, x), wrappers' = wrappers,
             x.phase # "idle" => Sound(x.wrapper),
             x.phase = "appending" => GetWrapper(x.wrapper.id) = None
      PROVE  AppendsFirst' /\ [Register!Next]_<<StoredWrapper, contended>>
  <2>1. AppendsFirst'
    BY <1>2, BecomeAppendsFirst
  <2>2. StoredWrapper' = StoredWrapper
    BY <1>2 DEF StoredWrapper, GetWrapper, LatestAt
  <2>3. contended' = contended \/ (x.phase = "appending" /\ contended' = contended \cup {x.wrapper.id})
    BY <1>2 DEF Become
  <2>4. x.phase = "appending" => x.wrapper.id \in ReceiptIds
    BY <1>2 DEF Sound, Wrappers
  <2> QED
    BY <2>1, <2>2, <2>3, <2>4 DEF Register!Next, Register!Contend
<1>3. ASSUME NEW o \in Operators, AppendWrapper(o)
      PROVE  AppendsFirst' /\ [Register!Next]_<<StoredWrapper, contended>>
  <2> DEFINE wrapper == operator[o].wrapper
  <2>1. wrapper \in Wrappers /\ wrapper.id \in ReceiptIds
    BY <1>3 DEF RInv, IInv, AppendWrapper, Sound, Wrappers
  <2>2. wrappers' = Append(wrappers, wrapper) /\ contended' = contended
    BY <1>3, IdleState DEF AppendWrapper, Become
  <2>3. \A id : id # wrapper.id => GetWrapper(id)' = GetWrapper(id)
    BY <2>1, <2>2, AppendServes DEF RInv
  <2>4. GetWrapper(wrapper.id) = None \/ wrapper.id \in contended
    BY <1>3 DEF RInv, AppendsFirst, AppendWrapper
  <2>5. Register!Write(wrapper.id)
    BY <2>1, <2>2, <2>3, <2>4 DEF Register!Write, StoredWrapper
  <2> QED
    BY <1>3, <2>1, <2>5, AppendAppendsFirst DEF Register!Next
<1>4. CASE UNCHANGED vars
  BY <1>1, <1>4 DEF vars
<1>5. CASE \E id \in ReceiptIds, mentions \in SUBSET ReceiptIds, body \in Bodies :
              Ingest(id, mentions, body) \/ RecordOther(id, mentions, body)
  BY <1>1, <1>5 DEF Ingest, RecordOther, RecordReceipt
<1>6. CASE \E new \in Environments : Configure(new)
  BY <1>1, <1>6 DEF Configure
<1>7. ASSUME NEW o \in Operators, NEW asked, NEW kid \in Kids, NEW seed \in Keys,
             NEW expected \in ExpectedKeys, NEW event \in Events,
             Build(o, asked, kid, seed, expected, event)
      PROVE  AppendsFirst' /\ [Register!Next]_<<StoredWrapper, contended>>
  <2> DEFINE x == [phase |-> "built", wrapper |-> WrapperOver(FindReceipt(asked), kid, seed, event)]
  <2>1. Become(o, x) /\ wrappers' = wrappers /\ x.phase = "built"
    BY <1>7 DEF Build
  <2>2. IInv'
    BY <1>7, BuildStep DEF RInv
  <2>3. operator'[o] = x
    BY <2>1 DEF Become, RInv, IInv, TypeOK
  <2>4. operator' \in [Operators -> OperatorStates] /\ receipts' = receipts
    BY <2>1, <2>2 DEF IInv, TypeOK, Become
  <2>5. Sound(x.wrapper)
    BY <2>1, <2>2, <2>3, <2>4 DEF IInv, Sound, Recorded
  <2> HIDE DEF x
  <2> QED
    BY <1>2, <2>1, <2>3, <2>4, <2>5
<1>8. ASSUME NEW o \in Operators, Stop(o) \/ CheckStore(o)
      PROVE  AppendsFirst' /\ [Register!Next]_<<StoredWrapper, contended>>
  <2> DEFINE x == [operator[o] EXCEPT !.phase = "appending"]
  <2>1. wrappers' = wrappers
    BY <1>8 DEF Stop, CheckStore
  <2>2. CASE Become(o, Idle)
    BY <1>2, <2>1, <2>2, IdleState
  <2>3. CASE operator[o].phase = "built" /\ GetWrapper(operator[o].wrapper.id) = None /\ Become(o, x)
    <3>1. operator[o] \in [phase : {"built", "appending"}, wrapper : Wrappers]
      BY <2>3 DEF RInv, IInv, TypeOK, OperatorStates, Idle
    <3>2. x \in OperatorStates /\ x.wrapper = operator[o].wrapper
      BY <3>1 DEF OperatorStates
    <3>3. Sound(operator[o].wrapper)
      BY <2>3 DEF RInv, IInv
    <3> QED
      BY <1>2, <2>1, <2>3, <3>2, <3>3
  <2> QED
    BY <1>8, <2>2, <2>3 DEF Stop, CheckStore
<1> QED
  BY <1>3, <1>4, <1>5, <1>6, <1>7, <1>8 DEF Next

LEMMA NextRInv == RInv /\ [Next]_vars => RInv'
BY NextIInv, StepRefines DEF RInv

(* Per receipt the wrapper ledger is a write-once store, unless two runs   *)
(* of the script were between check and append at once                     *)
(* (store_recording_wrapper).                                              *)
THEOREM ImplementsWriteOnce == Spec => WrappersWriteOnce
<1>1. RInv /\ [Next]_vars => [Register!Next]_<<StoredWrapper, contended>>
  BY StepRefines
<1> QED
  BY <1>1, InitRInv, NextRInv, PTL DEF Spec, WrappersWriteOnce
=============================================================================
