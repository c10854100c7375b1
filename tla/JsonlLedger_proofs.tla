-------------------------- MODULE JsonlLedger_proofs --------------------------
(***************************************************************************)
(* When a ledger can be read, and what is then in it, for any number of    *)
(* writers and records, with the lock and without.  An unspoiled text is a *)
(* sequence of triples, first half, second half, break; whoever is midway  *)
(* is alone and owns the triple at its end.  What a read returns, spoiled  *)
(* or not, extends what every earlier one returned: growing the text at    *)
(* its end leaves the ends of the records before in their places.          *)
(***************************************************************************)
EXTENDS JsonlLedger, FiniteSetTheorems, SequenceTheorems, WellFoundedInduction, TLAPS

(* The line of a record without line separators.                           *)
Line(r) == <<Half(r, 1), Half(r, 2), Break>>

Lined(f) ==
    \A i \in 1 .. Len(f) :
        /\ i % 3 = 1 => \E r \in Records : f[i] = Half(r, 1)
        /\ i % 3 = 2 => \E r \in Records : f[i - 1] = Half(r, 1) /\ f[i] = Half(r, 2)
        /\ i % 3 = 0 => f[i] = Break

(* The text ends after the p-th piece of a line of r.                      *)
EndsAfter(f, r, p) ==
    /\ f \in Seq(Tokens)
    /\ Lined(f)
    /\ Len(f) % 3 = p % 3
    /\ p \in {1, 2} => f[Len(f)] = Line(r)[p]

Whole(f) == f \in Seq(Tokens) /\ Lined(f) /\ Len(f) % 3 = 0

CountIn(f, r) == Cardinality({i \in DOMAIN f : f[i] = Half(r, 2)})

LEMMA TokenFacts ==
    /\ Break \in Tokens
    /\ \A r \in Records : Half(r, 1) \in Tokens /\ Half(r, 2) \in Tokens
    /\ \A r : Half(r, 1).half = 1 /\ Half(r, 2).half = 2 /\ Half(r, 1).record = r /\ Half(r, 2).record = r
    /\ Break.half = 0
<1>1. Break \in Tokens
  BY DEF Tokens
<1>2. ASSUME NEW r \in Records PROVE Half(r, 1) \in Tokens /\ Half(r, 2) \in Tokens
  BY DEF Tokens
<1>3. \A r : Half(r, 1).half = 1 /\ Half(r, 2).half = 2 /\ Half(r, 1).record = r /\ Half(r, 2).record = r
  BY DEF Half
<1>4. Break.half = 0
  BY DEF Break, Half
<1> QED
  BY <1>1, <1>2, <1>3, <1>4

LEMMA Position ==
    /\ \A p \in 0 .. 2 : p % 3 = p
    /\ \A a \in Nat, n \in Nat, p \in 0 .. 2 :
        a % 3 = p => (a + n) % 3 = (p + n) % 3 /\ (p # 0 => a \in 1 .. a)
OBVIOUS

(* What is left of a line of r after its first 3 - Len(rest) pieces.       *)
IsRest(rest, r) ==
    /\ rest \in Seq(Tokens)
    /\ Len(rest) \in 1 .. 3
    /\ \A k \in 1 .. Len(rest) : rest[k] = Line(r)[3 - Len(rest) + k]

LEMMA ExtendLine ==
    ASSUME NEW f, NEW r \in Records, NEW rest, IsRest(rest, r), NEW n \in 0 .. Len(rest),
           EndsAfter(f, r, 3 - Len(rest))
    PROVE  EndsAfter(f \o SubSeq(rest, 1, n), r, 3 - Len(rest) + n)
<1>0. PICK p \in 0 .. 2 : p = 3 - Len(rest)
  <2>1. 3 - Len(rest) \in 0 .. 2
    BY SMTT(30) DEF IsRest
  <2> QED
    BY <2>1
<1>1. PICK piece, g : piece = SubSeq(rest, 1, n) /\ g = f \o piece
  OBVIOUS
<1>2. /\ f \in Seq(Tokens) /\ Len(f) \in Nat /\ Len(f) % 3 = p
      /\ p \in {1, 2} => f[Len(f)] = Line(r)[p]
  <2>1. EndsAfter(f, r, p)
    BY <1>0
  <2>2. Len(f) % 3 = p % 3
    BY <2>1 DEF EndsAfter
  <2> QED
    BY <2>1, <2>2, Position, LenProperties DEF EndsAfter
<1>3. n \in Nat /\ p + n \in 0 .. 3 /\ Len(rest) \in Nat
  <2>1. PICK l \in 1 .. 3 : l = Len(rest)
    BY DEF IsRest
  <2>2. n \in 0 .. l /\ p = 3 - l
    BY <1>0, <2>1
  <2>3. n \in Nat /\ n =< l
    BY <2>1, <2>2
  <2>4. PICK m \in Nat : m = n /\ m =< l
    BY <2>3
  <2>5. p + m \in 0 .. 3
    <3>1. p + m = 3 - (l - m)
      BY <2>2
    <3>2. l - m \in 0 .. 3
      BY <2>4
    <3> QED
      BY <3>1, <3>2
  <2> QED
    BY <2>1, <2>4, <2>5
<1>3a. \A x \in Nat : (Len(f) + x) % 3 = (p + x) % 3
  <2>1. PICK len \in Nat : len = Len(f)
    BY <1>2
  <2>2. \A x \in Nat : (len + x) % 3 = (p + x) % 3
    BY <1>2, <2>1, Position, ZenonT(30)
  <2> QED
    BY <2>1, <2>2
<1>4. /\ piece \in Seq(Tokens) /\ Len(piece) = n
      /\ \A k \in 1 .. n : piece[k] = Line(r)[p + k]
  <2>1. \A k \in 1 .. n : rest[k] \in Tokens /\ rest[k] = Line(r)[p + k]
    BY <1>0, <1>3, ElementOfSeq DEF IsRest
  <2> QED
    BY <1>1, <1>3, <2>1, SubSeqProperties
<1>5. /\ g \in Seq(Tokens) /\ Len(g) = Len(f) + n
      /\ \A i \in 1 .. Len(f) : g[i] = f[i]
      /\ \A k \in 1 .. n : g[Len(f) + k] = Line(r)[p + k]
  BY <1>1, <1>2, <1>4, ConcatProperties
<1>6. Lined(g)
  <2> SUFFICES ASSUME NEW i \in 1 .. Len(g)
               PROVE  /\ i % 3 = 1 => \E x \in Records : g[i] = Half(x, 1)
                      /\ i % 3 = 2 => \E x \in Records : g[i - 1] = Half(x, 1) /\ g[i] = Half(x, 2)
                      /\ i % 3 = 0 => g[i] = Break
    BY DEF Lined
  <2>1. CASE i \in 1 .. Len(f)
    <3>1. /\ i - 1 \in 1 .. Len(f) \/ i = 1
          /\ i = 1 => i % 3 = 1
      BY <1>2, <2>1
    <3>2. /\ i % 3 = 1 => \E x \in Records : f[i] = Half(x, 1)
          /\ i % 3 = 2 => \E x \in Records : f[i - 1] = Half(x, 1) /\ f[i] = Half(x, 2)
          /\ i % 3 = 0 => f[i] = Break
      BY <2>1 DEF EndsAfter, Lined
    <3>3. g[i] = f[i] /\ (i # 1 => g[i - 1] = f[i - 1])
      BY <1>5, <2>1, <3>1
    <3> QED
      BY <3>1, <3>2, <3>3
  <2>2. CASE i \notin 1 .. Len(f)
    <3>1. PICK k \in 1 .. n : i = Len(f) + k
      <4>1. i - Len(f) \in 1 .. n
        BY <1>2, <1>3, <1>5, <2>2, SMTT(30)
      <4>2. i = Len(f) + (i - Len(f))
        BY <1>2, <1>3, <1>5
      <4> QED
        BY <4>1, <4>2
    <3>2. g[i] = Line(r)[p + k] /\ p + k \in 1 .. 3 /\ i % 3 = (p + k) % 3
      BY <1>3, <1>3a, <1>5, <3>1
    <3>3. CASE p + k = 1
      BY <3>2, <3>3 DEF Line
    <3>4. CASE p + k = 2
      <4>1. CASE k = 1
        <5>1. Len(f) \in 1 .. Len(f) /\ f[Len(f)] = Half(r, 1) /\ i - 1 = Len(f)
          BY <1>2, <3>1, <3>4, <4>1 DEF Line
        <5> QED
          BY <1>5, <3>2, <3>4, <5>1 DEF Line
      <4>2. CASE k = 2
        <5>1. i - 1 = Len(f) + 1 /\ p = 0 /\ 1 \in 1 .. n
          BY <1>2, <1>3, <3>1, <3>4, <4>2
        <5> QED
          BY <1>5, <3>2, <3>4, <5>1 DEF Line
      <4> QED
        BY <3>4, <4>1, <4>2
    <3>5. CASE p + k = 3
      BY <3>2, <3>5 DEF Line
    <3> QED
      BY <3>2, <3>3, <3>4, <3>5
  <2> QED
    BY <2>1, <2>2
<1>7. Len(g) % 3 = (p + n) % 3
  BY <1>3, <1>3a, <1>5
<1>8. p + n \in {1, 2} => g[Len(g)] = Line(r)[p + n]
  <2>1. CASE n = 0
    <3>1. p \in {1, 2} => Len(f) \in 1 .. Len(f)
      BY <1>2
    <3> QED
      BY <1>2, <1>5, <2>1, <3>1
  <2>2. CASE n # 0
    BY <1>3, <1>5, <2>2, SMTT(30)
  <2> QED
    BY <2>1, <2>2
<1> QED
  BY <1>0, <1>1, <1>5, <1>6, <1>7, <1>8 DEF EndsAfter

LEMMA StartLine ==
    ASSUME NEW f, Whole(f), NEW r
    PROVE  EndsAfter(f, r, 0)
BY DEF Whole, EndsAfter

LEMMA LineEnds ==
    ASSUME NEW f, NEW r, EndsAfter(f, r, 3)
    PROVE  Whole(f)
BY DEF Whole, EndsAfter

LEMMA CountConcat ==
    ASSUME NEW f \in Seq(Tokens), NEW s \in Seq(Tokens), NEW r
    PROVE  /\ CountIn(f, r) \in Nat
           /\ CountIn(f \o s, r) \in Nat
           /\ CountIn(f, r) =< CountIn(f \o s, r)
           /\ (\E k \in 1 .. Len(s) : s[k] = Half(r, 2)) => CountIn(f, r) + 1 =< CountIn(f \o s, r)
<1> DEFINE Old == {i \in DOMAIN f : f[i] = Half(r, 2)}
           New == {i \in DOMAIN (f \o s) : (f \o s)[i] = Half(r, 2)}
<1>1. /\ Len(f \o s) = Len(f) + Len(s) /\ Len(f) \in Nat /\ Len(s) \in Nat
      /\ \A i \in 1 .. Len(f) : (f \o s)[i] = f[i]
      /\ \A k \in 1 .. Len(s) : (f \o s)[Len(f) + k] = s[k]
      /\ DOMAIN f = 1 .. Len(f) /\ DOMAIN (f \o s) = 1 .. Len(f \o s)
  BY ConcatProperties, LenProperties
<1>2. IsFiniteSet(Old) /\ IsFiniteSet(New)
  <2>1. IsFiniteSet(1 .. Len(f)) /\ IsFiniteSet(1 .. Len(f \o s))
    BY <1>1, FS_Interval
  <2> QED
    BY <1>1, <2>1, FS_Subset
<1>3. Old \subseteq New
  BY <1>1
<1>4. ASSUME NEW k \in 1 .. Len(s), s[k] = Half(r, 2) PROVE Cardinality(Old) + 1 =< Cardinality(New)
  <2>1. Len(f) + k \in New /\ Len(f) + k \notin Old
    BY <1>1, <1>4
  <2>2. Cardinality(Old \cup {Len(f) + k}) = Cardinality(Old) + 1
    BY <1>2, <2>1, FS_AddElement
  <2>3. Old \cup {Len(f) + k} \subseteq New
    BY <1>3, <2>1
  <2> QED
    BY <1>2, <2>2, <2>3, FS_Subset
<1> QED
  BY <1>2, <1>3, <1>4, FS_Subset, FS_CardinalityType DEF CountIn

LEMMA CountType ==
    ASSUME file \in Seq(Tokens), NEW r
    PROVE  Count(r) \in Nat
<1>1. <<>> \in Seq(Tokens) /\ Count(r) = CountIn(file, r)
  BY EmptySeq DEF Count, CountIn
<1> QED
  BY <1>1, CountConcat

-----------------------------------------------------------------------------
(* An append, between its steps.                                           *)
States ==
    {Idle} \cup [phase : {"opened", "writing", "closing", "written"}, record : Records, rest : Seq(Tokens)]

RestOK(x) ==
    /\ x.phase = "opened" => x.rest = Text(x.record)
    /\ x.phase = "writing" => Len(x.rest) > 0 /\ (x.record \notin Splitting => IsRest(x.rest, x.record))
    /\ x.phase = "written" => x.rest = <<>>

PartWritten(x) == x.phase \in {"writing", "closing"} /\ x.rest # Text(x.record)

(* A record with a line separator is untouched.                            *)
Unsplit(x) == x.phase \in {"writing", "written"} /\ x.record \in Splitting => x.phase = "writing" /\ x.rest = Text(x.record)

(* The second half of r is in the file and the append may yet return.      *)
Counts(x, r) == x.phase \in {"writing", "written"} /\ x.record = r /\ Len(x.rest) =< 1

Counting(r) == {w \in Writers : Counts(writer[w], r)}

Counted == \A r \in Records : acknowledged[r] + Cardinality(Counting(r)) =< Count(r)

Clean ==
    /\ \A w \in Writers : Unsplit(writer[w])
    /\ \A v, w \in Writers : Midway(v) /\ Midway(w) => v = w
    /\ (\A w \in Writers : ~Midway(w)) => Whole(file)
    /\ \A w \in Writers : Midway(w) /\ writer[w].phase = "writing" =>
            EndsAfter(file, writer[w].record, 3 - Len(writer[w].rest))
    /\ Counted

IInv ==
    /\ file \in Seq(Tokens)
    /\ acknowledged \in [Records -> Nat]
    /\ writer \in [Writers -> States]
    /\ \A w \in Writers : RestOK(writer[w])
    /\ locking => \A w \in Writers : writer[w].phase \in {"writing", "written"} => lock = w
    /\ ~spoiled => Clean

-----------------------------------------------------------------------------
LEMMA TextFacts ==
    ASSUME NEW r \in Records
    PROVE  /\ Text(r) \in Seq(Tokens)
           /\ Len(Text(r)) \in {3, 4}
           /\ r \notin Splitting => Text(r) = Line(r) /\ IsRest(Text(r), r) /\ Len(Text(r)) = 3
<1>1. Half(r, 1) \in Tokens /\ Half(r, 2) \in Tokens /\ Break \in Tokens
  BY TokenFacts
<1>2. CASE r \in Splitting
  BY <1>1, <1>2 DEF Text
<1>3. CASE r \notin Splitting
  <2>1. Text(r) = Line(r)
    BY <1>3 DEF Text, Line
  <2>2. Line(r) \in Seq(Tokens) /\ Len(Line(r)) = 3
    BY <1>1 DEF Line
  <2> QED
    BY <2>1, <2>2 DEF IsRest
<1> QED
  BY <1>2, <1>3

(* Three pieces left of a line are all of it.                              *)
LEMMA AllLeft ==
    ASSUME NEW r \in Records, r \notin Splitting, NEW rest, IsRest(rest, r)
    PROVE  Len(rest) = 3 <=> rest = Text(r)
<1>1. Line(r) \in Seq(Tokens) /\ Len(Line(r)) = 3 /\ Text(r) = Line(r)
  BY TextFacts
<1>2. ASSUME Len(rest) = 3 PROVE rest = Line(r)
  <2>1. \A k \in 1 .. Len(rest) : rest[k] = Line(r)[k]
    BY <1>2 DEF IsRest
  <2> QED
    BY <1>1, <1>2, <2>1, SeqEqual DEF IsRest
<1> QED
  BY <1>1, <1>2

LEMMA PieceFacts ==
    ASSUME NEW rest \in Seq(Tokens), NEW n \in 0 .. Len(rest)
    PROVE  /\ SubSeq(rest, 1, n) \in Seq(Tokens)
           /\ Len(SubSeq(rest, 1, n)) = n
           /\ \A k \in 1 .. n : SubSeq(rest, 1, n)[k] = rest[k]
           /\ SubSeq(rest, n + 1, Len(rest)) \in Seq(Tokens)
           /\ Len(SubSeq(rest, n + 1, Len(rest))) = Len(rest) - n
           /\ \A k \in 1 .. Len(rest) - n : SubSeq(rest, n + 1, Len(rest))[k] = rest[n + k]
<1>1. Len(rest) \in Nat /\ \A k \in 1 .. Len(rest) : rest[k] \in Tokens
  BY LenProperties, ElementOfSeq
<1>2. /\ SubSeq(rest, 1, n) \in Seq(Tokens)
      /\ Len(SubSeq(rest, 1, n)) = n
      /\ \A k \in 1 .. n : SubSeq(rest, 1, n)[k] = rest[k]
  BY <1>1, SubSeqProperties
<1>3. PICK m \in Int, l \in Int : m = n + 1 /\ l = Len(rest)
  BY <1>1
<1>4. \A i \in m .. l : rest[i] \in Tokens
  BY <1>1, <1>3
<1>5. /\ SubSeq(rest, m, l) \in Seq(Tokens)
      /\ Len(SubSeq(rest, m, l)) = IF m =< l THEN l - m + 1 ELSE 0
      /\ \A k \in 1 .. l - m + 1 : SubSeq(rest, m, l)[k] = rest[m + k - 1]
  BY <1>4, SubSeqProperties
<1>6. n \in Nat /\ n =< l /\ m = n + 1
  BY <1>1, <1>3
<1>7. l - m + 1 = l - n /\ (m =< l \/ l - n = 0)
  BY <1>3, <1>6
<1>8. Len(SubSeq(rest, m, l)) = l - n
  BY <1>3, <1>5, <1>6, <1>7
<1>9. \A k \in 1 .. l - n : SubSeq(rest, m, l)[k] = rest[n + k]
  <2> SUFFICES ASSUME NEW k \in 1 .. l - n PROVE SubSeq(rest, m, l)[k] = rest[n + k]
    OBVIOUS
  <2>1. m + k - 1 = n + k
    BY <1>3, <1>6
  <2> QED
    BY <1>5, <1>7, <2>1
<1> QED
  BY <1>2, <1>3, <1>5, <1>8, <1>9

LEMMA RestOfRest ==
    ASSUME NEW r \in Records, NEW rest, IsRest(rest, r), NEW n \in 0 .. Len(rest) - 1
    PROVE  IsRest(SubSeq(rest, n + 1, Len(rest)), r)
<1>1. PICK l \in 1 .. 3 : l = Len(rest)
  BY DEF IsRest
<1>1a. PICK left : left = SubSeq(rest, n + 1, Len(rest))
  OBVIOUS
<1>2. left \in Seq(Tokens) /\ Len(left) = l - n /\ \A k \in 1 .. l - n : left[k] = rest[n + k]
  BY <1>1, <1>1a, PieceFacts DEF IsRest
<1>3. \A k \in 1 .. l - n : left[k] = Line(r)[3 - Len(left) + k]
  <2> SUFFICES ASSUME NEW k \in 1 .. l - n
               PROVE  left[k] = Line(r)[3 - Len(left) + k]
    OBVIOUS
  <2>1. n + k \in 1 .. l
    BY <1>1
  <2>2. rest[n + k] = Line(r)[3 - l + (n + k)]
    BY <1>1, <2>1 DEF IsRest
  <2>3. 3 - l + (n + k) = 3 - Len(left) + k
    BY <1>1, <1>2
  <2> QED
    BY <1>2, <2>2, <2>3
<1>4. Len(left) \in 1 .. 3
  BY <1>1, <1>2, SMTT(30)
<1>5. \A k \in 1 .. Len(left) : left[k] = Line(r)[3 - Len(left) + k]
  BY <1>2, <1>3
<1> QED
  BY <1>1a, <1>2, <1>4, <1>5 DEF IsRest

-----------------------------------------------------------------------------
(* A step of w that leaves the other writers alone.                        *)
LEMMA Frame ==
    ASSUME writer \in [Writers -> States], NEW w \in Writers, NEW x \in States,
           writer' = [writer EXCEPT ![w] = x]
    PROVE  /\ writer' \in [Writers -> States]
           /\ writer'[w] = x
           /\ \A v \in Writers \ {w} : writer'[v] = writer[v]
           /\ Midway(w)' <=> PartWritten(x)
           /\ \A v \in Writers \ {w} : Midway(v)' <=> Midway(v)
BY DEF Midway, PartWritten

(* A writer that starts to count writes a second half.                     *)
Justifies(w, x, piece) ==
    \A r \in Records : Counts(x, r) /\ ~Counts(writer[w], r) => \E k \in 1 .. Len(piece) : piece[k] = Half(r, 2)

(* Appending text never loses a second half; a writer that starts to count *)
(* has just written its own.                                               *)
LEMMA CountedStep ==
    ASSUME IInv, Clean, NEW w \in Writers, NEW x \in States, NEW piece \in Seq(Tokens),
           writer' = [writer EXCEPT ![w] = x], file' = file \o piece, acknowledged' = acknowledged,
           Justifies(w, x, piece)
    PROVE  Counted'
<1> SUFFICES ASSUME NEW r \in Records
             PROVE  acknowledged[r] + Cardinality(Counting(r)') =< Count(r)'
  BY DEF Counted
<1>1. /\ Count(r) \in Nat /\ Count(r)' \in Nat /\ Count(r) =< Count(r)'
      /\ (\E k \in 1 .. Len(piece) : piece[k] = Half(r, 2)) => Count(r) + 1 =< Count(r)'
  <2>1. Count(r) = CountIn(file, r) /\ Count(r)' = CountIn(file \o piece, r)
    BY DEF Count, CountIn
  <2> QED
    BY <2>1, CountConcat DEF IInv
<1>2. acknowledged[r] + Cardinality(Counting(r)) =< Count(r) /\ acknowledged[r] \in Nat
  BY DEF Clean, Counted, IInv
<1>3. /\ writer'[w] = x
      /\ \A v \in Writers \ {w} : writer'[v] = writer[v]
  BY Frame DEF IInv
<1>4. IsFiniteSet(Counting(r)) /\ Cardinality(Counting(r)) \in Nat
  BY WritersAssumption, FS_Subset, FS_CardinalityType DEF Counting
<1>5. CASE Counts(x, r) /\ ~Counts(writer[w], r)
  <2>1. Counting(r)' = Counting(r) \cup {w} /\ w \notin Counting(r)
    BY <1>3, <1>5 DEF Counting
  <2>2. Cardinality(Counting(r)') = Cardinality(Counting(r)) + 1
    BY <1>4, <2>1, FS_AddElement
  <2> QED
    BY <1>1, <1>2, <1>4, <1>5, <2>2, SMTT(30) DEF Justifies
<1>6. CASE ~(Counts(x, r) /\ ~Counts(writer[w], r))
  <2>1. Counting(r)' \subseteq Counting(r)
    BY <1>3, <1>6 DEF Counting
  <2>2. Cardinality(Counting(r)') =< Cardinality(Counting(r)) /\ Cardinality(Counting(r)') \in Nat
    BY <1>4, <2>1, FS_Subset, FS_CardinalityType
  <2> QED
    BY <1>1, <1>2, <1>4, <2>2
<1> QED
  BY <1>5, <1>6

(* Who writes and does not overlap is the only one midway.                 *)
LEMMA WritesAlone ==
    ASSUME IInv, Clean, NEW w \in Writers, writer[w].phase \in {"writing", "closing"}, ~Overlaps(w),
           NEW v \in Writers, v # w
    PROVE  ~Midway(v)
<1> SUFFICES ASSUME Midway(v) PROVE FALSE
  OBVIOUS
<1>1. locking /\ "closing" \notin {writer[v].phase, writer[w].phase}
  BY DEF Overlaps
<1>2. writer[v].phase = "writing" /\ writer[w].phase = "writing"
  BY <1>1 DEF Midway
<1> QED
  BY <1>1, <1>2 DEF IInv

LEMMA QuietClean ==
    ASSUME IInv, Clean, NEW w \in Writers, NEW x \in States, writer' = [writer EXCEPT ![w] = x],
           file' = file, ~Midway(w), ~PartWritten(x), Unsplit(x), Counted'
    PROVE  Clean'
<1>1. /\ writer'[w] = x /\ ~Midway(w)'
      /\ \A v \in Writers \ {w} : writer'[v] = writer[v] /\ (Midway(v)' <=> Midway(v))
  BY Frame DEF IInv
<1>2. \A v \in Writers : Unsplit(writer[v])'
  BY <1>1 DEF Clean, Unsplit
<1>3. \A u, v \in Writers : Midway(u)' /\ Midway(v)' => u = v
  BY <1>1 DEF Clean
<1>4. (\A v \in Writers : ~Midway(v)') => Whole(file)'
  BY <1>1 DEF Clean, Whole, Lined
<1>5. \A v \in Writers : Midway(v)' /\ writer'[v].phase = "writing" =>
            EndsAfter(file, writer'[v].record, 3 - Len(writer'[v].rest))
  BY <1>1 DEF Clean
<1> QED
  BY <1>2, <1>3, <1>4, <1>5 DEF Clean

LEMMA SoloClean ==
    ASSUME IInv, Clean, NEW w \in Writers, NEW x \in States, writer' = [writer EXCEPT ![w] = x],
           \A v \in Writers : v # w => ~Midway(v),
           Unsplit(x), Counted',
           ~PartWritten(x) => Whole(file'),
           PartWritten(x) /\ x.phase = "writing" => EndsAfter(file', x.record, 3 - Len(x.rest))
    PROVE  Clean'
<1>1. /\ writer'[w] = x /\ (Midway(w)' <=> PartWritten(x))
      /\ \A v \in Writers \ {w} : writer'[v] = writer[v] /\ ~Midway(v)'
  BY Frame DEF IInv
<1>2. \A v \in Writers : Unsplit(writer[v])'
  BY <1>1 DEF Clean, Unsplit
<1>3. \A u, v \in Writers : Midway(u)' /\ Midway(v)' => u = v
  BY <1>1
<1>4. (\A v \in Writers : ~Midway(v)') => Whole(file')
  BY <1>1
<1>5. \A v \in Writers : Midway(v)' /\ writer'[v].phase = "writing" =>
            EndsAfter(file', writer'[v].record, 3 - Len(writer'[v].rest))
  BY <1>1
<1> QED
  BY <1>2, <1>3, <1>4, <1>5 DEF Clean

LEMMA StepInv ==
    ASSUME IInv, NEW w \in Writers, NEW x \in States, RestOK(x), writer' = [writer EXCEPT ![w] = x],
           file' \in Seq(Tokens), acknowledged' \in [Records -> Nat], locking' = locking,
           locking => /\ x.phase \in {"writing", "written"} => lock' = w
                      /\ \A v \in Writers : v # w /\ lock = v => lock' = v,
           ~spoiled' => Clean'
    PROVE  IInv'
<1>1. /\ writer' \in [Writers -> States] /\ writer'[w] = x
      /\ \A v \in Writers \ {w} : writer'[v] = writer[v]
  BY Frame DEF IInv
<1>2. \A v \in Writers : RestOK(writer[v])'
  BY <1>1 DEF IInv, RestOK
<1>3. locking => \A v \in Writers : writer'[v].phase \in {"writing", "written"} => lock' = v
  BY <1>1 DEF IInv
<1> QED
  BY <1>1, <1>2, <1>3 DEF IInv

(* Nothing to count, nothing written.                                      *)
LEMMA QuietStep ==
    ASSUME IInv, NEW w \in Writers, NEW x \in States, RestOK(x), writer' = [writer EXCEPT ![w] = x],
           file' = file, acknowledged' = acknowledged, locking' = locking,
           locking => /\ x.phase \in {"writing", "written"} => lock' = w
                      /\ \A v \in Writers : v # w /\ lock = v => lock' = v,
           ~spoiled' => ~spoiled /\ ~Midway(w) /\ ~PartWritten(x),
           Unsplit(x), \A r \in Records : ~Counts(x, r)
    PROVE  IInv'
<1>1. ASSUME ~spoiled' PROVE Clean'
  <2>1. Clean
    BY <1>1 DEF IInv
  <2>2. <<>> \in Seq(Tokens) /\ file' = file \o <<>>
    BY ConcatEmptySeq, EmptySeq DEF IInv
  <2>3. Counted'
    BY <2>1, <2>2, CountedStep DEF Justifies
  <2> QED
    BY <1>1, <2>1, <2>3, QuietClean
<1>2. file' \in Seq(Tokens) /\ acknowledged' \in [Records -> Nat]
  BY DEF IInv
<1> QED
  BY <1>1, <1>2, StepInv

-----------------------------------------------------------------------------
LEMMA ActiveFacts ==
    ASSUME IInv, NEW w \in Writers, NEW phase, writer[w].phase = phase, phase # "idle"
    PROVE  \E r \in Records, rest \in Seq(Tokens) :
                /\ writer[w] = Appending(phase, r, rest)
                /\ writer[w].record = r /\ writer[w].rest = rest
<1>1. writer[w] \in [phase : {"opened", "writing", "closing", "written"}, record : Records, rest : Seq(Tokens)]
  BY DEF IInv, States, Idle
<1>2. PICK y \in [phase : {"opened", "writing", "closing", "written"}, record : Records, rest : Seq(Tokens)] : y = writer[w]
  BY <1>1
<1>3. y = [phase |-> y.phase, record |-> y.record, rest |-> y.rest]
  OBVIOUS
<1>4. y.record \in Records /\ y.rest \in Seq(Tokens) /\ y.phase = phase
  BY <1>2
<1> QED
  BY <1>2, <1>3, <1>4 DEF Appending

LEMMA Becomes ==
    ASSUME IInv, NEW w \in Writers, NEW phase, NEW r, NEW rest, NEW new,
           writer[w] = Appending(phase, r, rest), Become(w, new)
    PROVE  writer' = [writer EXCEPT ![w] = Appending(new, r, rest)]
<1>1. PICK y : y = writer[w]
  OBVIOUS
<1>2. writer' = [writer EXCEPT ![w] = [y EXCEPT !.phase = new]]
  BY <1>1 DEF IInv, Become
<1>3. [y EXCEPT !.phase = new] = Appending(new, r, rest)
  BY <1>1 DEF Appending
<1> QED
  BY <1>2, <1>3

Leaves(w, left, new) == writer' = [writer EXCEPT ![w].rest = left, ![w].phase = new]

LEMMA LeavesRest ==
    ASSUME IInv, NEW w \in Writers, NEW phase, NEW r, NEW rest, NEW new, NEW left,
           writer[w] = Appending(phase, r, rest), Leaves(w, left, new)
    PROVE  writer' = [writer EXCEPT ![w] = Appending(new, r, left)]
<1>1. PICK y : y = writer[w]
  OBVIOUS
<1>2. writer' = [writer EXCEPT ![w] = [y EXCEPT !.rest = left, !.phase = new]]
  BY <1>1 DEF IInv, Leaves
<1>3. [y EXCEPT !.rest = left] = Appending(phase, r, left)
  BY <1>1 DEF Appending
<1>4. [Appending(phase, r, left) EXCEPT !.phase = new] = Appending(new, r, left)
  BY DEF Appending
<1> QED
  BY <1>2, <1>3, <1>4

LEMMA OpenInv ==
    ASSUME IInv, NEW w \in Writers, NEW r \in Records, Open(w, r)
    PROVE  IInv'
<1>1. PICK x : x = Appending("opened", r, Text(r))
  OBVIOUS
<1>2. x \in States /\ RestOK(x) /\ ~PartWritten(x) /\ Unsplit(x) /\ \A t \in Records : ~Counts(x, t)
  BY <1>1, TextFacts DEF States, Appending, RestOK, PartWritten, Unsplit, Counts
<1>3. /\ writer[w] = Idle /\ writer' = [writer EXCEPT ![w] = x]
      /\ file' = file /\ acknowledged' = acknowledged /\ locking' = locking /\ lock' = lock
      /\ spoiled' = spoiled
  BY <1>1 DEF Open
<1>4. ~Midway(w)
  BY <1>3 DEF Midway, Idle
<1>5. x.phase = "opened"
  BY <1>1 DEF Appending
<1> QED
  BY <1>2, <1>3, <1>4, <1>5, QuietStep

LEMMA AcquireInv ==
    ASSUME IInv, NEW w \in Writers, Acquire(w)
    PROVE  IInv'
<1>1. PICK r \in Records, rest \in Seq(Tokens) : writer[w] = Appending("opened", r, rest)
  BY ActiveFacts DEF Acquire
<1>2. rest = Text(r)
  <2>1. RestOK(writer[w])
    BY DEF IInv
  <2> QED
    BY <1>1, <2>1 DEF RestOK, Appending
<1>3. PICK x : x = Appending("writing", r, rest)
  OBVIOUS
<1>4. x \in States /\ RestOK(x) /\ ~PartWritten(x) /\ Unsplit(x) /\ \A t \in Records : ~Counts(x, t)
  <2>1. Len(rest) \in {3, 4} /\ (r \notin Splitting => IsRest(rest, r))
    BY <1>2, TextFacts
  <2>2. x.phase = "writing" /\ x.record = r /\ x.rest = rest /\ x \in States
    BY <1>3 DEF Appending, States
  <2>3. RestOK(x)
    BY <2>1, <2>2 DEF RestOK
  <2>4. ~PartWritten(x) /\ Unsplit(x)
    BY <1>2, <2>2 DEF PartWritten, Unsplit
  <2>5. \A t \in Records : ~Counts(x, t)
    <3>1. ~(Len(rest) =< 1)
      BY <2>1, SMTT(30)
    <3> QED
      BY <2>2, <3>1 DEF Counts
  <2> QED
    BY <2>2, <2>3, <2>4, <2>5
<1>5. /\ writer' = [writer EXCEPT ![w] = x]
      /\ file' = file /\ acknowledged' = acknowledged /\ locking' = locking
      /\ spoiled' = spoiled
      /\ locking => lock = None /\ lock' = w
  <2>1. writer' = [writer EXCEPT ![w] = x]
    BY <1>1, <1>3, Becomes DEF Acquire
  <2> QED
    BY <2>1 DEF Acquire
<1>6. ~Midway(w)
  BY <1>1 DEF Midway, Appending
<1>7. \A v \in Writers : v # None
  BY RecordAssumption
<1> QED
  BY <1>4, <1>5, <1>6, <1>7, QuietStep

(* What w has left, and what of it one call writes.                        *)
LEMMA WriteInv ==
    ASSUME IInv, NEW w \in Writers, Write(w)
    PROVE  IInv'
<1>1. PICK r \in Records, rest \in Seq(Tokens) : writer[w] = Appending("writing", r, rest)
  BY ActiveFacts DEF Write
<1>2. writer[w].phase = "writing" /\ writer[w].record = r /\ writer[w].rest = rest
  BY <1>1 DEF Appending
<1>3. PICK n \in 1 .. Len(rest) :
            /\ file' = file \o SubSeq(rest, 1, n)
            /\ writer' = [writer EXCEPT ![w].rest = SubSeq(rest, n + 1, Len(rest)),
                                        ![w].phase = IF n = Len(rest) THEN "written" ELSE @]
  BY <1>2 DEF Write, Put, Left
<1>4. PICK left, piece : left = SubSeq(rest, n + 1, Len(rest)) /\ piece = SubSeq(rest, 1, n)
  OBVIOUS
<1>5. PICK x : x = Appending(IF n = Len(rest) THEN "written" ELSE "writing", r, left)
  OBVIOUS
<1>6. /\ Len(rest) \in Nat /\ left \in Seq(Tokens) /\ Len(left) = Len(rest) - n
      /\ piece \in Seq(Tokens) /\ Len(piece) = n /\ \A k \in 1 .. n : piece[k] = rest[k]
  BY <1>4, PieceFacts, LenProperties
<1>7. /\ x \in States /\ x.record = r /\ x.rest = left
      /\ x.phase = IF n = Len(rest) THEN "written" ELSE "writing"
  BY <1>5, <1>6 DEF Appending, States
<1>8. writer' = [writer EXCEPT ![w] = x]
  <2>1. PICK new : new = IF n = Len(rest) THEN "written" ELSE "writing"
    OBVIOUS
  <2>2. Leaves(w, left, new)
    BY <1>2, <1>3, <1>4, <2>1 DEF Leaves
  <2> QED
    BY <1>1, <1>5, <2>1, <2>2, LeavesRest
<1>9. r \notin Splitting => IsRest(rest, r)
  BY <1>2 DEF IInv, RestOK
<1>10. RestOK(x)
  <2>1. CASE n = Len(rest)
    <3>1. left = <<>>
      BY <1>6, <2>1, EmptySeq
    <3> QED
      BY <1>7, <2>1, <3>1 DEF RestOK
  <2>2. CASE n # Len(rest)
    <3>1. n \in 0 .. Len(rest) - 1 /\ Len(left) > 0
      BY <1>6, <2>2
    <3>2. r \notin Splitting => IsRest(left, r)
      BY <1>4, <1>9, <3>1, RestOfRest
    <3> QED
      BY <1>7, <2>2, <3>1, <3>2 DEF RestOK
  <2> QED
    BY <2>1, <2>2
<1>11. ASSUME ~spoiled' PROVE Clean'
  <2>1. ~spoiled /\ r \notin Splitting /\ ~Overlaps(w)
    BY <1>2, <1>11 DEF Write
  <2>2. Clean
    BY <2>1 DEF IInv
  <2>3. \A v \in Writers : v # w => ~Midway(v)
    BY <1>2, <2>1, <2>2, WritesAlone
  <2>4. EndsAfter(file, r, 3 - Len(rest))
    <3>1. CASE rest = Text(r)
      <4>1. Whole(file) /\ Len(rest) = 3
        BY <1>2, <2>1, <2>2, <2>3, <3>1, TextFacts DEF Clean, Midway
      <4>2. EndsAfter(file, r, 0)
        BY <4>1, StartLine
      <4> QED
        BY <4>1, <4>2
    <3>2. CASE rest # Text(r)
      BY <1>2, <2>2, <3>2 DEF Clean, Midway
    <3> QED
      BY <3>1, <3>2
  <2>5. EndsAfter(file', r, 3 - Len(rest) + n)
    <3>1. n \in 0 .. Len(rest) /\ IsRest(rest, r)
      BY <1>6, <1>9, <2>1
    <3>2. EndsAfter(file \o SubSeq(rest, 1, n), r, 3 - Len(rest) + n)
      BY <2>4, <3>1, ExtendLine
    <3> QED
      BY <1>3, <3>2
  <2>6. Unsplit(x)
    BY <1>7, <2>1 DEF Unsplit
  <2>7. ~PartWritten(x) => Whole(file')
    <3>1. CASE n = Len(rest)
      <4>1. 3 - Len(rest) + n = 3
        BY <1>6, <3>1
      <4> QED
        BY <2>5, <4>1, LineEnds
    <3>2. CASE n # Len(rest)
      <4>1. Len(left) < 3 /\ Len(left) > 0 /\ Len(rest) \in 1 .. 3
        BY <1>6, <1>9, <2>1, <3>2 DEF IsRest
      <4>2. left # Text(r)
        BY <2>1, <4>1, TextFacts, SMTT(30)
      <4> QED
        BY <1>7, <3>2, <4>2 DEF PartWritten
    <3> QED
      BY <3>1, <3>2
  <2>8. PartWritten(x) /\ x.phase = "writing" => EndsAfter(file', x.record, 3 - Len(x.rest))
    <3>1. 3 - Len(rest) + n = 3 - Len(left)
      BY <1>6
    <3> QED
      BY <1>7, <2>5, <3>1
  <2>9. \A t \in Records : Counts(x, t) /\ ~Counts(writer[w], t) => \E k \in 1 .. Len(piece) : piece[k] = Half(t, 2)
    <3> SUFFICES ASSUME NEW t \in Records, Counts(x, t), ~Counts(writer[w], t)
                 PROVE  \E k \in 1 .. Len(piece) : piece[k] = Half(t, 2)
      OBVIOUS
    <3>1. t = r /\ Len(left) =< 1 /\ Len(rest) > 1
      BY <1>2, <1>6, <1>7 DEF Counts
    <3>2. Len(rest) \in 1 .. 3 /\ \A k \in 1 .. Len(rest) : rest[k] = Line(r)[3 - Len(rest) + k]
      BY <1>9, <2>1 DEF IsRest
    <3>3. PICK k \in 1 .. n : 3 - Len(rest) + k = 2
      <4>1. Len(rest) - 1 \in 1 .. n
        BY <1>6, <3>1, <3>2
      <4>2. 3 - Len(rest) + (Len(rest) - 1) = 2
        BY <1>6
      <4> QED
        BY <4>1, <4>2
    <3>4. piece[k] = Line(r)[2] /\ k \in 1 .. Len(piece)
      BY <1>6, <3>2, <3>3
    <3> QED
      BY <3>1, <3>4 DEF Line
  <2>10. Counted'
    <3>1. file' = file \o piece /\ acknowledged' = acknowledged
      BY <1>3, <1>4 DEF Write
    <3>2. piece \in Seq(Tokens) /\ x \in States
      BY <1>6, <1>7
    <3>3. Justifies(w, x, piece)
      BY <2>9 DEF Justifies
    <3> QED
      BY <1>8, <2>2, <3>1, <3>2, <3>3, CountedStep
  <2> QED
    BY <1>7, <1>8, <2>2, <2>3, <2>6, <2>7, <2>8, <2>10, SoloClean
<1>12. file' \in Seq(Tokens) /\ acknowledged' \in [Records -> Nat] /\ locking' = locking /\ lock' = lock
  BY <1>3, <1>4, <1>6, ConcatProperties DEF Write, IInv
<1>13. locking => lock = w
  BY <1>2 DEF IInv
<1> QED
  BY <1>7, <1>8, <1>10, <1>11, <1>12, <1>13, StepInv

LEMMA ReturnInv ==
    ASSUME IInv, NEW w \in Writers, Return(w)
    PROVE  IInv'
<1>1. PICK r \in Records, rest \in Seq(Tokens) :
            writer[w] = Appending("written", r, rest) /\ writer[w].record = r /\ writer[w].rest = rest
  BY ActiveFacts DEF Return
<1>2. PICK x : x = Idle
  OBVIOUS
<1>3. x \in States /\ RestOK(x) /\ ~PartWritten(x) /\ Unsplit(x) /\ \A t \in Records : ~Counts(x, t)
  BY <1>2 DEF States, Idle, RestOK, PartWritten, Unsplit, Counts
<1>4. /\ writer' = [writer EXCEPT ![w] = x] /\ file' = file /\ locking' = locking /\ spoiled' = spoiled
      /\ acknowledged' = [acknowledged EXCEPT ![r] = @ + 1]
      /\ lock' = IF lock = w THEN None ELSE lock
      /\ writer[w].phase = "written"
  BY <1>1, <1>2 DEF Return, Release
<1>5. Counts(writer[w], r) /\ \A t \in Records : Counts(writer[w], t) => t = r
  <2>1. Len(writer[w].rest) =< 1
    <3>1. RestOK(writer[w])
      BY DEF IInv
    <3>2. writer[w].rest = <<>>
      BY <1>4, <3>1 DEF RestOK
    <3> QED
      BY <3>2
  <2> QED
    BY <1>1, <1>4, <2>1 DEF Counts
<1>6. ~Midway(w)
  BY <1>4 DEF Midway
<1>7. ASSUME ~spoiled' PROVE Clean'
  <2>1. Clean
    BY <1>4, <1>7 DEF IInv
  <2>2. /\ writer'[w] = x
        /\ \A v \in Writers \ {w} : writer'[v] = writer[v]
    BY <1>3, <1>4, Frame DEF IInv
  <2>3. ASSUME NEW t \in Records
        PROVE  acknowledged'[t] + Cardinality(Counting(t)') =< Count(t)'
    <3>1. acknowledged[t] + Cardinality(Counting(t)) =< Count(t) /\ acknowledged[t] \in Nat /\ Count(t)' = Count(t)
      BY <1>4, <2>1 DEF Clean, Counted, IInv, Count
    <3>2. IsFiniteSet(Counting(t)) /\ Cardinality(Counting(t)) \in Nat
      BY WritersAssumption, FS_Subset, FS_CardinalityType DEF Counting
    <3>3. Counting(t)' = Counting(t) \ {w}
      BY <1>3, <2>2 DEF Counting
    <3>4. Count(t) \in Nat
      BY CountType DEF IInv
    <3>5. CASE t = r
      <4>1. w \in Counting(t) /\ acknowledged'[t] = acknowledged[t] + 1
        BY <1>4, <1>5, <3>5 DEF Counting, IInv
      <4>2. Cardinality(Counting(t)') = Cardinality(Counting(t)) - 1
        BY <3>2, <3>3, <4>1, FS_RemoveElement, ZenonT(30)
      <4> QED
        BY <3>1, <3>2, <3>4, <4>1, <4>2
    <3>6. CASE t # r
      <4>1. Counting(t)' = Counting(t) /\ acknowledged'[t] = acknowledged[t]
        BY <1>4, <1>5, <3>3, <3>6 DEF Counting, IInv
      <4> QED
        BY <3>1, <4>1
    <3> QED
      BY <3>5, <3>6
  <2>4. Counted'
    BY <2>3 DEF Counted
  <2> QED
    BY <1>3, <1>4, <1>6, <2>1, <2>4, QuietClean
<1>8. file' \in Seq(Tokens) /\ acknowledged' \in [Records -> Nat]
  BY <1>4 DEF IInv
<1>9. x.phase = "idle" /\ \A v \in Writers : v # w /\ lock = v => lock' = v
  BY <1>2, <1>4 DEF Idle
<1> QED
  BY <1>3, <1>4, <1>7, <1>8, <1>9, StepInv

(* A failed write may leave w midway; nobody else is then.                 *)
LEMMA WriteFailsInv ==
    ASSUME IInv, NEW w \in Writers, WriteFails(w)
    PROVE  IInv'
<1>1. PICK r \in Records, rest \in Seq(Tokens) :
            writer[w] = Appending("writing", r, rest) /\ writer[w].record = r /\ writer[w].rest = rest
  BY ActiveFacts DEF WriteFails
<1>2. PICK n \in 0 .. Len(rest) - 1 :
            /\ file' = file \o SubSeq(rest, 1, n)
            /\ writer' = [writer EXCEPT ![w].rest = SubSeq(rest, n + 1, Len(rest)), ![w].phase = "closing"]
  BY <1>1 DEF WriteFails, Put, Left
<1>3. PICK left, piece : left = SubSeq(rest, n + 1, Len(rest)) /\ piece = SubSeq(rest, 1, n)
  OBVIOUS
<1>4. PICK x : x = Appending("closing", r, left)
  OBVIOUS
<1>5. Len(rest) \in Nat /\ n \in 0 .. Len(rest) /\ n \in Nat
  BY LenProperties
<1>6. /\ left \in Seq(Tokens) /\ Len(left) = Len(rest) - n
      /\ piece \in Seq(Tokens) /\ Len(piece) = n
  BY <1>3, <1>5, PieceFacts
<1>7. x \in States /\ x.phase = "closing" /\ x.record = r /\ x.rest = left
  BY <1>4, <1>6 DEF Appending, States
<1>8. writer' = [writer EXCEPT ![w] = x]
  <2>1. Leaves(w, left, "closing")
    BY <1>2, <1>3 DEF Leaves
  <2> QED
    BY <1>1, <1>4, <2>1, LeavesRest
<1>9. RestOK(x) /\ Unsplit(x) /\ \A t \in Records : ~Counts(x, t)
  BY <1>7 DEF RestOK, Unsplit, Counts
<1>10. ASSUME ~spoiled' PROVE Clean'
  <2>1. ~spoiled /\ ~Overlaps(w) /\ writer[w].phase = "writing"
    BY <1>10 DEF WriteFails
  <2>2. Clean
    BY <2>1 DEF IInv
  <2>3. \A v \in Writers : v # w => ~Midway(v)
    BY <2>1, <2>2, WritesAlone
  <2>4. ~PartWritten(x) => Whole(file')
    <3> SUFFICES ASSUME left = Text(r) PROVE Whole(file')
      BY <1>7 DEF PartWritten
    <3>1. rest = Text(r)
      <4>1. CASE r \in Splitting
        BY <1>1, <2>1, <2>2, <4>1 DEF Clean, Unsplit
      <4>2. CASE r \notin Splitting
        <5>1. IsRest(rest, r)
          BY <1>1, <2>1, <4>2 DEF IInv, RestOK
        <5>2. Len(left) = 3 /\ Len(rest) \in 1 .. 3
          BY <4>2, <5>1, TextFacts DEF IsRest
        <5>3. Len(rest) = 3
          <6>1. 3 = Len(rest) - n
            BY <1>6, <5>2
          <6> QED
            BY <1>5, <5>2, <6>1
        <5> QED
          BY <4>2, <5>1, <5>3, AllLeft
      <4> QED
        BY <4>1, <4>2
    <3>2. n = 0
      BY <1>5, <1>6, <3>1
    <3>3. file' = file
      <4>1. piece = <<>>
        BY <1>6, <3>2, EmptySeq
      <4> QED
        BY <1>2, <1>3, <4>1, ConcatEmptySeq DEF IInv
    <3>4. \A v \in Writers : ~Midway(v)
      BY <1>1, <2>3, <3>1 DEF Midway
    <3> QED
      BY <2>2, <3>3, <3>4 DEF Clean
  <2>5. Counted'
    <3>1. file' = file \o piece /\ acknowledged' = acknowledged
      BY <1>2, <1>3 DEF WriteFails
    <3> QED
      BY <1>6, <1>7, <1>8, <1>9, <2>2, <3>1, CountedStep DEF Justifies
  <2> QED
    BY <1>7, <1>8, <1>9, <2>2, <2>3, <2>4, <2>5, SoloClean
<1>11. file' \in Seq(Tokens) /\ acknowledged' \in [Records -> Nat] /\ locking' = locking
  BY <1>2, <1>3, <1>6, ConcatProperties DEF WriteFails, IInv
<1>12. \A v \in Writers : v # w /\ lock = v => lock' = v
  BY DEF WriteFails, Release
<1> QED
  BY <1>7, <1>8, <1>9, <1>10, <1>11, <1>12, StepInv

LEMMA CloseInv ==
    ASSUME IInv, NEW w \in Writers, Close(w)
    PROVE  IInv'
<1>1. PICK r \in Records, rest \in Seq(Tokens) :
            writer[w] = Appending("closing", r, rest) /\ writer[w].record = r /\ writer[w].rest = rest
  BY ActiveFacts DEF Close
<1>2. PICK x : x = Idle
  OBVIOUS
<1>3. /\ x \in States /\ RestOK(x) /\ ~PartWritten(x) /\ Unsplit(x)
      /\ x.phase = "idle" /\ \A t \in Records : ~Counts(x, t)
  BY <1>2 DEF States, Idle, RestOK, PartWritten, Unsplit, Counts
<1>4. /\ writer' = [writer EXCEPT ![w] = x] /\ locking' = locking /\ lock' = lock
      /\ acknowledged' = acknowledged /\ writer[w].phase = "closing"
  BY <1>2 DEF Close
<1>5. CASE file' = file /\ spoiled' = (spoiled \/ Midway(w))
  <2>1. ~spoiled' => ~spoiled /\ ~Midway(w)
    BY <1>5
  <2> QED
    BY <1>3, <1>4, <1>5, <2>1, QuietStep
<1>6. CASE /\ Put(w, Len(rest))
           /\ spoiled' = (spoiled \/ r \in Splitting \/ Overlaps(w) \/ Midway(w))
  <2>1. Len(rest) \in Nat /\ Len(rest) \in 0 .. Len(rest)
    BY LenProperties
  <2>2. PICK piece : piece = SubSeq(rest, 1, Len(rest))
    OBVIOUS
  <2>3. piece \in Seq(Tokens) /\ file' = file \o piece
    BY <1>1, <1>6, <2>1, <2>2, PieceFacts DEF Put
  <2>4. ASSUME ~spoiled' PROVE Clean'
    <3>1. ~spoiled /\ r \notin Splitting /\ ~Overlaps(w) /\ ~Midway(w)
      BY <1>6, <2>4
    <3>2. Clean
      BY <3>1 DEF IInv
    <3>3. \A v \in Writers : v # w => ~Midway(v)
      BY <1>4, <3>1, <3>2, WritesAlone
    <3>4. rest = Text(r) /\ Len(rest) = 3 /\ IsRest(rest, r)
      BY <1>1, <1>4, <3>1, TextFacts DEF Midway
    <3>5. Whole(file')
      <4>1. EndsAfter(file, r, 0)
        BY <3>1, <3>2, <3>3, StartLine DEF Clean
      <4>2. EndsAfter(file \o SubSeq(rest, 1, 3), r, 3 - Len(rest) + 3)
        <5>1. EndsAfter(file, r, 3 - Len(rest)) /\ 3 \in 0 .. Len(rest)
          BY <3>4, <4>1
        <5> QED
          BY <3>4, <5>1, ExtendLine
      <4>3. 3 - Len(rest) + 3 = 3
        BY <3>4
      <4>4. EndsAfter(file', r, 3)
        BY <2>2, <2>3, <3>4, <4>2, <4>3
      <4> QED
        BY <4>4, LineEnds
    <3>6. Counted'
      BY <1>3, <1>4, <2>3, <3>2, CountedStep DEF Justifies
    <3> QED
      BY <1>3, <1>4, <3>2, <3>3, <3>5, <3>6, SoloClean
  <2>5. file' \in Seq(Tokens) /\ acknowledged' \in [Records -> Nat]
    BY <1>4, <2>3, ConcatProperties DEF IInv
  <2> QED
    BY <1>3, <1>4, <2>4, <2>5, StepInv
<1> QED
  BY <1>1, <1>5, <1>6 DEF Close

(* The text survives; whoever was midway has spoiled it.                   *)
LEMMA CrashInv ==
    ASSUME IInv, Crash
    PROVE  IInv'
<1>1. /\ writer' = [w \in Writers |-> Idle] /\ file' = file /\ acknowledged' = acknowledged
      /\ locking' = locking
      /\ ~spoiled' => ~spoiled /\ \A w \in Writers : ~Midway(w)
  BY DEF Crash
<1>2. \A w \in Writers : writer'[w] = Idle
  BY <1>1
<1>3. Idle \in States /\ RestOK(Idle) /\ Unsplit(Idle) /\ Idle.phase = "idle" /\ \A r \in Records : ~Counts(Idle, r)
  BY DEF States, Idle, RestOK, Unsplit, Counts
<1>4. ASSUME ~spoiled' PROVE Clean'
  <2>1. Clean /\ Whole(file)
    BY <1>1, <1>4 DEF IInv, Clean
  <2>2. \A w \in Writers : ~Midway(w)'
    BY <1>2, <1>3 DEF Midway
  <2>3. \A w \in Writers : Unsplit(writer[w])'
    BY <1>2, <1>3 DEF Unsplit
  <2>4. ASSUME NEW r \in Records PROVE acknowledged'[r] + Cardinality(Counting(r)') =< Count(r)'
    <3>1. Counting(r)' = {}
      BY <1>2, <1>3 DEF Counting
    <3>2. IsFiniteSet(Counting(r)) /\ Cardinality(Counting(r)) \in Nat
      BY WritersAssumption, FS_Subset, FS_CardinalityType DEF Counting
    <3>3. acknowledged[r] \in Nat /\ acknowledged[r] + Cardinality(Counting(r)) =< Count(r)
      BY <2>1 DEF Clean, Counted, IInv
    <3>4. Count(r) \in Nat
      BY CountType DEF IInv
    <3>5. Count(r)' = Count(r) /\ acknowledged'[r] = acknowledged[r]
      BY <1>1 DEF Count
    <3>6. Cardinality({}) = 0
      BY FS_EmptySet
    <3>7. acknowledged[r] =< Count(r)
      BY <3>2, <3>3, <3>4
    <3> QED
      BY <3>1, <3>3, <3>5, <3>6, <3>7
  <2>5. Counted'
    BY <2>4 DEF Counted
  <2>6. Whole(file)'
    BY <1>1, <2>1 DEF Whole, Lined
  <2> QED
    BY <2>2, <2>3, <2>5, <2>6 DEF Clean
<1>5. writer' \in [Writers -> States] /\ \A w \in Writers : RestOK(writer[w])'
  BY <1>1, <1>2, <1>3 DEF RestOK
<1>6. locking' => \A w \in Writers : writer'[w].phase \in {"writing", "written"} => lock' = w
  BY <1>2, <1>3
<1> QED
  BY <1>1, <1>4, <1>5, <1>6 DEF IInv

LEMMA SameInv ==
    ASSUME IInv, UNCHANGED <<locking, file, lock, writer, acknowledged, spoiled>>
    PROVE  IInv'
<1>1. UNCHANGED <<Clean, locking, file, lock, writer, acknowledged, spoiled>>
  BY DEF Clean, Unsplit, Midway, Whole, Lined, EndsAfter, Counted, Counting, Counts, Count
<1>2. \A w \in Writers : RestOK(writer[w])'
  BY DEF IInv, RestOK
<1> QED
  BY <1>1, <1>2 DEF IInv

LEMMA InitIInv == Init => IInv
<1> SUFFICES ASSUME Init PROVE IInv
  OBVIOUS
<1>1. \A w \in Writers : writer[w] = Idle
  BY DEF Init
<1>2. Idle \in States /\ RestOK(Idle) /\ Unsplit(Idle) /\ Idle.phase = "idle" /\ \A r \in Records : ~Counts(Idle, r)
  BY DEF States, Idle, RestOK, Unsplit, Counts
<1>3. file = <<>> /\ file \in Seq(Tokens) /\ Len(file) = 0
  BY EmptySeq DEF Init
<1>4. Whole(file)
  BY <1>3 DEF Whole, Lined
<1>5. \A w \in Writers : ~Midway(w)
  BY <1>1, <1>2 DEF Midway
<1>6. ASSUME NEW r \in Records PROVE acknowledged[r] + Cardinality(Counting(r)) =< Count(r)
  <2>1. Counting(r) = {} /\ acknowledged[r] = 0
    BY <1>1, <1>2 DEF Counting, Init
  <2>2. Count(r) \in Nat
    BY <1>3, CountType
  <2> QED
    BY <2>1, <2>2, FS_EmptySet
<1>7. Clean
  BY <1>1, <1>2, <1>4, <1>5, <1>6 DEF Clean, Counted
<1>8. acknowledged \in [Records -> Nat] /\ writer \in [Writers -> States]
  BY <1>2 DEF Init
<1> QED
  BY <1>1, <1>2, <1>3, <1>7, <1>8 DEF IInv

LEMMA NextIInv == IInv /\ [Next]_vars => IInv'
<1> SUFFICES ASSUME IInv, [Next]_vars PROVE IInv'
  OBVIOUS
<1>1. CASE \E w \in Writers : \E r \in Records : Open(w, r)
  BY <1>1, OpenInv
<1>2. CASE \E w \in Writers : Acquire(w)
  BY <1>2, AcquireInv
<1>3. CASE \E w \in Writers : Proceed(w)
  BY <1>3, WriteInv, ReturnInv, CloseInv DEF Proceed
<1>4. CASE \E w \in Writers : WriteFails(w)
  BY <1>4, WriteFailsInv
<1>5. CASE Crash
  BY <1>5, CrashInv
<1>6. CASE Read
  BY <1>6, SameInv DEF Read
<1>7. CASE UNCHANGED vars
  BY <1>7, SameInv DEF vars
<1> QED
  BY <1>1, <1>2, <1>3, <1>4, <1>5, <1>6, <1>7 DEF Next

LEMMA Inductive == Spec => []IInv
BY InitIInv, NextIInv, PTL DEF Spec

-----------------------------------------------------------------------------
(* Triples parse.                                                          *)
LEMMA WholeParses ==
    ASSUME Whole(file)
    PROVE  Parses
<1>1. file \in Seq(Tokens) /\ Len(file) \in Nat /\ Len(file) % 3 = 0 /\ DOMAIN file = 1 .. Len(file)
  BY LenProperties DEF Whole
<1> SUFFICES ASSUME NEW i \in 1 .. Len(file)
             PROVE  /\ file[i].half = 1 =>
                        /\ StartsLine(i)
                        /\ i < Len(file) /\ file[i + 1] = Half(file[i].record, 2)
                    /\ file[i].half = 2 =>
                        /\ EndsLine(i)
                        /\ i > 1 /\ file[i - 1] = Half(file[i].record, 1)
  BY <1>1 DEF Parses
<1>2. PICK l \in Nat : l = Len(file)
  BY <1>1
<1>3. /\ l % 3 = 0 /\ i \in 1 .. l
      /\ i % 3 \in 0 .. 2
      /\ i % 3 = 1 => i < l /\ (i + 1) % 3 = 2 /\ (i > 1 => (i - 1) % 3 = 0)
      /\ i % 3 = 2 => i > 1 /\ (i < l => (i + 1) % 3 = 0)
  BY <1>1, <1>2
<1>4. /\ i > 1 => i - 1 \in 1 .. Len(file)
      /\ i < Len(file) => i + 1 \in 1 .. Len(file)
  BY <1>1
<1>5. \A j \in 1 .. Len(file) :
        /\ j % 3 = 1 => \E r \in Records : file[j] = Half(r, 1)
        /\ j % 3 = 2 => \E r \in Records : file[j - 1] = Half(r, 1) /\ file[j] = Half(r, 2)
        /\ j % 3 = 0 => file[j] = Break
  BY DEF Whole, Lined
<1>6. CASE i % 3 = 1
  <2>1. PICK r \in Records : file[i + 1 - 1] = Half(r, 1) /\ file[i + 1] = Half(r, 2)
    BY <1>2, <1>3, <1>4, <1>5, <1>6
  <2>2. i + 1 - 1 = i
    OBVIOUS
  <2>3. file[i].half = 1 /\ file[i].record = r
    BY <2>1, <2>2, TokenFacts
  <2>4. StartsLine(i)
    BY <1>3, <1>4, <1>5, <1>6 DEF StartsLine
  <2> QED
    BY <1>2, <1>3, <1>6, <2>1, <2>3, <2>4
<1>7. CASE i % 3 = 2
  <2>1. PICK r \in Records : file[i - 1] = Half(r, 1) /\ file[i] = Half(r, 2)
    BY <1>5, <1>7
  <2>2. file[i].half = 2 /\ file[i].record = r
    BY <2>1, TokenFacts
  <2>3. EndsLine(i)
    BY <1>2, <1>3, <1>4, <1>5, <1>7 DEF EndsLine
  <2> QED
    BY <1>3, <1>7, <2>1, <2>2, <2>3
<1>8. CASE i % 3 = 0
  BY <1>5, <1>8, TokenFacts
<1> QED
  BY <1>3, <1>6, <1>7, <1>8

(* A ledger that no write has spoiled is read without an error, unless a   *)
(* long record is being written right then (append_jsonl, read_jsonl).     *)
THEOREM ReadableUnlessSpoiled == Spec => []ReadsFailOnlyIfSpoiled
<1>1. IInv => ReadsFailOnlyIfSpoiled
  BY WholeParses DEF IInv, Clean, ReadsFailOnlyIfSpoiled
<1> QED
  BY <1>1, Inductive, PTL

(* An append that returned is in an unspoiled ledger, as often as it was   *)
(* made, with the lock and without (append_jsonl).                         *)
THEOREM AcknowledgedStay == Spec => []AcknowledgedAreRead
<1>1. ASSUME IInv, ~spoiled, NEW r \in Records PROVE acknowledged[r] =< Count(r)
  <2>1. acknowledged[r] \in Nat /\ acknowledged[r] + Cardinality(Counting(r)) =< Count(r)
    BY <1>1 DEF IInv, Clean, Counted
  <2>2. IsFiniteSet(Counting(r)) /\ Cardinality(Counting(r)) \in Nat
    BY WritersAssumption, FS_Subset, FS_CardinalityType DEF Counting
  <2>3. Count(r) \in Nat
    BY <1>1, CountType DEF IInv
  <2> QED
    BY <2>1, <2>2, <2>3
<1>2. IInv => AcknowledgedAreRead
  BY <1>1 DEF AcknowledgedAreRead
<1> QED
  BY <1>2, Inductive, PTL

-----------------------------------------------------------------------------
(* A set of natural numbers has a least element: induction, without the    *)
(* predicate the library's theorems are parameterised by.                  *)
Less == {pair \in Nat \X Nat : pair[1] < pair[2]}

LEMMA LeastElement ==
    ASSUME NEW T, T \subseteq Nat, T # {}
    PROVE  \E m \in T : \A n \in T : m =< n
<1>1. IsWellFoundedOn(Less, Nat)
  BY NatLessThanWellFounded DEF OpToRel, Less
<1>2. PICK m \in T : \A n \in T : <<n, m>> \notin Less
  BY <1>1, WFMin
<1>3. \A n \in T : ~(n < m)
  BY <1>2 DEF Less
<1> QED
  BY <1>2, <1>3

(* What a read of the text f returns.                                      *)
EndsIn(f) == {i \in DOMAIN f : f[i].half = 2}
UpTo(f, i) == {j \in EndsIn(f) : j =< i}
NthIn(f, k) == CHOOSE i \in EndsIn(f) : Cardinality(UpTo(f, i)) = k
RecordsIn(f) == [k \in 1 .. Cardinality(EndsIn(f)) |-> f[NthIn(f, k)].record]

LEMMA ReadsRecordsIn == ReadJsonl = RecordsIn(file)
BY DEF ReadJsonl, RecordsIn, Nth, NthIn, Ends, EndsIn, UpTo

LEMMA EndsFacts ==
    ASSUME NEW f \in Seq(Tokens)
    PROVE  /\ IsFiniteSet(EndsIn(f)) /\ Cardinality(EndsIn(f)) \in Nat
           /\ EndsIn(f) \subseteq 1 .. Len(f) /\ Len(f) \in Nat
           /\ \A i : IsFiniteSet(UpTo(f, i)) /\ Cardinality(UpTo(f, i)) \in Nat
                     /\ Cardinality(UpTo(f, i)) =< Cardinality(EndsIn(f))
<1>1. DOMAIN f = 1 .. Len(f) /\ Len(f) \in Nat
  BY LenProperties
<1>2. EndsIn(f) \subseteq 1 .. Len(f)
  BY <1>1 DEF EndsIn
<1>3. IsFiniteSet(EndsIn(f))
  <2>1. PICK all : all = 1 .. Len(f) /\ IsFiniteSet(all)
    BY <1>1, FS_Interval
  <2> QED
    BY <1>2, <2>1, FS_Subset
<1>4. \A i : UpTo(f, i) \subseteq EndsIn(f)
  BY DEF UpTo
<1>5. ASSUME NEW i
      PROVE  IsFiniteSet(UpTo(f, i)) /\ Cardinality(UpTo(f, i)) \in Nat
             /\ Cardinality(UpTo(f, i)) =< Cardinality(EndsIn(f))
  <2>1. PICK S : S = UpTo(f, i) /\ S \subseteq EndsIn(f)
    BY <1>4
  <2> QED
    BY <1>3, <2>1, FS_Subset, FS_CardinalityType
<1> QED
  BY <1>1, <1>2, <1>3, <1>5, FS_CardinalityType

(* Each of its positions is the k-th, for one k.                           *)
LEMMA NthExists ==
    ASSUME NEW f \in Seq(Tokens), NEW k \in 1 .. Cardinality(EndsIn(f))
    PROVE  /\ NthIn(f, k) \in EndsIn(f)
           /\ Cardinality(UpTo(f, NthIn(f, k))) = k
<1>1. PICK T : T = {m \in 0 .. Len(f) : Cardinality(UpTo(f, m)) >= k}
  OBVIOUS
<1>2. Len(f) \in Nat /\ Cardinality(EndsIn(f)) \in Nat /\ EndsIn(f) \subseteq 1 .. Len(f)
  BY EndsFacts
<1>3. Len(f) \in T
  <2>1. UpTo(f, Len(f)) = EndsIn(f)
    BY <1>2 DEF UpTo
  <2> QED
    BY <1>1, <1>2, <2>1
<1>4. PICK m \in T : \A n \in T : m =< n
  <2>1. T \subseteq Nat
    BY <1>1, <1>2
  <2> QED
    BY <1>3, <2>1, LeastElement
<1>5. m \in 0 .. Len(f) /\ Cardinality(UpTo(f, m)) >= k
  BY <1>1
<1>6. m # 0
  <2>1. UpTo(f, 0) = {}
    BY <1>2 DEF UpTo
  <2>2. Cardinality(UpTo(f, 0)) = 0
    BY <2>1, FS_EmptySet
  <2>3. ~(0 >= k)
    BY <1>2
  <2> QED
    BY <1>5, <2>2, <2>3
<1>7. PICK before, upto : before = UpTo(f, m - 1) /\ upto = UpTo(f, m)
  OBVIOUS
<1>8. /\ IsFiniteSet(before) /\ Cardinality(before) \in Nat
      /\ IsFiniteSet(upto) /\ Cardinality(upto) \in Nat
  BY <1>7, EndsFacts
<1>9. Cardinality(before) < k
  <2>1. m - 1 \in 0 .. Len(f) /\ ~(m =< m - 1)
    <3>1. PICK n \in Nat : n = m
      BY <1>2, <1>5
    <3>2. n - 1 \in 0 .. Len(f) /\ ~(n =< n - 1)
      BY <1>2, <1>5, <1>6, <3>1
    <3> QED
      BY <3>1, <3>2
  <2>2. m - 1 \notin T
    BY <1>4, <2>1
  <2>3. ~(Cardinality(before) >= k)
    BY <1>1, <1>7, <2>1, <2>2
  <2> QED
    BY <1>8, <2>3
<1>10. upto = IF m \in EndsIn(f) THEN before \cup {m} ELSE before
  <2>1. \A j \in 1 .. Len(f) : j =< m <=> j =< m - 1 \/ j = m
    BY <1>2, <1>5
  <2>2. m =< m
    BY <1>5
  <2> QED
    BY <1>2, <1>7, <2>1, <2>2 DEF UpTo
<1>11. m \in EndsIn(f)
  BY <1>5, <1>7, <1>8, <1>9, <1>10
<1>12. Cardinality(upto) =< Cardinality(before) + 1
  <2>1. Cardinality(before \cup {m}) = IF m \in before THEN Cardinality(before) ELSE Cardinality(before) + 1
    BY <1>8, FS_AddElement
  <2> QED
    BY <1>8, <1>10, <1>11, <2>1
<1>13. Cardinality(UpTo(f, m)) = k
  BY <1>2, <1>5, <1>7, <1>8, <1>9, <1>12
<1> QED
  BY <1>11, <1>13 DEF NthIn

(* What is added at the end of the text leaves the records before it.      *)
LEMMA RecordsGrow ==
    ASSUME NEW f \in Seq(Tokens), NEW s \in Seq(Tokens)
    PROVE  /\ Cardinality(EndsIn(f)) =< Cardinality(EndsIn(f \o s))
           /\ \A k \in 1 .. Cardinality(EndsIn(f)) : RecordsIn(f \o s)[k] = RecordsIn(f)[k]
<1>1. PICK g : g = f \o s
  OBVIOUS
<1>2. /\ g \in Seq(Tokens) /\ Len(f) \in Nat /\ Len(s) \in Nat /\ Len(g) = Len(f) + Len(s)
      /\ \A i \in 1 .. Len(f) : g[i] = f[i]
  BY <1>1, ConcatProperties, LenProperties
<1>3. /\ DOMAIN f = 1 .. Len(f) /\ DOMAIN g = 1 .. Len(g)
      /\ 1 .. Len(f) \subseteq 1 .. Len(g)
  BY <1>2, LenProperties
<1>4. /\ EndsIn(f) \subseteq EndsIn(g)
      /\ \A i \in EndsIn(g) : i \in 1 .. Len(f) => i \in EndsIn(f)
  BY <1>2, <1>3 DEF EndsIn
<1>5. /\ EndsIn(f) \subseteq 1 .. Len(f) /\ EndsIn(g) \subseteq 1 .. Len(g)
      /\ IsFiniteSet(EndsIn(f)) /\ Cardinality(EndsIn(f)) \in Nat
      /\ IsFiniteSet(EndsIn(g)) /\ Cardinality(EndsIn(g)) \in Nat
  BY <1>2, EndsFacts
<1>6. Cardinality(EndsIn(f)) =< Cardinality(EndsIn(g))
  BY <1>4, <1>5, FS_Subset
<1>7. \A i \in 1 .. Len(f) : UpTo(g, i) = UpTo(f, i)
  <2> SUFFICES ASSUME NEW i \in 1 .. Len(f), NEW j \in EndsIn(g), j =< i
               PROVE  j \in EndsIn(f)
    BY <1>4 DEF UpTo
  <2>1. j \in 1 .. Len(f)
    BY <1>2, <1>5
  <2> QED
    BY <1>4, <2>1
<1>8. ASSUME NEW i \in EndsIn(g), i \notin EndsIn(f)
      PROVE  Cardinality(UpTo(g, i)) > Cardinality(EndsIn(f))
  <2>1. i \in 1 .. Len(g) /\ i \notin 1 .. Len(f)
    BY <1>4, <1>5, <1>8
  <2>2. i \in Nat /\ i > Len(f)
    BY <1>2, <2>1
  <2>3. EndsIn(f) \cup {i} \subseteq UpTo(g, i)
    <3>1. \A j \in EndsIn(f) : j =< i
      BY <1>2, <1>5, <2>2
    <3>2. i =< i
      BY <2>2
    <3> QED
      BY <1>4, <1>8, <3>1, <3>2 DEF UpTo
  <2>4. PICK more, upto : more = EndsIn(f) \cup {i} /\ upto = UpTo(g, i)
    OBVIOUS
  <2>5. IsFiniteSet(upto) /\ Cardinality(upto) \in Nat
    BY <1>2, <2>4, EndsFacts
  <2>6. Cardinality(more) = Cardinality(EndsIn(f)) + 1
    BY <1>5, <1>8, <2>4, FS_AddElement
  <2>7. Cardinality(more) =< Cardinality(upto)
    BY <2>3, <2>4, <2>5, FS_Subset
  <2> QED
    BY <1>5, <2>4, <2>5, <2>6, <2>7
<1>9. ASSUME NEW k \in 1 .. Cardinality(EndsIn(f))
      PROVE  RecordsIn(g)[k] = RecordsIn(f)[k]
  <2>1. \A i \in EndsIn(f) : UpTo(g, i) = UpTo(f, i)
    BY <1>5, <1>7
  <2>2. \A i : /\ i \in EndsIn(g) /\ Cardinality(UpTo(g, i)) = k
               <=> i \in EndsIn(f) /\ Cardinality(UpTo(f, i)) = k
    <3>1. \A i \in EndsIn(g) : i \notin EndsIn(f) => Cardinality(UpTo(g, i)) # k
      BY <1>5, <1>8, <2>1
    <3> QED
      BY <1>4, <2>1, <3>1
  <2>3. NthIn(g, k) = NthIn(f, k)
    BY <2>2 DEF NthIn
  <2>4. NthIn(f, k) \in EndsIn(f)
    BY NthExists
  <2>5. g[NthIn(g, k)] = f[NthIn(f, k)]
    BY <1>2, <1>5, <2>3, <2>4
  <2>6. k \in 1 .. Cardinality(EndsIn(g))
    BY <1>5, <1>6
  <2> QED
    BY <2>5, <2>6 DEF RecordsIn
<1> QED
  BY <1>1, <1>6, <1>9

(* Half a record, or the end of one, is a half of a record.                *)
LEMMA RecordsType ==
    ASSUME NEW f \in Seq(Tokens)
    PROVE  RecordsIn(f) \in Seq(Records)
<1>1. PICK n \in Nat : n = Cardinality(EndsIn(f))
  BY EndsFacts
<1>2. \A k \in 1 .. n : f[NthIn(f, k)].record \in Records
  <2> SUFFICES ASSUME NEW k \in 1 .. n PROVE f[NthIn(f, k)].record \in Records
    OBVIOUS
  <2>1. PICK i \in 1 .. Len(f) : i = NthIn(f, k) /\ f[i].half = 2
    BY <1>1, NthExists, EndsFacts DEF EndsIn
  <2>2. f[i] \in Tokens
    BY ElementOfSeq
  <2> QED
    BY <2>1, <2>2, TokenFacts DEF Tokens
<1>3. RecordsIn(f) \in [1 .. n -> Records]
  BY <1>1, <1>2 DEF RecordsIn
<1> QED
  BY <1>3, SeqDef

-----------------------------------------------------------------------------
(* What was read is still the beginning of what would be.                  *)
StillRead ==
    \E n \in 0 .. Cardinality(EndsIn(file)) : lastRead = [k \in 1 .. n |-> RecordsIn(file)[k]]

LEMMA TextGrows ==
    ASSUME IInv, [Next]_vars
    PROVE  \E s \in Seq(Tokens) : file' = file \o s
<1>1. file \in Seq(Tokens) /\ file = file \o <<>> /\ <<>> \in Seq(Tokens)
  BY ConcatEmptySeq, EmptySeq DEF IInv
<1>2. ASSUME NEW w \in Writers, NEW n \in 0 .. Len(writer[w].rest), Put(w, n), writer[w].rest \in Seq(Tokens)
      PROVE  \E s \in Seq(Tokens) : file' = file \o s
  <2>1. SubSeq(writer[w].rest, 1, n) \in Seq(Tokens)
    BY <1>2, PieceFacts
  <2> QED
    BY <1>2, <2>1 DEF Put
<1>3. ASSUME NEW w \in Writers, writer[w].phase \in {"writing", "closing"}
      PROVE  writer[w].rest \in Seq(Tokens) /\ Len(writer[w].rest) \in Nat
  <2>1. writer[w] \in States /\ writer[w] # Idle
    BY <1>3 DEF IInv, Idle
  <2> QED
    BY <2>1, LenProperties DEF States
<1>4. ASSUME NEW w \in Writers, Write(w) PROVE \E s \in Seq(Tokens) : file' = file \o s
  <2>1. PICK n \in 1 .. Len(writer[w].rest) : Put(w, n)
    BY <1>4 DEF Write
  <2>2. writer[w].rest \in Seq(Tokens) /\ n \in 0 .. Len(writer[w].rest)
    BY <1>3, <1>4 DEF Write
  <2> QED
    BY <1>2, <2>1, <2>2
<1>5. ASSUME NEW w \in Writers, WriteFails(w) PROVE \E s \in Seq(Tokens) : file' = file \o s
  <2>1. PICK n \in 0 .. Len(writer[w].rest) - 1 : Put(w, n)
    BY <1>5 DEF WriteFails
  <2>2. writer[w].rest \in Seq(Tokens) /\ n \in 0 .. Len(writer[w].rest)
    BY <1>3, <1>5 DEF WriteFails
  <2> QED
    BY <1>2, <2>1, <2>2
<1>6. ASSUME NEW w \in Writers, Close(w) PROVE \E s \in Seq(Tokens) : file' = file \o s
  <2>1. /\ writer[w].rest \in Seq(Tokens) /\ Len(writer[w].rest) \in 0 .. Len(writer[w].rest)
        /\ Put(w, Len(writer[w].rest)) \/ file' = file
    BY <1>3, <1>6 DEF Close
  <2> QED
    BY <1>1, <1>2, <2>1
<1>7. CASE file' = file
  BY <1>1, <1>7
<1> QED
  BY <1>4, <1>5, <1>6, <1>7 DEF Next, vars, Open, Acquire, Proceed, Return, Crash, Read

LEMMA StillReadStep ==
    ASSUME IInv, StillRead, [Next]_vars
    PROVE  StillRead' /\ [Log!Next]_lastRead
<1>1. PICK n \in 0 .. Cardinality(EndsIn(file)) : lastRead = [k \in 1 .. n |-> RecordsIn(file)[k]]
  BY DEF StillRead
<1>2. PICK s \in Seq(Tokens) : file' = file \o s
  BY TextGrows
<1>3. file \in Seq(Tokens) /\ file' \in Seq(Tokens)
  BY <1>2, ConcatProperties DEF IInv
<1>4. /\ Cardinality(EndsIn(file)) \in Nat /\ Cardinality(EndsIn(file')) \in Nat
      /\ Cardinality(EndsIn(file)) =< Cardinality(EndsIn(file'))
      /\ \A k \in 1 .. Cardinality(EndsIn(file)) : RecordsIn(file')[k] = RecordsIn(file)[k]
  BY <1>2, <1>3, EndsFacts, RecordsGrow
<1>5. CASE lastRead' = lastRead
  <2>1. n \in 0 .. Cardinality(EndsIn(file'))
    BY <1>4
  <2>2. lastRead = [k \in 1 .. n |-> RecordsIn(file')[k]]
    BY <1>1, <1>4
  <2>3. EndsIn(file)' = EndsIn(file') /\ RecordsIn(file)' = RecordsIn(file')
    BY DEF EndsIn, RecordsIn, NthIn, UpTo
  <2>4. StillRead'
    BY <1>5, <2>1, <2>2, <2>3 DEF StillRead
  <2> QED
    BY <1>5, <2>4
<1>6. CASE Read
  <2>1. file' = file /\ lastRead' = RecordsIn(file)
    BY <1>6, ReadsRecordsIn DEF Read
  <2>2. PICK m \in Nat : m = Cardinality(EndsIn(file))
    BY <1>4
  <2>3. RecordsIn(file) = [k \in 1 .. m |-> RecordsIn(file)[k]] /\ m \in 0 .. m
    BY <2>2 DEF RecordsIn
  <2>4. EndsIn(file)' = EndsIn(file) /\ RecordsIn(file)' = RecordsIn(file)
    BY <2>1 DEF EndsIn, RecordsIn, NthIn, UpTo
  <2>5. StillRead'
    BY <2>1, <2>2, <2>3, <2>4 DEF StillRead
  <2>6. Log!Extends(lastRead', lastRead)
    <3>1. PICK longer, shorter : longer = lastRead' /\ shorter = lastRead
      OBVIOUS
    <3>2. longer \in Seq(Records) /\ Len(longer) = m
      <4>1. longer \in Seq(Records)
        BY <1>3, <2>1, <3>1, RecordsType
      <4>2. DOMAIN longer = 1 .. m
        BY <2>1, <2>3, <3>1
      <4> QED
        BY <2>2, <4>1, <4>2, LenProperties
    <3>3. n \in 0 .. m /\ \A k \in 1 .. n : k \in 1 .. m /\ longer[k] \in Records
      BY <2>2, <3>2, ElementOfSeq
    <3>4. shorter = [k \in 1 .. n |-> longer[k]]
      BY <1>1, <2>1, <3>1
    <3>5. shorter \in Seq(Records) /\ Len(shorter) = n
      <4>1. shorter \in [1 .. n -> Records] /\ n \in Nat
        BY <3>3, <3>4
      <4>2. shorter \in Seq(Records) /\ DOMAIN shorter = 1 .. n
        BY <4>1, SeqDef
      <4> QED
        BY <4>1, <4>2, LenProperties
    <3>6. SubSeq(longer, 1, n) = shorter
      <4>1. n \in Nat /\ \A k \in 1 .. n : longer[k] \in Records
        BY <3>3
      <4>2. /\ SubSeq(longer, 1, n) \in Seq(Records) /\ Len(SubSeq(longer, 1, n)) = n
            /\ \A k \in 1 .. n : SubSeq(longer, 1, n)[k] = longer[k]
        BY <4>1, SubSeqProperties
      <4> QED
        BY <3>4, <3>5, <4>2, SeqEqual
    <3> QED
      BY <2>2, <3>1, <3>2, <3>3, <3>5, <3>6 DEF Log!Extends
  <2> QED
    BY <2>5, <2>6 DEF Log!Next
<1> QED
  BY <1>5, <1>6 DEF Next, vars, Open, Acquire, Proceed, Write, Return, WriteFails, Close, Crash

(* A read that succeeds returns what every earlier one returned and then   *)
(* more, whatever was spoiled and whoever failed or died: the ledger is    *)
(* the append-only log the other modules take it to be (append_jsonl,      *)
(* read_jsonl).                                                            *)
THEOREM LedgerIsAppendOnly == Spec => ReadsAreAppendOnly
<1>1. Init => StillRead /\ Log!Init
  <2> SUFFICES ASSUME Init PROVE StillRead /\ Log!Init
    OBVIOUS
  <2>1. file = <<>> /\ lastRead = <<>> /\ file \in Seq(Tokens)
    BY EmptySeq DEF Init
  <2>2. Cardinality(EndsIn(file)) \in Nat
    BY <2>1, EndsFacts
  <2>3. lastRead = [k \in 1 .. 0 |-> RecordsIn(file)[k]]
    BY <2>1
  <2>4. StillRead
    BY <2>2, <2>3 DEF StillRead
  <2> QED
    BY <2>1, <2>4 DEF Log!Init
<1>2. IInv /\ StillRead /\ [Next]_vars => StillRead' /\ [Log!Next]_lastRead
  BY StillReadStep
<1> QED
  BY <1>1, <1>2, Inductive, PTL DEF Spec, ReadsAreAppendOnly, Log!Spec

-----------------------------------------------------------------------------
(* Types.  No more appends have returned or are under way than were begun. *)
Active(r) == {w \in Writers : writer[w].phase # "idle" /\ writer[w].record = r}

Bounded == appends \in 0 .. MaxAppends /\ \A r \in Records : acknowledged[r] + Cardinality(Active(r)) =< appends

LEMMA ActiveFinite ==
    ASSUME NEW r
    PROVE  IsFiniteSet(Active(r)) /\ Cardinality(Active(r)) \in Nat
<1>1. Active(r) \subseteq Writers
  BY DEF Active
<1> QED
  BY <1>1, WritersAssumption, FS_Subset, FS_CardinalityType

(* An append goes on, fails or is given up.                                *)
LEMMA FewerActive ==
    ASSUME IInv, Bounded, \A r \in Records : Active(r)' \subseteq Active(r),
           acknowledged' = acknowledged, appends' = appends
    PROVE  Bounded'
<1> SUFFICES ASSUME NEW r \in Records PROVE acknowledged[r] + Cardinality(Active(r)') =< appends
  BY DEF Bounded
<1>1. PICK A, B : A = Active(r) /\ B = Active(r)'
  OBVIOUS
<1>2. IsFiniteSet(A) /\ Cardinality(A) \in Nat /\ B \subseteq A
  BY <1>1, ActiveFinite
<1>3. Cardinality(B) \in Nat /\ Cardinality(B) =< Cardinality(A)
  BY <1>2, FS_Subset, FS_CardinalityType
<1>4. acknowledged[r] \in Nat /\ appends \in Nat /\ acknowledged[r] + Cardinality(A) =< appends
  BY <1>1, BoundAssumption DEF IInv, Bounded
<1> QED
  BY <1>1, <1>2, <1>3, <1>4

LEMMA OpenBounded ==
    ASSUME IInv, Bounded, NEW w \in Writers, NEW s \in Records, Open(w, s)
    PROVE  Bounded'
<1>1. /\ appends' = appends + 1 /\ appends < MaxAppends /\ acknowledged' = acknowledged
      /\ \A v \in Writers : v # w => writer'[v] = writer[v]
  BY DEF Open, IInv
<1>2. appends \in Nat /\ appends' \in 0 .. MaxAppends
  BY <1>1, BoundAssumption DEF Bounded
<1> SUFFICES ASSUME NEW r \in Records PROVE acknowledged[r] + Cardinality(Active(r)') =< appends + 1
  BY <1>1, <1>2 DEF Bounded
<1>3. PICK A, B : A = Active(r) /\ B = Active(r)'
  OBVIOUS
<1>4. IsFiniteSet(A) /\ Cardinality(A) \in Nat /\ B \subseteq A \cup {w}
  <2>1. IsFiniteSet(A) /\ Cardinality(A) \in Nat
    BY <1>3, ActiveFinite
  <2>2. B \subseteq A \cup {w}
    BY <1>1, <1>3 DEF Active
  <2> QED
    BY <2>1, <2>2
<1>5. IsFiniteSet(A \cup {w}) /\ Cardinality(A \cup {w}) =< Cardinality(A) + 1 /\ Cardinality(A \cup {w}) \in Nat
  <2>1. Cardinality(A \cup {w}) = IF w \in A THEN Cardinality(A) ELSE Cardinality(A) + 1
    BY <1>4, FS_AddElement
  <2> QED
    BY <1>4, <2>1, FS_AddElement
<1>6. Cardinality(B) \in Nat /\ Cardinality(B) =< Cardinality(A \cup {w})
  BY <1>4, <1>5, FS_Subset, FS_CardinalityType
<1>7. acknowledged[r] \in Nat /\ acknowledged[r] + Cardinality(A) =< appends
  BY <1>3 DEF IInv, Bounded
<1> QED
  BY <1>2, <1>3, <1>4, <1>5, <1>6, <1>7

LEMMA ReturnBounded ==
    ASSUME IInv, Bounded, NEW w \in Writers, Return(w)
    PROVE  Bounded'
<1>1. PICK s : s = writer[w].record
  OBVIOUS
<1>2. /\ appends' = appends /\ writer'[w] = Idle /\ w \in Active(s)
      /\ \A v \in Writers : v # w => writer'[v] = writer[v]
      /\ acknowledged' = [acknowledged EXCEPT ![s] = @ + 1]
  BY <1>1 DEF Return, IInv, Active
<1> SUFFICES ASSUME NEW r \in Records PROVE acknowledged'[r] + Cardinality(Active(r)') =< appends
  BY <1>2 DEF Bounded
<1>3. PICK A, B : A = Active(r) /\ B = Active(r)'
  OBVIOUS
<1>4. IsFiniteSet(A) /\ Cardinality(A) \in Nat /\ B \subseteq A \ {w} /\ (r = s => w \in A)
  <2>1. IsFiniteSet(A) /\ Cardinality(A) \in Nat
    BY <1>3, ActiveFinite
  <2>2. B \subseteq A \ {w}
    BY <1>2, <1>3 DEF Active, Idle
  <2>3. r = s => w \in A
    BY <1>2, <1>3
  <2> QED
    BY <2>1, <2>2, <2>3
<1>5. /\ acknowledged[r] \in Nat /\ appends \in Nat /\ acknowledged[r] + Cardinality(A) =< appends
      /\ acknowledged'[r] = IF r = s THEN acknowledged[r] + 1 ELSE acknowledged[r]
  BY <1>2, <1>3, BoundAssumption DEF IInv, Bounded
<1>6. /\ Cardinality(B) \in Nat
      /\ Cardinality(B) =< IF r = s THEN Cardinality(A) - 1 ELSE Cardinality(A)
  <2>1. CASE r = s
    <3>1. PICK C : C = A \ {w} /\ IsFiniteSet(C) /\ Cardinality(C) = Cardinality(A) - 1
      BY <1>4, <2>1, FS_RemoveElement
    <3> QED
      BY <1>4, <2>1, <3>1, FS_Subset, FS_CardinalityType
  <2>2. CASE r # s
    <3>1. B \subseteq A
      BY <1>4
    <3> QED
      BY <1>4, <2>2, <3>1, FS_Subset, FS_CardinalityType
  <2> QED
    BY <2>1, <2>2
<1> QED
  BY <1>3, <1>4, <1>5, <1>6

(* The append of w keeps its record, or ends.                              *)
LEMMA KeepsRecord ==
    ASSUME IInv, NEW w \in Writers, Acquire(w) \/ Write(w) \/ WriteFails(w) \/ Close(w), NEW r
    PROVE  Active(r)' \subseteq Active(r)
<1>1. ASSUME NEW x, writer' = [writer EXCEPT ![w] = x], writer[w].phase # "idle",
             x = Idle \/ x.record = writer[w].record
      PROVE  Active(r)' \subseteq Active(r)
  <2>1. writer'[w] = x /\ \A v \in Writers : v # w => writer'[v] = writer[v]
    BY <1>1 DEF IInv
  <2> QED
    BY <1>1, <2>1 DEF Active, Idle
<1>3. CASE Close(w)
  BY <1>1, <1>3 DEF Close
<1>4. ASSUME writer[w].phase # "idle",
             (\E new : Become(w, new)) \/ (\E left, new : Leaves(w, left, new))
      PROVE  Active(r)' \subseteq Active(r)
  <2>1. PICK y \in [phase : {"opened", "writing", "closing", "written"}, record : Records, rest : Seq(Tokens)] :
            y = writer[w]
    BY <1>4 DEF IInv, States, Idle
  <2>2. PICK x : writer' = [writer EXCEPT ![w] = x] /\ x.record = y.record
    <3>1. ASSUME NEW new, Become(w, new)
          PROVE  \E x : writer' = [writer EXCEPT ![w] = x] /\ x.record = y.record
      <4>1. writer' = [writer EXCEPT ![w] = [y EXCEPT !.phase = new]]
        BY <2>1, <3>1 DEF IInv, Become
      <4>2. [y EXCEPT !.phase = new].record = y.record
        OBVIOUS
      <4> QED
        BY <4>1, <4>2
    <3>2. ASSUME NEW left, NEW new, Leaves(w, left, new)
          PROVE  \E x : writer' = [writer EXCEPT ![w] = x] /\ x.record = y.record
      <4>1. writer' = [writer EXCEPT ![w] = [y EXCEPT !.rest = left, !.phase = new]]
        BY <2>1, <3>2 DEF IInv, Leaves
      <4>2. [y EXCEPT !.rest = left, !.phase = new].record = y.record
        OBVIOUS
      <4> QED
        BY <4>1, <4>2
    <3> QED
      BY <1>4, <3>1, <3>2
  <2> QED
    BY <1>1, <1>4, <2>1, <2>2
<1>5. CASE Acquire(w)
  BY <1>4, <1>5 DEF Acquire
<1>6. CASE Write(w)
  <2>1. \E left, new : Leaves(w, left, new)
    BY <1>6 DEF Write, Leaves
  <2> QED
    BY <1>4, <1>6, <2>1 DEF Write
<1>7. CASE WriteFails(w)
  <2>1. \E left, new : Leaves(w, left, new)
    BY <1>7 DEF WriteFails, Leaves
  <2> QED
    BY <1>4, <1>7, <2>1 DEF WriteFails
<1> QED
  BY <1>3, <1>5, <1>6, <1>7

(* The text is made of halves of records and breaks, what is read of it is *)
(* records, and no record is acknowledged oftener than it was appended.    *)
THEOREM TypeCorrect == Spec => []TypeOK
<1> DEFINE Types == TypeOK /\ Bounded
<1>1. Init => Types
  <2> SUFFICES ASSUME Init PROVE TypeOK /\ Bounded
    OBVIOUS
  <2>1. TypeOK
    <3>1. <<>> \in Seq(Tokens) /\ <<>> \in Seq(Records)
      BY EmptySeq
    <3>2. acknowledged \in [Records -> 0 .. MaxAppends] /\ appends \in 0 .. MaxAppends /\ faults \in 0 .. MaxFaults
      BY BoundAssumption DEF Init
    <3> QED
      BY <3>1, <3>2 DEF Init, TypeOK
  <2>2. \A r \in Records : Active(r) = {}
    BY DEF Init, Active, Idle
  <2>3. Bounded
    <3>1. \A r \in Records : acknowledged[r] = 0 /\ Cardinality(Active(r)) = 0
      BY <2>2, FS_EmptySet DEF Init
    <3> QED
      BY <3>1, BoundAssumption DEF Init, Bounded
  <2> QED
    BY <2>1, <2>3
<1>2. Types /\ IInv /\ IInv' /\ [Next]_vars => Types'
  <2> SUFFICES ASSUME TypeOK, Bounded, IInv, IInv', [Next]_vars PROVE TypeOK' /\ Bounded'
    OBVIOUS
  <2>1. Bounded'
    <3>1. ASSUME NEW w \in Writers, Acquire(w) \/ Write(w) \/ WriteFails(w) \/ Close(w)
          PROVE  Bounded'
      <4>1. acknowledged' = acknowledged /\ appends' = appends
        BY <3>1 DEF Acquire, Write, WriteFails, Close
      <4> QED
        BY <3>1, <4>1, KeepsRecord, FewerActive
    <3>2. CASE Crash
      <4>1. \A r \in Records : Active(r)' \subseteq Active(r)
        BY <3>2 DEF Crash, Active, Idle
      <4> QED
        BY <3>2, <4>1, FewerActive DEF Crash
    <3>3. CASE UNCHANGED <<writer, acknowledged, appends>>
      BY <3>3 DEF Bounded, Active
    <3> QED
      BY <3>1, <3>2, <3>3, OpenBounded, ReturnBounded DEF Next, Proceed, Read, vars
  <2>2. file' \in Seq(Tokens) /\ writer' \in [Writers -> States]
    BY DEF IInv
  <2>3. acknowledged' \in [Records -> 0 .. MaxAppends] /\ appends' \in 0 .. MaxAppends
    <3>1. acknowledged' \in [Records -> Nat] /\ appends' \in 0 .. MaxAppends
      BY <2>1 DEF IInv, Bounded
    <3>2. ASSUME NEW r \in Records PROVE acknowledged'[r] =< MaxAppends
      <4>1. PICK B : B = Active(r)' /\ Cardinality(B) \in Nat
        <5>1. Active(r)' \subseteq Writers
          BY DEF Active
        <5> QED
          BY <5>1, WritersAssumption, FS_Subset, FS_CardinalityType
      <4>2. acknowledged'[r] + Cardinality(B) =< appends'
        BY <2>1, <4>1 DEF Bounded
      <4>3. acknowledged'[r] \in Nat
        BY <3>1
      <4> QED
        BY <3>1, <4>1, <4>2, <4>3, BoundAssumption
    <3>3. \A r \in Records : acknowledged'[r] \in 0 .. MaxAppends
      BY <3>1, <3>2, BoundAssumption
    <3> QED
      BY <3>1, <3>3
  <2>4. lastRead' \in Seq(Records)
    <3>1. file \in Seq(Tokens) /\ lastRead \in Seq(Records)
      BY DEF TypeOK
    <3>2. lastRead' = lastRead \/ lastRead' = RecordsIn(file)
      BY ReadsRecordsIn DEF Next, vars, Open, Acquire, Proceed, Write, Return, WriteFails, Close, Crash, Read
    <3> QED
      BY <3>1, <3>2, RecordsType
  <2>5. locking' \in BOOLEAN /\ lock' \in Writers \cup {None} /\ spoiled' \in BOOLEAN /\ faults' \in 0 .. MaxFaults
    <3>1. locking \in BOOLEAN /\ lock \in Writers \cup {None} /\ spoiled \in BOOLEAN /\ faults \in 0 .. MaxFaults
      BY DEF TypeOK
    <3>2. locking' = locking
      BY DEF Next, vars, Open, Acquire, Proceed, Write, Return, WriteFails, Close, Crash, Read
    <3>3. lock' \in Writers \cup {None}
      BY <3>1 DEF Next, vars, Open, Acquire, Proceed, Write, Return, WriteFails, Close, Crash, Read, Release
    <3>4. spoiled' \in BOOLEAN
      BY <3>1 DEF Next, vars, Open, Acquire, Proceed, Write, Return, WriteFails, Close, Crash, Read
    <3>5. faults' = faults \/ (faults < MaxFaults /\ faults' = faults + 1)
      BY DEF Next, vars, Open, Acquire, Proceed, Write, Return, WriteFails, Close, Crash, Read
    <3> QED
      BY <3>1, <3>2, <3>3, <3>4, <3>5, BoundAssumption
  <2> QED
    BY <2>1, <2>2, <2>3, <2>4, <2>5 DEF TypeOK, States
<1> QED
  BY <1>1, <1>2, Inductive, PTL DEF Spec
=============================================================================
