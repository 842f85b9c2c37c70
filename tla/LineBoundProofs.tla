-------------------------- MODULE LineBoundProofs --------------------------
(***************************************************************************)
(* Proofs about LineBound, for every limit, size of the bufio.Reader,      *)
(* output of the child and size of the decoder's reads.                    *)
(***************************************************************************)
EXTENDS LineBound, Integers, SequenceTheorems, WellFoundedInduction, TLAPS

USE LineAssumption DEF LineAssumption

Bytes == {"v", "x", "n"}

-----------------------------------------------------------------------------
(* Lemmas about numbers and sequences.                                     *)

\* A nonempty set of naturals has a least element ...
LEMMA Least ==
  ASSUME NEW T \in SUBSET Nat, T # {}
  PROVE  \E m \in T : \A j \in T : m <= j
<1>1. PICK m \in T : \A j \in T : <<j, m>> \notin OpToRel(<, Nat)
  BY WFMin, NatLessThanWellFounded
<1>2. ASSUME NEW j \in T PROVE m <= j
  <2>1. j \in Nat /\ m \in Nat
    OBVIOUS
  <2>2. ~(j < m)
    BY <1>1, <2>1 DEF OpToRel
  <2>3. QED
    BY <2>1, <2>2
<1>3. QED
  BY <1>2

\* ... and a greatest one, if it has a bound.
LEMMA Greatest ==
  ASSUME NEW n \in Nat, NEW T \in SUBSET (0..n), T # {}
  PROVE  \E m \in T : \A j \in T : j <= m
<1> DEFINE Mirror == {i \in 0..n : n - i \in T}
<1>1. Mirror \in SUBSET Nat /\ \A j \in T : n - j \in Mirror
  OBVIOUS
<1> HIDE DEF Mirror
<1>2. PICK r \in Mirror : \A i \in Mirror : r <= i
  BY <1>1, Least
<1>3. r \in 0..n /\ n - r \in T
  BY <1>2 DEF Mirror
<1>4. ASSUME NEW j \in T PROVE j <= n - r
  <2>1. r <= n - j
    BY <1>1, <1>2
  <2>2. QED
    BY <2>1, <1>3
<1>5. QED
  BY <1>3, <1>4

\* The bytes i + 1 to j of a sequence.
LEMMA Slice ==
  ASSUME NEW s \in Seq(Bytes), NEW i \in 0..Len(s), NEW j \in i..Len(s)
  PROVE  /\ SubSeq(s, i + 1, j) \in Seq(Bytes)
         /\ Len(SubSeq(s, i + 1, j)) = j - i
<1>1. i + 1 \in Int /\ j \in Int
  OBVIOUS
<1>2. \A k \in i + 1..j : s[k] \in Bytes
  OBVIOUS
<1>3. /\ SubSeq(s, i + 1, j) \in Seq(Bytes)
      /\ Len(SubSeq(s, i + 1, j)) = IF i + 1 <= j THEN j - (i + 1) + 1 ELSE 0
  BY <1>1, <1>2, SubSeqProperties
<1>4. QED
  BY <1>3

LEMMA Join ==
  ASSUME NEW s \in Seq(Bytes), NEW i \in 0..Len(s), NEW j \in i..Len(s),
         NEW k \in j..Len(s)
  PROVE  SubSeq(s, i + 1, j) \o SubSeq(s, j + 1, k) = SubSeq(s, i + 1, k)
<1>1. /\ i + 1 \in 1..Len(s) + 1 /\ j \in (i + 1) - 1..Len(s) /\ k \in j..Len(s)
  OBVIOUS
<1>2. QED
  BY <1>1, ConcatAdjacentSubSeq

LEMMA Cut ==
  ASSUME NEW s \in Seq(Bytes), NEW i \in 0..Len(s)
  PROVE  SubSeq(s, 1, i) \o SubSeq(s, i + 1, Len(s)) = s
<1>1. 1 \in 1..Len(s) + 1 /\ i \in 1 - 1..Len(s) /\ Len(s) \in i..Len(s)
  OBVIOUS
<1>2. SubSeq(s, 1, i) \o SubSeq(s, i + 1, Len(s)) = SubSeq(s, 1, Len(s))
  BY <1>1, ConcatAdjacentSubSeq
<1>3. QED
  BY <1>2, SubSeqFull

LEMMA Regroup ==
  \A s, t, u \in Seq(Bytes) : (s \o t) \o u = s \o (t \o u)
BY ConcatAssociative

-----------------------------------------------------------------------------
(* The reference: lines of the child's output and the good ones among them. *)

SourceTyped == input \in Seq(Bytes) /\ end \in {"eof", "error"}

NoLineEnd(i, k) == \A j \in i..k : ~IsLineEnd(j)

\* The lines up to byte g are good ones ...
GoodUpTo(g) ==
  /\ g \in 0..Len(input)
  /\ g = 0 \/ IsLineEnd(g)
  /\ \A k \in 1..g : IsLineEnd(k) => GoodLine(k)

\* ... and what follows, if anything does, is a bad one.
Stuck(g) ==
  g < Len(input) =>
    \E k \in g + 1..Len(input) : IsLineEnd(k) /\ ~GoodLine(k) /\ NoLineEnd(g + 1, k - 1)

LEMMA FirstLineEnd ==
  ASSUME SourceTyped, NEW g \in 0..Len(input), g < Len(input)
  PROVE  \E k \in g + 1..Len(input) : IsLineEnd(k) /\ NoLineEnd(g + 1, k - 1)
<1> DEFINE Ends0 == {k \in g + 1..Len(input) : IsLineEnd(k)}
<1>1. Len(input) \in Nat
  BY DEF SourceTyped
<1>2. Ends0 \in SUBSET Nat /\ Len(input) \in Ends0
  BY <1>1 DEF IsLineEnd
<1>3. PICK k \in Ends0 : \A j \in Ends0 : k <= j
  <2> HIDE DEF Ends0
  <2>1. QED
    BY <1>2, Least
<1>4. ASSUME NEW j \in g + 1..k - 1, IsLineEnd(j) PROVE FALSE
  <2>1. j \in Ends0
    BY <1>1, <1>3, <1>4
  <2>2. k <= j
    BY <1>3, <2>1
  <2>3. QED
    BY <1>1, <1>3, <2>2
<1>5. QED
  BY <1>3, <1>4 DEF NoLineEnd

\* A line starts after the newline before it, or with the output.
LEMMA LineFrom ==
  ASSUME SourceTyped, NEW b \in 0..Len(input), b = 0 \/ input[b] = "n",
         NEW k \in b + 1..Len(input), \A j \in b + 1..k - 1 : input[j] # "n"
  PROVE  LineAt(k) = SubSeq(input, b + 1, k)
<1> DEFINE Starts(i) == /\ i = 1 \/ input[i - 1] = "n"
                        /\ \A j \in i..k - 1 : input[j] # "n"
<1>1. Len(input) \in Nat
  BY DEF SourceTyped
<1>2. b + 1 \in 1..k /\ Starts(b + 1)
  BY <1>1
<1>3. ASSUME NEW i \in 1..k, Starts(i) PROVE i = b + 1
  <2>1. CASE i < b + 1
    <3>1. b \in i..k - 1 /\ b # 0
      BY <1>1, <2>1
    <3>2. QED
      BY <1>3, <3>1
  <2>2. CASE i > b + 1
    <3>1. i - 1 \in b + 1..k - 1 /\ i # 1
      BY <1>1, <2>2
    <3>2. QED
      BY <1>3, <3>1
  <2>3. QED
    BY <1>1, <2>1, <2>2
<1>4. LineStart(k) = CHOOSE i \in 1..k : Starts(i)
  BY DEF LineStart
<1>5. LineStart(k) = b + 1
  <2> HIDE DEF Starts
  <2>1. QED
    BY <1>2, <1>3, <1>4
<1>6. QED
  BY <1>5 DEF LineAt

\* There is one place up to which the lines are good and that a bad one, or
\* nothing, follows; that is what GoodBytes says.
LEMMA GoodBytesExists ==
  ASSUME SourceTyped
  PROVE  \E g \in 0..Len(input) : GoodUpTo(g) /\ Stuck(g)
<1> DEFINE Bad == {k \in 1..Len(input) : IsLineEnd(k) /\ ~GoodLine(k)}
<1>1. Len(input) \in Nat
  BY DEF SourceTyped
<1>2. CASE Bad = {}
  <2>1. GoodUpTo(Len(input)) /\ Stuck(Len(input))
    BY <1>1, <1>2 DEF GoodUpTo, Stuck, IsLineEnd
  <2>2. QED
    BY <1>1, <2>1
<1>3. CASE Bad # {}
  <2>1. PICK k \in Bad : \A j \in Bad : k <= j
    <3>1. Bad \in SUBSET Nat
      OBVIOUS
    <3> HIDE DEF Bad
    <3>2. QED
      BY <1>3, <3>1, Least
  <2> DEFINE Before == {i \in 0..k - 1 : i = 0 \/ IsLineEnd(i)}
  <2>2. k \in 1..Len(input) /\ IsLineEnd(k) /\ ~GoodLine(k)
    BY <2>1
  <2>3. PICK g \in Before : \A i \in Before : i <= g
    <3>1. k - 1 \in Nat /\ Before \in SUBSET (0..k - 1) /\ 0 \in Before
      BY <1>1, <2>2
    <3> HIDE DEF Before
    <3>2. QED
      BY <3>1, Greatest
  <2>4. g \in 0..k - 1 /\ (g = 0 \/ IsLineEnd(g))
    BY <2>3
  <2>5. ASSUME NEW i \in 1..g, IsLineEnd(i) PROVE GoodLine(i)
    <3>1. i \in 1..Len(input) /\ i < k
      BY <1>1, <2>2, <2>4
    <3>2. i \notin Bad
      BY <2>1, <2>2, <3>1
    <3>3. QED
      BY <2>5, <3>1, <3>2
  <2>6. NoLineEnd(g + 1, k - 1)
    <3>1. SUFFICES ASSUME NEW j \in g + 1..k - 1, IsLineEnd(j) PROVE FALSE
      BY DEF NoLineEnd
    <3>2. j \in Before
      BY <1>1, <2>2, <2>4, <3>1
    <3>3. j <= g
      BY <2>3, <3>2
    <3>4. QED
      BY <1>1, <2>2, <2>4, <3>1, <3>3
  <2>7. g \in 0..Len(input) /\ k \in g + 1..Len(input)
    BY <1>1, <2>2, <2>4
  <2>8. QED
    BY <2>2, <2>4, <2>5, <2>6, <2>7 DEF GoodUpTo, Stuck
<1>4. QED
  BY <1>2, <1>3

LEMMA GoodBytesIs ==
  ASSUME SourceTyped
  PROVE  GoodUpTo(GoodBytes) /\ Stuck(GoodBytes)
<1> DEFINE Is(g) == /\ g = 0 \/ IsLineEnd(g)
                    /\ \A k \in 1..g : IsLineEnd(k) => GoodLine(k)
                    /\ g < Len(input) => \E k \in g + 1..Len(input) :
                         /\ IsLineEnd(k) /\ ~GoodLine(k)
                         /\ \A j \in g + 1..k - 1 : ~IsLineEnd(j)
<1>1. \A g \in 0..Len(input) : Is(g) <=> GoodUpTo(g) /\ Stuck(g)
  BY DEF GoodUpTo, Stuck, NoLineEnd
<1>2. GoodBytes = CHOOSE g \in 0..Len(input) : Is(g)
  BY DEF GoodBytes
<1> HIDE DEF Is
<1>3. GoodBytes \in 0..Len(input) /\ Is(GoodBytes)
  BY <1>1, <1>2, GoodBytesExists
<1>4. QED
  BY <1>1, <1>3

\* No good beginning goes beyond GoodBytes ...
LEMMA GoodBytesGreatest ==
  ASSUME SourceTyped, NEW b \in Nat, GoodUpTo(b)
  PROVE  b <= GoodBytes
<1>1. Len(input) \in Nat /\ b \in 0..Len(input) /\ GoodBytes \in 0..Len(input)
  BY GoodBytesIs DEF SourceTyped, GoodUpTo
<1>2. SUFFICES ASSUME b > GoodBytes PROVE FALSE
  BY <1>1
<1>3. PICK k \in GoodBytes + 1..Len(input) :
        IsLineEnd(k) /\ ~GoodLine(k) /\ NoLineEnd(GoodBytes + 1, k - 1)
  BY <1>1, <1>2, GoodBytesIs DEF Stuck
<1>4. IsLineEnd(b)
  BY <1>1, <1>2 DEF GoodUpTo
<1>5. k <= b
  BY <1>1, <1>2, <1>3, <1>4 DEF NoLineEnd
<1>6. QED
  BY <1>1, <1>3, <1>5 DEF GoodUpTo

\* ... and one that a bad line follows ends there.
LEMMA GoodBytesReached ==
  ASSUME SourceTyped, NEW b \in Nat, GoodUpTo(b), Stuck(b)
  PROVE  b = GoodBytes
<1>1. Len(input) \in Nat /\ b \in 0..Len(input) /\ GoodBytes \in 0..Len(input)
  BY GoodBytesIs DEF SourceTyped, GoodUpTo
<1>2. SUFFICES ASSUME b < GoodBytes PROVE FALSE
  BY <1>1, GoodBytesGreatest
<1>3. PICK k \in b + 1..Len(input) :
        IsLineEnd(k) /\ ~GoodLine(k) /\ NoLineEnd(b + 1, k - 1)
  BY <1>1, <1>2 DEF Stuck
<1>4. IsLineEnd(GoodBytes)
  BY <1>1, <1>2, GoodBytesIs DEF GoodUpTo
<1>5. k <= GoodBytes
  BY <1>1, <1>2, <1>3, <1>4 DEF NoLineEnd
<1>6. QED
  BY <1>1, <1>3, <1>5, GoodBytesIs DEF GoodUpTo

-----------------------------------------------------------------------------
(* The invariant.                                                          *)

TypeOK ==
  /\ SourceTyped
  /\ pos \in 0..Len(input) /\ pc \in {"idle", "slicing", "copying"}
  /\ frame \in Seq(Bytes) /\ pending \in Seq(Bytes) /\ output \in Seq(Bytes)
  /\ eof \in BOOLEAN /\ failed \in BOOLEAN
  /\ result \in {"ok", "limit", "invalid", "error", "eof"}

\* What the decoder has got or is about to get.
Handed == Len(output) + Len(pending)

\* It is the beginning of the output, up to the end of a good line.
HandedInv ==
  /\ GoodUpTo(Handed)
  /\ output \o pending = SubSeq(input, 1, Handed)

\* While a frame is put together, it is what was read since, without an end
\* of line; otherwise everything read has been handed on, unless it failed.
FrameInv ==
  /\ pc = "slicing" =>
       /\ pending = <<>> /\ ~eof
       /\ Handed <= pos /\ frame = SubSeq(input, Handed + 1, pos)
       /\ \A j \in Handed + 1..pos : input[j] # "n"
  /\ pc # "slicing" /\ ~failed => pos = Handed
  /\ HoldsOneFrame

\* A Read ends the stream at a bad line or when nothing is left.
EndInv ==
  /\ eof => pos = Len(input)
  /\ failed => pc = "idle" /\ pending = <<>> /\ Stuck(Handed)
  /\ result # "ok" => failed \/ (eof /\ pc = "idle" /\ pending = <<>>)

LineInv == TypeOK /\ HandedInv /\ FrameInv /\ EndInv

LEMMA HandedIsNat ==
  ASSUME TypeOK
  PROVE  Handed \in Nat /\ Len(output) \in Nat /\ Len(pending) \in Nat /\ Len(input) \in Nat
BY DEF TypeOK, Handed, SourceTyped

\* The child's output is what it is: so are its lines.
LEMMA SourceStays ==
  ASSUME UNCHANGED sourceVars
  PROVE  /\ Len(input)' = Len(input)
         /\ \A k : (IsLineEnd(k)' <=> IsLineEnd(k)) /\ (GoodLine(k)' <=> GoodLine(k))
<1>1. input' = input /\ end' = end
  BY DEF sourceVars
<1>2. ASSUME NEW k PROVE IsLineEnd(k)' <=> IsLineEnd(k)
  BY <1>1 DEF IsLineEnd
<1>3. ASSUME NEW k PROVE LineAt(k)' = LineAt(k)
  BY <1>1 DEF LineAt, LineStart
<1>4. ASSUME NEW k PROVE GoodLine(k)' <=> GoodLine(k)
  BY <1>1, <1>2, <1>3 DEF GoodLine, Valid
<1>5. QED
  BY <1>1, <1>2, <1>4

\* ReadSlice returns up to the first newline, or less, or all that is left.
LEMMA StopFacts ==
  ASSUME SourceTyped, pos \in 0..Len(input)
  PROVE  /\ Stop \in pos..Len(input)
         /\ Ends => Stop = Len(input) /\ \A j \in pos + 1..Len(input) : input[j] # "n"
         /\ ~Ends => Stop > pos
         /\ \A j \in pos + 1..Stop - 1 : input[j] # "n"
<1>1. Len(input) \in Nat
  BY DEF SourceTyped
<1>2. CASE Ends
  <2>1. Stop = Len(input)
    BY <1>2 DEF Stop, Ends
  <2>2. QED
    BY <1>1, <1>2, <2>1 DEF Ends, IsStop
<1>3. CASE ~Ends
  <2> DEFINE Stops == {k \in pos + 1..Len(input) : IsStop(k)}
  <2> DEFINE First(k) == IsStop(k) /\ \A j \in pos + 1..k - 1 : ~IsStop(j)
  <2>1. Stops \in SUBSET Nat /\ Stops # {}
    BY <1>1, <1>3 DEF Ends
  <2>2. PICK m \in Stops : \A j \in Stops : m <= j
    <3> HIDE DEF Stops
    <3>1. QED
      BY <2>1, Least
  <2>3. First(m)
    <3>1. ASSUME NEW j \in pos + 1..m - 1, IsStop(j) PROVE FALSE
      <4>1. j \in Stops
        BY <1>1, <2>2, <3>1
      <4>2. m <= j
        BY <2>2, <4>1
      <4>3. QED
        BY <1>1, <2>2, <4>2
    <3>2. QED
      BY <2>2, <3>1
  <2>4. Stop = CHOOSE k \in pos + 1..Len(input) : First(k)
    BY <1>3 DEF Stop, Ends
  <2>5. Stop \in pos + 1..Len(input) /\ First(Stop)
    <3>1. m \in pos + 1..Len(input)
      BY <2>2
    <3> HIDE DEF First
    <3>2. QED
      BY <2>3, <2>4, <3>1
  <2>6. QED
    BY <1>1, <1>3, <2>5 DEF IsStop
<1>4. QED
  BY <1>2, <1>3

\* What the frame becomes with the next chunk.
LEMMA NextFrame ==
  ASSUME LineInv, pc = "slicing"
  PROVE  /\ Stop \in Handed..Len(input)
         /\ Chunk \in Seq(Bytes) /\ frame \o Chunk \in Seq(Bytes)
         /\ frame \o Chunk = SubSeq(input, Handed + 1, Stop)
         /\ Len(frame \o Chunk) = Len(frame) + Len(Chunk)
         /\ Len(frame \o Chunk) = Stop - Handed
         /\ NoLineEnd(Handed + 1, Stop - 1)
<1>1. Handed \in 0..pos /\ pos \in Handed..Len(input) /\ input \in Seq(Bytes) /\ Len(input) \in Nat
  BY HandedIsNat DEF LineInv, TypeOK, FrameInv, SourceTyped
<1>2. Stop \in pos..Len(input) /\ \A j \in pos + 1..Stop - 1 : input[j] # "n"
  BY StopFacts DEF LineInv, TypeOK
<1>3. frame = SubSeq(input, Handed + 1, pos) /\ \A j \in Handed + 1..pos : input[j] # "n"
  BY DEF LineInv, FrameInv
<1>4. frame \in Seq(Bytes) /\ Len(frame) = pos - Handed
  BY <1>1, <1>3, Slice
<1>5. Chunk \in Seq(Bytes) /\ Len(Chunk) = Stop - pos
  BY <1>1, <1>2, Slice DEF Chunk
<1>6. frame \o Chunk = SubSeq(input, Handed + 1, Stop)
  BY <1>1, <1>2, <1>3, Join DEF Chunk
<1>7. frame \o Chunk \in Seq(Bytes) /\ Len(frame \o Chunk) = Len(frame) + Len(Chunk)
  BY <1>4, <1>5, ConcatProperties
<1>8. NoLineEnd(Handed + 1, Stop - 1)
  <2>1. ASSUME NEW j \in Handed + 1..Stop - 1 PROVE ~IsLineEnd(j)
    <3>1. j \in Handed + 1..pos \/ j \in pos + 1..Stop - 1
      BY <1>1, <1>2
    <3>2. input[j] # "n" /\ j # Len(input)
      BY <1>1, <1>2, <1>3, <3>1
    <3>3. QED
      BY <3>2 DEF IsLineEnd
  <2>2. QED
    BY <2>1 DEF NoLineEnd
<1>9. QED
  BY <1>1, <1>2, <1>4, <1>5, <1>6, <1>7, <1>8

\* The line that comes next starts where the last good one ended.
LEMMA NextLine ==
  ASSUME LineInv, NEW k \in Handed + 1..Len(input), NoLineEnd(Handed + 1, k - 1)
  PROVE  LineAt(k) = SubSeq(input, Handed + 1, k) /\ Len(LineAt(k)) = k - Handed
<1>1. Handed \in Nat /\ Len(input) \in Nat /\ SourceTyped /\ input \in Seq(Bytes)
  BY HandedIsNat DEF LineInv, TypeOK, SourceTyped
<1>2. Handed \in 0..Len(input) /\ k \in Handed..Len(input) /\ Handed # Len(input)
  BY <1>1
<1>3. Handed = 0 \/ input[Handed] = "n"
  BY <1>2 DEF LineInv, HandedInv, GoodUpTo, IsLineEnd
<1>4. \A j \in Handed + 1..k - 1 : input[j] # "n"
  BY DEF NoLineEnd, IsLineEnd
<1>5. LineAt(k) = SubSeq(input, Handed + 1, k)
  BY <1>1, <1>2, <1>3, <1>4, LineFrom
<1>6. QED
  BY <1>1, <1>2, <1>5, Slice

-----------------------------------------------------------------------------
(* The steps.                                                              *)

LEMMA HandedTo ==
  ASSUME UNCHANGED sourceVars, NEW b, Handed' = b
  PROVE  (GoodUpTo(b) => GoodUpTo(Handed)') /\ (Stuck(b) => Stuck(Handed)')
<1>1. ASSUME GoodUpTo(b) PROVE GoodUpTo(Handed)'
  BY <1>1, SourceStays DEF GoodUpTo
<1>2. ASSUME Stuck(b) PROVE Stuck(Handed)'
  BY <1>2, SourceStays DEF Stuck, NoLineEnd
<1>3. QED
  BY <1>1, <1>2

LEMMA NothingHanded ==
  ASSUME LineInv, UNCHANGED <<sourceVars, pending, output>>
  PROVE  /\ SourceTyped' /\ Handed' = Handed /\ HandedInv'
         /\ Stuck(Handed) => Stuck(Handed)'
<1>1. Handed' = Handed
  BY DEF Handed
<1>2. SourceTyped'
  BY DEF LineInv, TypeOK, SourceTyped, sourceVars
<1>3. GoodUpTo(Handed)' /\ (Stuck(Handed) => Stuck(Handed)')
  BY <1>1, HandedTo DEF LineInv, HandedInv
<1>4. (output \o pending = SubSeq(input, 1, Handed))'
  BY <1>1 DEF LineInv, HandedInv, sourceVars
<1>5. QED
  BY <1>1, <1>2, <1>3, <1>4 DEF HandedInv

LEMMA ReadStep ==
  ASSUME LineInv, ReadFailed \/ ReadAtEOF \/ ReadStart
  PROVE  LineInv'
<1>1. /\ SourceTyped' /\ Handed' = Handed /\ HandedInv' /\ (Stuck(Handed) => Stuck(Handed)')
      /\ input' = input
  BY NothingHanded DEF ReadFailed, ReadAtEOF, ReadStart, sourceVars
<1>2. CASE ReadFailed
  BY <1>1, <1>2 DEF LineInv, TypeOK, FrameInv, HoldsOneFrame, EndInv, ReadFailed, Failed
<1>3. CASE ReadAtEOF
  BY <1>1, <1>3 DEF LineInv, TypeOK, FrameInv, HoldsOneFrame, EndInv, ReadAtEOF, Failed
<1>4. CASE ReadStart
  <2>1. TypeOK'
    BY <1>1, <1>4 DEF LineInv, TypeOK, ReadStart
  <2>2. pc' = "slicing" => ~eof /\ pending = <<>> /\ pos = Handed /\ frame' = <<>>
    BY <1>4 DEF LineInv, FrameInv, ReadStart, Failed
  <2>3. SubSeq(input, pos + 1, pos) = <<>> /\ pos \in Nat
    BY SubSeqEmpty DEF LineInv, TypeOK
  <2>4. FrameInv'
    BY <1>1, <1>4, <2>2, <2>3 DEF LineInv, FrameInv, HoldsOneFrame, ReadStart, Failed
  <2>5. EndInv'
    BY <1>1, <1>4 DEF LineInv, EndInv, ReadStart, Failed
  <2>6. QED
    BY <1>1, <2>1, <2>4, <2>5 DEF LineInv
<1>5. QED
  BY <1>2, <1>3, <1>4

\* A frame beyond the limit is the beginning of a line beyond the limit.
LEMMA TooLongStep ==
  ASSUME LineInv, SliceTooLong
  PROVE  LineInv'
<1>1. /\ SourceTyped' /\ Handed' = Handed /\ HandedInv' /\ (Stuck(Handed) => Stuck(Handed)')
      /\ input' = input
  BY NothingHanded DEF SliceTooLong, sourceVars
<1>2. /\ Stop \in Handed..Len(input) /\ Stop - Handed > Limit
      /\ NoLineEnd(Handed + 1, Stop - 1)
      /\ Handed \in Nat /\ Len(input) \in Nat /\ SourceTyped
  BY NextFrame, HandedIsNat DEF SliceTooLong, TooLong, LineInv, TypeOK
<1>3. Handed \in 0..Len(input) /\ Handed < Len(input)
  BY <1>2
<1>4. PICK k \in Handed + 1..Len(input) : IsLineEnd(k) /\ NoLineEnd(Handed + 1, k - 1)
  BY <1>2, <1>3, FirstLineEnd
<1>5. k >= Stop
  BY <1>2, <1>4 DEF NoLineEnd
<1>6. Len(LineAt(k)) = k - Handed
  BY <1>4, NextLine
<1>7. ~GoodLine(k)
  BY <1>2, <1>4, <1>5, <1>6 DEF GoodLine
<1>8. Stuck(Handed)'
  BY <1>1, <1>4, <1>7 DEF Stuck
<1>9. Stop \in 0..Len(input)
  BY <1>2
<1>10. QED
  BY <1>1, <1>8, <1>9
     DEF LineInv, TypeOK, FrameInv, HoldsOneFrame, EndInv, SliceTooLong, Fail

LEMMA MoreStep ==
  ASSUME LineInv, SliceMore
  PROVE  LineInv'
<1>1. /\ SourceTyped' /\ Handed' = Handed /\ HandedInv' /\ input' = input
  BY NothingHanded DEF SliceMore, sourceVars
<1>2. /\ Stop \in Handed..Len(input) /\ frame \o Chunk \in Seq(Bytes)
      /\ frame \o Chunk = SubSeq(input, Handed + 1, Stop)
      /\ Len(frame \o Chunk) = Len(frame) + Len(Chunk)
      /\ NoLineEnd(Handed + 1, Stop - 1)
      /\ Handed \in Nat /\ Len(input) \in Nat
  BY NextFrame, HandedIsNat DEF SliceMore, LineInv
<1>3. Len(frame \o Chunk) <= Limit
  <2>1. Len(frame) \in Nat /\ Len(Chunk) \in Nat
    BY NextFrame DEF SliceMore, LineInv, TypeOK
  <2>2. QED
    BY <1>2, <2>1 DEF SliceMore, TooLong
<1>4. \A j \in Handed + 1..Stop : input[j] # "n"
  BY <1>2 DEF SliceMore, Complete, NoLineEnd, IsLineEnd
<1>5. TypeOK'
  BY <1>1, <1>2 DEF LineInv, TypeOK, SliceMore
<1>6. FrameInv'
  BY <1>1, <1>2, <1>3, <1>4 DEF LineInv, FrameInv, HoldsOneFrame, SliceMore
<1>7. EndInv'
  BY <1>1 DEF LineInv, EndInv, FrameInv, SliceMore
<1>8. QED
  BY <1>1, <1>5, <1>6, <1>7 DEF LineInv

\* What is left before a read error is no complete line.
LEMMA ErrorStep ==
  ASSUME LineInv, SliceError
  PROVE  LineInv'
<1>1. /\ SourceTyped' /\ Handed' = Handed /\ HandedInv' /\ (Stuck(Handed) => Stuck(Handed)')
      /\ input' = input
  BY NothingHanded DEF SliceError, sourceVars
<1>2. /\ Stop \in Handed..Len(input) /\ frame \o Chunk \in Seq(Bytes)
      /\ Len(frame \o Chunk) = Len(frame) + Len(Chunk)
      /\ Len(frame) \in Nat /\ Len(Chunk) \in Nat
      /\ Handed \in Nat /\ Len(input) \in Nat /\ SourceTyped /\ pos \in 0..Len(input)
  BY NextFrame, HandedIsNat DEF SliceError, LineInv, TypeOK
<1>3. \A j \in Handed + 1..Len(input) : input[j] # "n"
  BY <1>2, StopFacts DEF SliceError, LineInv, FrameInv
<1>4. Stuck(Handed)
  <2>1. SUFFICES ASSUME Handed < Len(input)
                 PROVE  \E k \in Handed + 1..Len(input) :
                          IsLineEnd(k) /\ ~GoodLine(k) /\ NoLineEnd(Handed + 1, k - 1)
    BY DEF Stuck
  <2>2. PICK k \in Handed + 1..Len(input) : IsLineEnd(k) /\ NoLineEnd(Handed + 1, k - 1)
    <3>1. Handed \in 0..Len(input)
      BY <1>2
    <3>2. QED
      BY <1>2, <2>1, <3>1, FirstLineEnd
  <2>3. ~GoodLine(k)
    BY <1>3 DEF GoodLine, SliceError
  <2>4. QED
    BY <2>2, <2>3
<1>5. Len(frame \o Chunk) <= Limit
  BY <1>2 DEF SliceError, TooLong
<1>6. Stop \in 0..Len(input)
  BY <1>2
<1>7. QED
  BY <1>1, <1>2, <1>4, <1>5, <1>6
     DEF LineInv, TypeOK, FrameInv, HoldsOneFrame, EndInv, SliceError, Fail

LEMMA NothingStep ==
  ASSUME LineInv, SliceNothing
  PROVE  LineInv'
<1>1. /\ SourceTyped' /\ Handed' = Handed /\ HandedInv' /\ input' = input
  BY NothingHanded DEF SliceNothing, sourceVars
<1>2. /\ Len(frame \o Chunk) = Stop - Handed /\ Len(frame \o Chunk) = 0
      /\ Stop \in Handed..Len(input) /\ Handed \in Nat /\ Len(input) \in Nat
  BY NextFrame, HandedIsNat, EmptySeq DEF SliceNothing, LineInv
<1>3. Stop = Len(input)
  BY StopFacts DEF SliceNothing, LineInv, TypeOK
<1>4. Stop = Handed /\ Stop \in 0..Len(input)
  BY <1>2
<1>5. TypeOK'
  BY <1>1, <1>4 DEF LineInv, TypeOK, SliceNothing
<1>6. FrameInv'
  BY <1>1, <1>4 DEF LineInv, FrameInv, HoldsOneFrame, SliceNothing
<1>7. EndInv'
  BY <1>1, <1>3 DEF LineInv, EndInv, FrameInv, SliceNothing
<1>8. QED
  BY <1>1, <1>5, <1>6, <1>7 DEF LineInv

\* A complete frame is the line after the last good one.
LEMMA LineFacts ==
  ASSUME LineInv, Line
  PROVE  /\ Stop \in Handed + 1..Len(input)
         /\ IsLineEnd(Stop) /\ NoLineEnd(Handed + 1, Stop - 1)
         /\ LineAt(Stop) = frame \o Chunk
         /\ Len(LineAt(Stop)) <= Limit
         /\ input[Stop] = "n" \/ end = "eof"
<1>1. pc = "slicing"
  BY DEF Line
<1>2. /\ Stop \in Handed..Len(input) /\ frame \o Chunk \in Seq(Bytes)
      /\ frame \o Chunk = SubSeq(input, Handed + 1, Stop)
      /\ Len(frame \o Chunk) = Len(frame) + Len(Chunk)
      /\ Len(frame \o Chunk) = Stop - Handed
      /\ Len(frame) \in Nat /\ Len(Chunk) \in Nat
      /\ NoLineEnd(Handed + 1, Stop - 1)
      /\ Handed \in Nat /\ Len(input) \in Nat /\ SourceTyped /\ pos \in 0..Len(input)
      /\ Handed <= pos
  <2>1. Chunk \in Seq(Bytes) /\ frame \in Seq(Bytes)
    BY <1>1, NextFrame DEF LineInv, TypeOK
  <2>2. Len(frame) \in Nat /\ Len(Chunk) \in Nat
    BY <2>1
  <2>3. SourceTyped /\ pos \in 0..Len(input) /\ Handed <= pos
    BY <1>1 DEF LineInv, TypeOK, FrameInv
  <2>4. Handed \in Nat /\ Len(input) \in Nat
    BY HandedIsNat DEF LineInv
  <2>5. QED
    BY <1>1, <2>2, <2>3, <2>4, NextFrame
<1>3. Stop > Handed
  <2>1. CASE Ends
    <3>1. frame \o Chunk # <<>>
      BY <2>1 DEF Line
    <3>2. Len(frame \o Chunk) # 0
      BY <1>2, <3>1, EmptySeq
    <3>3. QED
      BY <1>2, <3>2
  <2>2. CASE ~Ends
    BY <1>2, <2>2, StopFacts
  <2>3. QED
    BY <2>1, <2>2
<1>4. IsLineEnd(Stop) /\ (input[Stop] = "n" \/ end = "eof")
  BY <1>2, StopFacts DEF Line, Complete, IsLineEnd
<1>5. Stop \in Handed + 1..Len(input)
  BY <1>2, <1>3
<1>6. LineAt(Stop) = frame \o Chunk
  BY <1>2, <1>5, NextLine
<1>7. Len(LineAt(Stop)) <= Limit
  BY <1>2, <1>6 DEF Line, TooLong
<1>8. QED
  BY <1>2, <1>4, <1>5, <1>6, <1>7

LEMMA InvalidStep ==
  ASSUME LineInv, SliceInvalid
  PROVE  LineInv'
<1>1. /\ SourceTyped' /\ Handed' = Handed /\ HandedInv' /\ (Stuck(Handed) => Stuck(Handed)')
      /\ input' = input
  BY NothingHanded DEF SliceInvalid, Line, sourceVars
<1>2. /\ Stop \in Handed + 1..Len(input)
      /\ IsLineEnd(Stop) /\ NoLineEnd(Handed + 1, Stop - 1)
      /\ LineAt(Stop) = frame \o Chunk /\ Len(frame \o Chunk) <= Limit
  BY LineFacts DEF SliceInvalid
<1>3. /\ frame \o Chunk \in Seq(Bytes) /\ Handed \in Nat /\ Len(input) \in Nat
      /\ SourceTyped /\ pos \in 0..Len(input)
  BY NextFrame, HandedIsNat DEF SliceInvalid, Line, LineInv, TypeOK
<1>4. Stuck(Handed)
  BY <1>2 DEF Stuck, GoodLine, SliceInvalid
<1>5. Stop \in 0..Len(input) /\ (Ends => Stop = Len(input)) /\ Ends \in BOOLEAN
  BY <1>2, <1>3, StopFacts DEF Ends
<1>6. QED
  BY <1>1, <1>2, <1>3, <1>4, <1>5
     DEF LineInv, TypeOK, FrameInv, HoldsOneFrame, EndInv, SliceInvalid, Line, Fail

LEMMA ValidStep ==
  ASSUME LineInv, SliceValid
  PROVE  LineInv'
<1> DEFINE next == frame \o Chunk
<1>1. /\ Stop \in Handed + 1..Len(input)
      /\ IsLineEnd(Stop) /\ NoLineEnd(Handed + 1, Stop - 1)
      /\ LineAt(Stop) = next /\ Len(next) <= Limit
      /\ input[Stop] = "n" \/ end = "eof"
  BY LineFacts DEF SliceValid
<1>2. /\ next \in Seq(Bytes) /\ Len(next) = Stop - Handed
      /\ next = SubSeq(input, Handed + 1, Stop)
      /\ Handed \in Nat /\ Len(input) \in Nat /\ SourceTyped
      /\ pos \in 0..Len(input) /\ input \in Seq(Bytes)
  BY NextFrame, HandedIsNat DEF SliceValid, Line, LineInv, TypeOK, SourceTyped
<1>3. pending = <<>> /\ output \in Seq(Bytes) /\ Len(output) = Handed
  BY EmptySeq DEF SliceValid, Line, LineInv, FrameInv, TypeOK, Handed
<1>4. pending' = next /\ frame' = next /\ output' = output /\ UNCHANGED sourceVars
      /\ input' = input /\ end' = end /\ pos' = Stop /\ eof' = Ends /\ pc' = "copying"
      /\ UNCHANGED <<failed, result>>
  BY DEF SliceValid, Line, sourceVars
<1>5. Handed' = Stop
  BY <1>1, <1>2, <1>3, <1>4 DEF Handed
<1>6. GoodUpTo(Stop)
  <2>1. GoodLine(Stop)
    BY <1>1 DEF GoodLine, SliceValid
  <2>2. ASSUME NEW k \in 1..Stop, IsLineEnd(k) PROVE GoodLine(k)
    <3>1. k \in 1..Handed \/ k = Stop
      BY <1>1, <1>2, <2>2 DEF NoLineEnd
    <3>2. QED
      BY <2>1, <2>2, <3>1 DEF LineInv, HandedInv, GoodUpTo
  <2>3. Stop \in 0..Len(input)
    BY <1>1, <1>2
  <2>4. QED
    BY <1>1, <2>2, <2>3 DEF GoodUpTo
<1>7. output \o next = SubSeq(input, 1, Stop)
  <2>1. output = SubSeq(input, 1, Handed)
    BY <1>3, ConcatEmptySeq DEF LineInv, HandedInv
  <2>2. Handed \in 0..Len(input) /\ Stop \in Handed..Len(input) /\ 0 \in 0..Len(input)
    BY <1>1, <1>2
  <2>3. SubSeq(input, 0 + 1, Handed) \o SubSeq(input, Handed + 1, Stop) = SubSeq(input, 0 + 1, Stop)
    BY <1>2, <2>2, Join
  <2>4. QED
    BY <1>2, <2>1, <2>3
<1>8. Stop \in 0..Len(input) /\ (Ends => Stop = Len(input)) /\ Ends \in BOOLEAN
  BY <1>1, <1>2, StopFacts DEF Ends
<1> HIDE DEF next
<1>9. TypeOK'
  BY <1>2, <1>4, <1>8 DEF LineInv, TypeOK, SourceTyped
<1>10. HandedInv'
  BY <1>4, <1>5, <1>6, <1>7, HandedTo DEF HandedInv
<1>11. FrameInv'
  BY <1>1, <1>4, <1>5 DEF FrameInv, HoldsOneFrame
<1>12. EndInv'
  <2>1. ~failed /\ result = "ok"
    BY DEF SliceValid, Line, LineInv, EndInv
  <2>2. QED
    BY <1>4, <1>8, <2>1 DEF EndInv
<1>13. QED
  BY <1>9, <1>10, <1>11, <1>12 DEF LineInv

\* copy hands on what the frame has left, as far as the buffer goes.
LEMMA CopyStep ==
  ASSUME LineInv, NEW n \in 1..MaxRead, Copy(n)
  PROVE  LineInv'
<1>1. /\ pc = "copying" /\ ~failed /\ result = "ok"
      /\ pos = Handed /\ (eof => pos = Len(input))
      /\ Len(pending) <= Limit /\ Len(frame) <= Limit
  BY DEF Copy, LineInv, FrameInv, HoldsOneFrame, EndInv
<1>2. /\ output' = output \o SubSeq(pending, 1, Copied(n)) /\ pending' = Rest(n)
      /\ pc' = "idle" /\ result' = "ok"
      /\ UNCHANGED <<input, end, pos, frame, eof, failed>> /\ UNCHANGED sourceVars
  BY DEF Copy, sourceVars
<1> DEFINE head == SubSeq(pending, 1, Copied(n))
           rest == SubSeq(pending, Copied(n) + 1, Len(pending))
<1>3. output \in Seq(Bytes) /\ pending \in Seq(Bytes) /\ Len(pending) \in Nat /\ Len(output) \in Nat
  BY DEF LineInv, TypeOK
<1>4. /\ Copied(n) \in 0..Len(pending) /\ 0 \in 0..Len(pending)
      /\ Len(pending) \in Copied(n)..Len(pending)
  BY <1>3 DEF Copied
<1>5. head \in Seq(Bytes) /\ Len(head) = Copied(n) /\ rest \in Seq(Bytes)
      /\ Len(rest) = Len(pending) - Copied(n)
  <2>1. /\ SubSeq(pending, 0 + 1, Copied(n)) \in Seq(Bytes)
        /\ Len(SubSeq(pending, 0 + 1, Copied(n))) = Copied(n) - 0
    BY <1>3, <1>4, Slice
  <2>2. rest \in Seq(Bytes) /\ Len(rest) = Len(pending) - Copied(n)
    BY <1>3, <1>4, Slice
  <2>3. QED
    BY <1>4, <2>1, <2>2
<1>6. head \o rest = pending
  BY <1>3, <1>4, Cut
<1>7. pending' = rest /\ output' = output \o head
  BY <1>2 DEF Rest
<1> HIDE DEF head, rest
<1>8. output' \in Seq(Bytes) /\ pending' \in Seq(Bytes) /\ Len(output') = Len(output) + Len(head)
  BY <1>3, <1>5, <1>7, ConcatProperties
<1>9. output' \o pending' = output \o pending
  <2>1. output \in Seq(Bytes) /\ head \in Seq(Bytes) /\ rest \in Seq(Bytes)
    BY <1>3, <1>5
  <2>2. (output \o head) \o rest = output \o (head \o rest)
    BY <2>1, Regroup
  <2>3. QED
    BY <1>6, <1>7, <2>2
<1>10. Handed' = Handed
  BY <1>3, <1>4, <1>5, <1>7, <1>8 DEF Handed
<1>11. HandedInv'
  <2>1. GoodUpTo(Handed)'
    BY <1>2, <1>10, HandedTo DEF LineInv, HandedInv
  <2>2. QED
    BY <1>2, <1>9, <1>10, <2>1 DEF LineInv, HandedInv
<1>12. TypeOK'
  BY <1>2, <1>8 DEF LineInv, TypeOK, SourceTyped
<1>13. FrameInv'
  BY <1>1, <1>2, <1>3, <1>4, <1>5, <1>7, <1>10 DEF FrameInv, HoldsOneFrame
<1>14. EndInv'
  BY <1>1, <1>2 DEF EndInv
<1>15. QED
  BY <1>11, <1>12, <1>13, <1>14 DEF LineInv

LEMMA StartInv == Init => LineInv
<1> SUFFICES ASSUME Init PROVE LineInv
  OBVIOUS
<1>1. PICK n \in 0..MaxInput : input \in [1..n -> Bytes]
  BY DEF Init, Bytes
<1>2. input \in Seq(Bytes) /\ Len(input) \in Nat
  BY <1>1
<1>3. output = <<>> /\ pending = <<>> /\ frame = <<>> /\ pos = 0 /\ Len(<<>>) = 0
      /\ end \in {"eof", "error"} /\ pc = "idle" /\ eof = FALSE /\ failed = FALSE
      /\ result = "ok"
  BY EmptySeq DEF Init
<1>4. Handed = 0
  BY <1>3 DEF Handed
<1>5. <<>> \o <<>> = <<>> /\ SubSeq(input, 1, 0) = <<>> /\ <<>> \in Seq(Bytes)
  BY ConcatEmptySeq, SubSeqEmpty, EmptySeq
<1>6. TypeOK
  <2>1. SourceTyped /\ pos \in 0..Len(input) /\ pc \in {"idle", "slicing", "copying"}
    BY <1>2, <1>3 DEF SourceTyped
  <2>2. frame \in Seq(Bytes) /\ pending \in Seq(Bytes) /\ output \in Seq(Bytes)
    BY <1>3, <1>5
  <2>3. QED
    BY <1>3, <2>1, <2>2 DEF TypeOK
<1>7. HandedInv
  BY <1>2, <1>3, <1>4, <1>5 DEF HandedInv, GoodUpTo
<1>8. FrameInv /\ EndInv
  BY <1>3, <1>4 DEF FrameInv, HoldsOneFrame, EndInv
<1>9. QED
  BY <1>6, <1>7, <1>8 DEF LineInv

LEMMA StutterStep ==
  ASSUME LineInv, UNCHANGED vars
  PROVE  LineInv'
<1>1. /\ SourceTyped' /\ Handed' = Handed /\ HandedInv' /\ (Stuck(Handed) => Stuck(Handed)')
      /\ input' = input
  BY NothingHanded DEF vars, sourceVars
<1>2. QED
  BY <1>1 DEF LineInv, TypeOK, FrameInv, HoldsOneFrame, EndInv, vars, sourceVars

LEMMA LineInvariant == Spec => []LineInv
<1>1. LineInv /\ [Next]_vars => LineInv'
  BY ReadStep, TooLongStep, MoreStep, ErrorStep, NothingStep, InvalidStep, ValidStep,
     CopyStep, StutterStep DEF Next
<1>2. QED
  BY <1>1, StartInv, PTL DEF Spec

-----------------------------------------------------------------------------
\* The reader holds no more than a frame of the limit, however long a line the
\* child writes and however its chunks come (bounds.go:43-48).
THEOREM FrameHeld == Spec => []HoldsOneFrame
<1>1. LineInv => HoldsOneFrame
  BY DEF LineInv, FrameInv
<1>2. QED
  BY <1>1, LineInvariant, PTL

\* The decoder gets bytes of the good lines only, in order and none twice, for
\* every output of the child and all sizes of buffers (bounds.go:13-14).
THEOREM GoodLinesOnly == Spec => []OnlyGoodLines
<1>1. LineInv => OnlyGoodLines
  BY HandedIsNat, GoodBytesGreatest DEF LineInv, TypeOK, HandedInv, OnlyGoodLines, Handed
<1>2. QED
  BY <1>1, LineInvariant, PTL

\* A Read that ends the stream comes after every good line has been handed
\* on: what ends it is the first bad line or the end of the output
\* (bounds.go:27-66).
THEOREM GoodLinesAll == Spec => []NoGoodLineLost
<1>1. LineInv => NoGoodLineLost
  <2> SUFFICES ASSUME LineInv, pc = "idle", result # "ok"
               PROVE  output = SubSeq(input, 1, GoodBytes)
    BY DEF NoGoodLineLost
  <2>1. pending = <<>>
    BY DEF LineInv, EndInv
  <2>2. Stuck(Handed)
    <3>1. CASE failed
      BY <3>1 DEF LineInv, EndInv
    <3>2. CASE ~failed
      <4>1. Handed = Len(input)
        BY <3>2 DEF LineInv, EndInv, FrameInv
      <4>2. QED
        BY <4>1, HandedIsNat DEF Stuck, LineInv
    <3>3. QED
      BY <3>1, <3>2
  <2>3. Handed = GoodBytes
    BY <2>2, HandedIsNat, GoodBytesReached DEF LineInv, TypeOK, HandedInv
  <2>4. output \o pending = output
    BY <2>1, ConcatEmptySeq DEF LineInv, TypeOK
  <2>5. QED
    BY <2>3, <2>4 DEF LineInv, HandedInv
<1>2. QED
  BY <1>1, LineInvariant, PTL
=============================================================================
