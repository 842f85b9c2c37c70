------------------------- MODULE OutputTotalProofs -------------------------
(***************************************************************************)
(* Proofs about OutputTotal, for every limit and every length of a body    *)
(* and of the decoder's buffers.                                           *)
(***************************************************************************)
EXTENDS OutputTotal, TLAPS

USE TotalAssumption DEF TotalAssumption

\* What totalBound knows: until it fails, remaining is what is left of the
\* limit and all that the inner reader gave has been passed on; it fails
\* only on a byte past the limit.
TotalInv ==
  /\ TypeOK
  /\ declared \in {-1, body} /\ taken <= body
  /\ pc # "reading" => taken = 0 /\ delivered = 0 /\ ~failed
  /\ pc = "trip" => result = "ok"
  /\ pc = "refused" => body > Limit /\ result = "limit"
  /\ pc = "reading" /\ ~failed =>
       /\ delivered = taken /\ delivered + remaining = Limit
       /\ result # "limit" /\ (result = "eof" => taken = body)
  /\ failed => delivered = Limit /\ taken > Limit /\ result = "limit"

LEMMA TotalStep == TotalInv /\ [Next]_vars => TotalInv'
<1> SUFFICES ASSUME TotalInv, [Next]_vars PROVE TotalInv'
  OBVIOUS
<1> USE DEF TotalInv, TypeOK
<1>1. CASE RoundTripRefused
  BY <1>1 DEF RoundTripRefused, DeclaredTooLong
<1>2. CASE RoundTrip
  BY <1>2 DEF RoundTrip, DeclaredTooLong
<1>3. CASE ReadFailed
  BY <1>3 DEF ReadFailed
<1>4. ASSUME NEW p \in 0..MaxRead, NEW n \in 0..MaxRead, NEW e \in {"ok", "eof"},
             ReadOversize(p, n, e)
      PROVE TotalInv'
  BY <1>4 DEF ReadOversize, Inner, Asked, Oversize, Passed
<1>5. ASSUME NEW p \in 0..MaxRead, NEW n \in 0..MaxRead, NEW e \in {"ok", "eof"},
             Read(p, n, e)
      PROVE TotalInv'
  BY <1>5 DEF Read, Inner, Asked, Oversize
<1>6. CASE UNCHANGED vars
  BY <1>6 DEF vars
<1>7. QED
  BY <1>1, <1>2, <1>3, <1>4, <1>5, <1>6 DEF Next

LEMMA TotalInvariant == Spec => []TotalInv
<1>1. ASSUME Init PROVE TotalInv
  <2>1. body \in Nat /\ declared \in {-1, body}
    BY <1>1 DEF Init
  <2>2. TypeOK
    BY <1>1, <2>1 DEF Init, TypeOK
  <2>3. QED
    BY <1>1, <2>1, <2>2 DEF Init, TotalInv
<1>2. QED
  BY <1>1, TotalStep, PTL DEF Spec

\* The decoder gets at most limits.OutputBytes bytes of a body, and all of a
\* body within the limit (bounds.go:77-94).
THEOREM BodyBounded == Spec => []Bounded
<1>1. TotalInv => Bounded
  BY DEF TotalInv, TypeOK, Bounded
<1>2. QED
  BY <1>1, TotalInvariant, PTL

\* A body is cut off only if it is longer than the limit, an EOF is reported
\* only at its end, and a longer body makes the reader fail (bounds.go:82-94).
THEOREM BodyVerdict == Spec => []VerdictExact
<1>1. TotalInv => VerdictExact
  BY DEF TotalInv, TypeOK, VerdictExact
<1>2. QED
  BY <1>1, TotalInvariant, PTL
=============================================================================
