---------------------------- MODULE OutputTotal ----------------------------
(***************************************************************************)
(* boundedHTTP and totalBound of internal/bridge/bounds.go: the body of an *)
(* upstream HTTP response, of which at most Limit bytes reach the decoder. *)
(***************************************************************************)
EXTENDS Integers

CONSTANTS
  Limit,     \* limits.OutputBytes
  MaxBody,   \* bound on the length of a body
  MaxRead    \* bound on the length of the decoder's buffer

ASSUME TotalAssumption == Limit \in Nat /\ MaxBody \in Nat /\ MaxRead \in Nat

VARIABLES
  body,       \* the length of the response's body
  declared,   \* its ContentLength, -1 when it is not known
  pc,         \* "trip", "reading" or "refused"
  taken,      \* bytes that the inner reader has returned
  remaining, failed,  \* of totalBound
  delivered,  \* bytes that the decoder has got
  result      \* of the last Read: "ok", "limit" or "eof"

vars == <<body, declared, pc, taken, remaining, failed, delivered, result>>

Init ==
  /\ body \in 0..MaxBody /\ declared \in {-1, body}
  /\ pc = "trip" /\ taken = 0
  /\ remaining = 0 /\ failed = FALSE
  /\ delivered = 0 /\ result = "ok"

DeclaredNotShorter == declared >= Limit
DeclaredTooLong == declared > Limit

RoundTripRefused ==
  /\ pc = "trip" /\ DeclaredTooLong
  /\ pc' = "refused" /\ result' = "limit"
  /\ UNCHANGED <<body, declared, taken, remaining, failed, delivered>>

RoundTrip ==
  /\ pc = "trip" /\ ~DeclaredTooLong
  /\ pc' = "reading" /\ remaining' = Limit
  /\ UNCHANGED <<body, declared, taken, failed, delivered, result>>

ReadFailed ==
  /\ pc = "reading" /\ failed
  /\ result' = "limit"
  /\ UNCHANGED <<body, declared, pc, taken, remaining, failed, delivered>>

\* A Read with a buffer of p bytes asks for one byte more than may remain,
\* to tell a body that ends at the limit from one that does not.
Asked(p) == IF p > remaining + 1 THEN remaining + 1 ELSE p
Oversize(n) == n > remaining

\* The inner reader returns n bytes, at the end of the body with an EOF.
Inner(p, n, e) ==
  /\ pc = "reading" /\ ~failed
  /\ n <= Asked(p) /\ n <= body - taken
  /\ e \in IF taken + n = body THEN {"ok", "eof"} ELSE {"ok"}
  /\ taken' = taken + n

\* Of those, what still fits the limit.
AllPassed(n) == n
Passed(n) == remaining

ReadOversize(p, n, e) ==
  /\ Inner(p, n, e) /\ Oversize(n)
  /\ delivered' = delivered + Passed(n)
  /\ remaining' = 0 /\ failed' = TRUE /\ result' = "limit"
  /\ UNCHANGED <<body, declared, pc>>

Read(p, n, e) ==
  /\ Inner(p, n, e) /\ ~Oversize(n)
  /\ delivered' = delivered + n
  /\ remaining' = remaining - n /\ result' = e
  /\ UNCHANGED <<body, declared, pc, failed>>

Next ==
  \/ RoundTripRefused \/ RoundTrip \/ ReadFailed
  \/ \E p \in 0..MaxRead, n \in 0..MaxRead, e \in {"ok", "eof"} :
       ReadOversize(p, n, e) \/ Read(p, n, e)

Spec == Init /\ [][Next]_vars

-----------------------------------------------------------------------------
TypeOK ==
  /\ body \in Nat /\ declared \in Nat \cup {-1}
  /\ pc \in {"trip", "reading", "refused"}
  /\ taken \in Nat /\ remaining \in Nat /\ delivered \in Nat
  /\ failed \in BOOLEAN /\ result \in {"ok", "limit", "eof"}

\* The decoder gets no more than the limit, and of a body within the limit
\* exactly what the inner reader has returned (bounds.go:78-94).
Bounded ==
  /\ delivered <= Limit
  /\ body <= Limit => delivered = taken

\* The verdict is right, at the limit too: a body is cut off only if it is
\* longer than the limit, an EOF is reported only at its end, and once more
\* than the limit has been read the reader has failed.
VerdictExact ==
  /\ result = "limit" => body > Limit
  /\ result = "eof" => delivered = body
  /\ pc = "reading" /\ taken > Limit => failed /\ delivered = Limit
=============================================================================
