----------------------------- MODULE LineBound -----------------------------
(***************************************************************************)
(* lineBound of internal/bridge/bounds.go, between a child's stdout and    *)
(* the SDK's decoder: only complete lines, each one JSON value of at most  *)
(* Limit bytes, get through.  A byte is "v" (part of a JSON value), "x"    *)
(* (spoils its line) or "n" (newline).                                     *)
(***************************************************************************)
EXTENDS Naturals, Sequences

CONSTANTS
  Limit,       \* limits.OutputBytes
  BufferSize,  \* of the bufio.Reader, 4096 in the code
  MaxInput,    \* bound on what the child writes
  MaxRead      \* bound on the length of the decoder's buffer

ASSUME LineAssumption ==
  /\ Limit \in Nat /\ MaxInput \in Nat
  /\ BufferSize \in Nat \ {0} /\ MaxRead \in Nat \ {0}

VARIABLES
  input,    \* what the child writes before its stdout ends
  end,      \* how it ends: "eof" or "error"
  pos,      \* bytes that ReadSlice has returned
  pc,       \* "idle", "slicing" or "copying" inside Read
  frame, pending, eof, failed,  \* of lineBound
  output,   \* what the decoder has got
  result    \* of the last Read: "ok", "limit", "invalid", "error" or "eof"

sourceVars == <<input, end>>
vars == <<sourceVars, pos, pc, frame, pending, eof, failed, output, result>>

Init ==
  /\ input \in UNION {[1..n -> {"v", "x", "n"}] : n \in 0..MaxInput}
  /\ end \in {"eof", "error"}
  /\ pos = 0 /\ pc = "idle"
  /\ frame = <<>> /\ pending = <<>> /\ eof = FALSE /\ failed = FALSE
  /\ output = <<>> /\ result = "ok"

\* json.Valid of a line: one value, nothing else.
Valid(line) ==
  /\ \E i \in DOMAIN line : line[i] = "v"
  /\ \A i \in DOMAIN line : line[i] # "x"

\* Where ReadSlice stops: at a newline, with its buffer full, or where the
\* child's output ends.
IsStop(k) == input[k] = "n" \/ k = pos + BufferSize
Stop ==
  IF \E k \in pos + 1..Len(input) : IsStop(k)
  THEN CHOOSE k \in pos + 1..Len(input) :
         IsStop(k) /\ \A j \in pos + 1..k - 1 : ~IsStop(j)
  ELSE Len(input)

Chunk == SubSeq(input, pos + 1, Stop)
Ends == ~\E k \in pos + 1..Len(input) : IsStop(k)
Complete == ~Ends => input[Stop] = "n"
TooLongPerChunk == Len(Chunk) > Limit
TooLong == Len(frame) + Len(Chunk) > Limit

-----------------------------------------------------------------------------
Fail(reason) == failed' = TRUE /\ result' = reason /\ pc' = "idle"

FailedIgnored == FALSE
Failed == failed

ReadFailed ==
  /\ pc = "idle" /\ Failed
  /\ result' = "limit"
  /\ UNCHANGED <<sourceVars, pos, pc, frame, pending, eof, failed, output>>

ReadAtEOF ==
  /\ pc = "idle" /\ ~Failed /\ pending = <<>> /\ eof
  /\ result' = "eof"
  /\ UNCHANGED <<sourceVars, pos, pc, frame, pending, eof, failed, output>>

ReadStart ==
  /\ pc = "idle" /\ ~Failed
  /\ pending # <<>> \/ ~eof
  /\ pc' = IF pending # <<>> THEN "copying" ELSE "slicing"
  /\ frame' = <<>>
  /\ UNCHANGED <<sourceVars, pos, pending, eof, failed, output, result>>

\* Each ReadSlice: the limit is checked before anything else.
SliceTooLong ==
  /\ pc = "slicing" /\ TooLong
  /\ pos' = Stop
  /\ Fail("limit")
  /\ UNCHANGED <<sourceVars, frame, pending, eof, output>>

SliceMore ==
  /\ pc = "slicing" /\ ~TooLong /\ ~Complete
  /\ pos' = Stop /\ frame' = frame \o Chunk
  /\ UNCHANGED <<sourceVars, pc, pending, eof, failed, output, result>>

SliceError ==
  /\ pc = "slicing" /\ ~TooLong /\ Ends /\ end = "error"
  /\ pos' = Stop /\ frame' = frame \o Chunk
  /\ Fail("error")
  /\ UNCHANGED <<sourceVars, pending, eof, output>>

SliceNothing ==
  /\ pc = "slicing" /\ Ends /\ end = "eof" /\ frame \o Chunk = <<>>
  /\ pos' = Stop /\ eof' = TRUE /\ pc' = "idle" /\ result' = "eof"
  /\ UNCHANGED <<sourceVars, frame, pending, failed, output>>

\* A line, or what is left without a newline at the end of the output.
Line ==
  /\ pc = "slicing" /\ ~TooLong /\ Complete
  /\ Ends => end = "eof" /\ frame \o Chunk # <<>>
  /\ pos' = Stop /\ frame' = frame \o Chunk /\ eof' = Ends

SliceInvalid ==
  /\ Line /\ ~Valid(frame \o Chunk)
  /\ Fail("invalid")
  /\ UNCHANGED <<sourceVars, pending, output>>

SliceValid ==
  /\ Line /\ Valid(frame \o Chunk)
  /\ pending' = frame \o Chunk /\ pc' = "copying"
  /\ UNCHANGED <<sourceVars, failed, output, result>>

\* copy into the decoder's buffer of n bytes.
Copied(n) == IF n < Len(pending) THEN n ELSE Len(pending)
RestDropped(n) == <<>>
Rest(n) == SubSeq(pending, Copied(n) + 1, Len(pending))

Copy(n) ==
  /\ pc = "copying"
  /\ output' = output \o SubSeq(pending, 1, Copied(n))
  /\ pending' = Rest(n)
  /\ pc' = "idle" /\ result' = "ok"
  /\ UNCHANGED <<sourceVars, pos, frame, eof, failed>>

Next ==
  \/ ReadFailed \/ ReadAtEOF \/ ReadStart
  \/ SliceTooLong \/ SliceMore \/ SliceError \/ SliceNothing \/ SliceInvalid \/ SliceValid
  \/ \E n \in 1..MaxRead : Copy(n)

Spec == Init /\ [][Next]_vars

-----------------------------------------------------------------------------
(* The reference: the good lines that the output starts with.              *)

IsLineEnd(k) == k = Len(input) \/ input[k] = "n"
LineStart(k) == CHOOSE i \in 1..k : /\ i = 1 \/ input[i - 1] = "n"
                                    /\ \A j \in i..k - 1 : input[j] # "n"
LineAt(k) == SubSeq(input, LineStart(k), k)

\* The line that ends at byte k can be delivered: complete, one JSON value,
\* no longer than the limit.
GoodLine(k) ==
  /\ IsLineEnd(k)
  /\ input[k] = "n" \/ end = "eof"
  /\ Len(LineAt(k)) <= Limit /\ Valid(LineAt(k))

\* The bytes of the good lines before the first bad one.
GoodBytes ==
  CHOOSE g \in 0..Len(input) :
    /\ g = 0 \/ IsLineEnd(g)
    /\ \A k \in 1..g : IsLineEnd(k) => GoodLine(k)
    /\ g < Len(input) => \E k \in g + 1..Len(input) :
         /\ IsLineEnd(k) /\ ~GoodLine(k)
         /\ \A j \in g + 1..k - 1 : ~IsLineEnd(j)

\* Whatever the buffers' sizes, the decoder gets bytes of good lines only, in
\* order and none twice (bounds.go:13-14).
OnlyGoodLines ==
  /\ Len(output) + Len(pending) <= GoodBytes
  /\ output \o pending = SubSeq(input, 1, Len(output) + Len(pending))

\* And it gets all of them before a Read ends the stream: neither a limit nor
\* a failure or the end of the output drops a line that came before it.
NoGoodLineLost ==
  pc = "idle" /\ result # "ok" => output = SubSeq(input, 1, GoodBytes)

\* The lineBound never holds more than one bounded frame.
HoldsOneFrame == Len(frame) <= Limit /\ Len(pending) <= Limit
=============================================================================
