------------------------- MODULE ProcessCloseProofs -------------------------
(***************************************************************************)
(* Proofs about ProcessClose, for any number of descendants, of callers of *)
(* Close and of responses.                                                 *)
(***************************************************************************)
EXTENDS ProcessClose, TLAPS

USE ProcessAssumption DEF ProcessAssumption

\* Type correctness: every variable keeps its type.
THEOREM TypeCorrect == Spec => []TypeOK
<1>1. ASSUME Init PROVE TypeOK
  BY <1>1, 0 \in Nat DEF Init, TypeOK
<1>2. TypeOK /\ [Next]_vars => TypeOK'
  <2> SUFFICES ASSUME TypeOK, [Next]_vars PROVE TypeOK'
    OBVIOUS
  <2> USE DEF TypeOK
  <2>1. CASE Connect
    BY <2>1 DEF Connect, closeVars, pipeVars
  <2>2. CASE Exit
    BY <2>2 DEF Exit, closeVars, pipeVars
  <2>3. CASE Write
    BY <2>3 DEF Write, childVars, closeVars
  <2>4. CASE Receive
    BY <2>4 DEF Receive, childVars, closeVars
  <2>5. CASE Reap
    BY <2>5 DEF Reap, closeVars, pipeVars
  <2>6. CASE WaitReturns
    BY <2>6 DEF WaitReturns, closeVars, pipeVars
  <2>7. ASSUME NEW d \in Descendants, Fork(d) PROVE TypeOK'
    BY <2>7 DEF Fork, closeVars, pipeVars
  <2>8. ASSUME NEW d \in Descendants, Leave(d) PROVE TypeOK'
    BY <2>8 DEF Leave, Member, closeVars, pipeVars
  <2>9. ASSUME NEW c \in Closers, ConnectIOFails(c) PROVE TypeOK'
    BY <2>9 DEF ConnectIOFails, pipeVars
  <2>10. ASSUME NEW c \in Closers, Call(c) PROVE TypeOK'
    BY <2>10 DEF Call, Goto, childVars, pipeVars
  <2>11. ASSUME NEW c \in Closers, CloseStep(c) PROVE TypeOK'
    <3>1. CASE OnceEnter(c)
      BY <3>1 DEF OnceEnter, childVars, pipeVars
    <3>2. CASE OnceSkip(c)
      BY <3>2 DEF OnceSkip, Goto, childVars, pipeVars
    <3>3. CASE CloseStdin(c)
      BY <3>3 DEF CloseStdin, Goto, childVars, pipeVars
    <3>4. CASE WaitDone(c) \/ WaitTimeout(c)
      BY <3>4 DEF WaitDone, WaitTimeout, Waited, Goto, childVars, pipeVars
    <3>5. CASE Terminate(c)
      BY <3>5 DEF Terminate, Goto, pipeVars
    <3>6. CASE Kill(c)
      BY <3>6 DEF Kill, Killed, Goto, pipeVars
    <3>7. CASE CloseConnection(c)
      BY <3>7 DEF CloseConnection, Goto, childVars, pipeVars
    <3>8. QED
      BY <2>11, <3>1, <3>2, <3>3, <3>4, <3>5, <3>6, <3>7 DEF CloseStep
  <2>12. CASE UNCHANGED vars
    BY <2>12 DEF vars, childVars, closeVars, pipeVars
  <2>13. QED
    BY <2>1, <2>2, <2>3, <2>4, <2>5, <2>6, <2>7, <2>8, <2>9, <2>10, <2>11, <2>12
       DEF Next
<1>3. QED
  BY <1>1, <1>2, PTL DEF Spec

-----------------------------------------------------------------------------
\* Some caller of Close is past its SIGKILL, or the whole of it is over.
PastKill == once = "over" \/ \E c \in Closers : pc[c] \in {"conn", "killgrace"}

\* The invariant: nobody is in Close before there is a child; a caller whose
\* Close has returned knows it over, and from the SIGKILL on the group is
\* dead, and stays dead because only its members fork.
GroupInv ==
  /\ \A c \in Closers : pc[c] # "out" => child # "none"
  /\ conn # "none" \/ once # None => child # "none"
  /\ \A c \in Closers : pc[c] = "done" => once = "over"
  /\ PastKill => child # "none" /\ ~GroupAlive
  /\ conn = "closed" => PastKill

LEMMA GroupStep == TypeOK /\ GroupInv /\ [Next]_vars => GroupInv'
<1> SUFFICES ASSUME TypeOK, GroupInv, [Next]_vars PROVE GroupInv'
  OBVIOUS
<1> USE DEF TypeOK, GroupInv, PastKill, GroupAlive, Member
<1>1. CASE Connect
  BY <1>1 DEF Connect, closeVars, pipeVars
<1>2. CASE Exit
  BY <1>2 DEF Exit, closeVars, pipeVars
<1>3. CASE Write \/ Receive
  BY <1>3 DEF Write, Receive, childVars, closeVars
<1>4. CASE Reap
  BY <1>4 DEF Reap, closeVars, pipeVars
<1>5. CASE WaitReturns
  BY <1>5 DEF WaitReturns, closeVars, pipeVars
<1>6. ASSUME NEW d \in Descendants, Fork(d) PROVE GroupInv'
  BY <1>6 DEF Fork, closeVars, pipeVars
<1>7. ASSUME NEW d \in Descendants, Leave(d) PROVE GroupInv'
  BY <1>7 DEF Leave, closeVars, pipeVars
<1>8. ASSUME NEW c \in Closers, ConnectIOFails(c) PROVE GroupInv'
  BY <1>8 DEF ConnectIOFails, pipeVars
<1>9. ASSUME NEW c \in Closers, Call(c) PROVE GroupInv'
  BY <1>9 DEF Call, Goto, childVars, pipeVars
<1>10. ASSUME NEW c \in Closers, CloseStep(c) PROVE GroupInv'
  <2>1. CASE OnceEnter(c)
    BY <2>1 DEF OnceEnter, childVars, pipeVars
  <2>2. CASE OnceSkip(c)
    BY <2>2 DEF OnceSkip, OnceOver, Goto, childVars, pipeVars
  <2>3. CASE CloseStdin(c)
    BY <2>3 DEF CloseStdin, Goto, childVars, pipeVars
  <2>4. CASE WaitDone(c) \/ WaitTimeout(c)
    BY <2>4 DEF WaitDone, WaitTimeout, Waited, Goto, childVars, pipeVars
  <2>5. CASE Terminate(c)
    BY <2>5 DEF Terminate, Goto, pipeVars
  <2>6. CASE Kill(c)
    BY <2>6 DEF Kill, Killed, Goto, pipeVars
  <2>7. CASE CloseConnection(c)
    BY <2>7 DEF CloseConnection, Goto, childVars, pipeVars
  <2>8. QED
    BY <1>10, <2>1, <2>2, <2>3, <2>4, <2>5, <2>6, <2>7 DEF CloseStep
<1>11. CASE UNCHANGED vars
  BY <1>11 DEF vars, childVars, closeVars, pipeVars
<1>12. QED
  BY <1>1, <1>2, <1>3, <1>4, <1>5, <1>6, <1>7, <1>8, <1>9, <1>10, <1>11 DEF Next

LEMMA GroupInvariant == Spec => []GroupInv
<1>1. Init => GroupInv
  BY DEF Init, GroupInv, PastKill, GroupAlive, Member
<1>2. QED
  BY <1>1, TypeCorrect, GroupStep, PTL DEF Spec

\* When any caller's Close has returned, no member of the child's process
\* group runs (process.go:71-94): for any number of descendants that fork,
\* leave the group or ignore SIGTERM, and of concurrent callers.
THEOREM NoMemberSurvives == Spec => []GroupGone
<1>1. GroupInv => GroupGone
  BY DEF GroupInv, GroupGone, PastKill
<1>2. QED
  BY <1>1, GroupInvariant, PTL

\* Close closes the connection only after its SIGKILL (process.go:84-85).
THEOREM ConnectionClosedLast == Spec => []ClosedAfterKill
<1>1. GroupInv => ClosedAfterKill
  BY DEF GroupInv, ClosedAfterKill
<1>2. QED
  BY <1>1, GroupInvariant, PTL

-----------------------------------------------------------------------------
\* What was written is in the pipe or has been read; also once nobody reads it.
PipeInv == received + buffered = written

\* No step of the processes, of cmd.Wait or of Close takes a response out of
\* the pipe (process.go:59, 64-68): only the read loop does, until the
\* connection is closed.
THEOREM NothingIsLost == Spec => []NothingLost
<1>1. Init => PipeInv
  BY DEF Init, PipeInv
<1>2. TypeOK /\ PipeInv /\ [Next]_vars => PipeInv'
  <2> SUFFICES ASSUME TypeOK, PipeInv, [Next]_vars PROVE PipeInv'
    OBVIOUS
  <2>1. CASE Write
    BY <2>1 DEF Write, PipeInv, TypeOK
  <2>2. CASE Receive
    BY <2>2 DEF Receive, PipeInv, TypeOK
  <2>3. CASE UNCHANGED pipeVars
    BY <2>3 DEF pipeVars, PipeInv
  <2>4. CASE Connect \/ Exit \/ Reap \/ WaitReturns
    BY <2>3, <2>4 DEF Connect, Exit, Reap, WaitReturns
  <2>5. ASSUME NEW d \in Descendants, Fork(d) \/ Leave(d) PROVE PipeInv'
    BY <2>3, <2>5 DEF Fork, Leave
  <2>6. ASSUME NEW c \in Closers, ConnectIOFails(c) \/ Call(c) PROVE PipeInv'
    BY <2>3, <2>6 DEF ConnectIOFails, Call
  <2>7. ASSUME NEW c \in Closers, CloseStep(c) PROVE PipeInv'
    BY <2>3, <2>7 DEF CloseStep, OnceEnter, OnceSkip, CloseStdin, WaitDone,
       WaitTimeout, Terminate, Kill, CloseConnection
  <2>8. CASE UNCHANGED vars
    BY <2>3, <2>8 DEF vars
  <2>9. QED
    BY <2>1, <2>2, <2>4, <2>5, <2>6, <2>7, <2>8 DEF Next
<1>3. PipeInv => NothingLost
  BY DEF PipeInv, NothingLost
<1>4. QED
  BY <1>1, <1>2, <1>3, TypeCorrect, PTL DEF Spec
=============================================================================
