---------------------------- MODULE ProcessClose ----------------------------
(***************************************************************************)
(* The stdio backend of internal/bridge: process.go and process_unix.go.   *)
(*                                                                         *)
(* The child leads a process group of its own.  Its descendants belong to  *)
(* that group until they leave it; all of them inherit the child's stderr, *)
(* which cmd.Wait copies (to io.Discard) until the last of them closes it. *)
(* Close escalates: stdin closed, SIGTERM, SIGKILL to the whole group.     *)
(***************************************************************************)
EXTENDS Integers, FiniteSets

CONSTANTS
  Descendants,  \* processes the child and its children may fork
  Closers,      \* goroutines that call Close (the SDK, the reaper, Connect)
  None,
  MaxResponses  \* bound on the responses the child writes

ASSUME ProcessAssumption ==
  /\ None \notin Closers /\ "over" \notin Closers /\ None # "over"
  /\ MaxResponses \in Nat

VARIABLES
  child,    \* the group's leader: "none", "running", "zombie" or "reaped"
  kin,      \* of a descendant: "none", "member" of the group, "detached" from
            \* it, "daemon" (detached, stderr closed too) or "dead"
  done,     \* p.done is closed: cmd.Wait has returned
  conn,     \* p.Connection: "none", "open" or "closed"
  once,     \* the closer that runs p.once's function; then "over"
  pc,       \* where a closer is
  written, buffered, received  \* responses: by the child, in the pipe, read

childVars == <<child, kin, done>>
closeVars == <<once, pc>>
pipeVars == <<written, buffered, received>>
vars == <<childVars, conn, closeVars, pipeVars>>

Init ==
  /\ child = "none" /\ kin = [d \in Descendants |-> "none"]
  /\ done = FALSE /\ conn = "none"
  /\ once = None /\ pc = [c \in Closers |-> "out"]
  /\ written = 0 /\ buffered = 0 /\ received = 0

-----------------------------------------------------------------------------
(* Connect.                                                                *)

\* The child starts, with descriptors of its own.
Connect ==
  /\ child = "none"
  /\ child' = "running" /\ conn' = "open"
  /\ UNCHANGED <<kin, done, closeVars, pipeVars>>

\* The IO transport refuses the pipes of a started child: Connect closes it.
ConnectIOFails(c) ==
  /\ child = "none"
  /\ child' = "running"
  /\ once' = c /\ pc' = [pc EXCEPT ![c] = "eof"]
  /\ UNCHANGED <<kin, done, conn, pipeVars>>

-----------------------------------------------------------------------------
(* The processes.                                                          *)

Member(d) == kin[d] = "member"
GroupAlive == child = "running" \/ \E d \in Descendants : Member(d)
StderrHeld == \E d \in Descendants : kin[d] \in {"member", "detached"}

Fork(d) ==
  /\ GroupAlive /\ kin[d] = "none"
  /\ kin' = [kin EXCEPT ![d] = "member"]
  /\ UNCHANGED <<child, done, conn, closeVars, pipeVars>>

\* A descendant leaves the group, with or without its stderr, or exits.
Leave(d) ==
  /\ \/ Member(d) /\ \E k \in {"detached", "daemon", "dead"} : kin' = [kin EXCEPT ![d] = k]
     \/ kin[d] \in {"detached", "daemon"} /\ kin' = [kin EXCEPT ![d] = "dead"]
  /\ UNCHANGED <<child, done, conn, closeVars, pipeVars>>

\* The child ends by itself: its stdin is closed, it crashes, or it has
\* handled SIGTERM.
Exit ==
  /\ child = "running"
  /\ child' = "zombie"
  /\ UNCHANGED <<kin, done, conn, closeVars, pipeVars>>

Write ==
  /\ child = "running" /\ conn = "open" /\ written < MaxResponses
  /\ written' = written + 1 /\ buffered' = buffered + 1
  /\ UNCHANGED <<childVars, conn, closeVars, received>>

\* The SDK's read loop, through lineBound.
Receive ==
  /\ conn = "open" /\ buffered > 0
  /\ buffered' = buffered - 1 /\ received' = received + 1
  /\ UNCHANGED <<childVars, conn, closeVars, written>>

-----------------------------------------------------------------------------
(* The goroutine of cmd.Wait.                                              *)

ReapNever == FALSE

ReapLosingOutput ==
  /\ child = "zombie"
  /\ child' = "reaped" /\ buffered' = 0
  /\ UNCHANGED <<kin, done, conn, closeVars, written, received>>

\* The child is reaped; the pipes are the parent's and stay open.
Reap ==
  /\ child = "zombie"
  /\ child' = "reaped"
  /\ UNCHANGED <<kin, done, conn, closeVars, pipeVars>>

\* The copy of stderr has ended as well.
WaitReturns ==
  /\ child = "reaped" /\ ~done /\ ~StderrHeld
  /\ done' = TRUE
  /\ UNCHANGED <<child, kin, conn, closeVars, pipeVars>>

-----------------------------------------------------------------------------
(* Close.                                                                  *)

Goto(c, l) == pc' = [pc EXCEPT ![c] = l] /\ once' = once

\* Once Connect has returned the connection, anybody may close it.
Call(c) ==
  /\ conn # "none" /\ pc[c] = "out"
  /\ Goto(c, "once")
  /\ UNCHANGED <<childVars, conn, pipeVars>>

OnceEnter(c) ==
  /\ pc[c] = "once" /\ once = None
  /\ once' = c /\ pc' = [pc EXCEPT ![c] = "eof"]
  /\ UNCHANGED <<childVars, conn, pipeVars>>

\* once.Do returns to the other callers when the first one has finished.
OnceTaken == once # None
OnceOver == once = "over"

OnceSkip(c) ==
  /\ pc[c] = "once" /\ OnceOver
  /\ Goto(c, "done")
  /\ UNCHANGED <<childVars, conn, pipeVars>>

CloseStdin(c) ==
  /\ pc[c] = "eof"
  /\ Goto(c, "grace")
  /\ UNCHANGED <<childVars, conn, pipeVars>>

\* Every select of Close: p.done or the timer, whichever comes first.
Waited(c) ==
  \/ pc[c] = "grace" /\ Goto(c, "term")
  \/ pc[c] = "termgrace" /\ Goto(c, "kill")
  \/ /\ pc[c] = "killgrace"
     /\ once' = "over" /\ pc' = [pc EXCEPT ![c] = "done"]

WaitDone(c) == done /\ Waited(c) /\ UNCHANGED <<childVars, conn, pipeVars>>
WaitTimeoutNever(c) == FALSE
WaitTimeout(c) == ~done /\ Waited(c) /\ UNCHANGED <<childVars, conn, pipeVars>>

\* SIGTERM to the group: some of its processes die of it, others ignore it
\* or handle it in their own time.
Terminate(c) ==
  /\ pc[c] = "term"
  /\ \E victims \in SUBSET {d \in Descendants : Member(d)} :
       kin' = [d \in Descendants |-> IF d \in victims THEN "dead" ELSE kin[d]]
  /\ child' \in IF child = "running" THEN {"running", "zombie"} ELSE {child}
  /\ Goto(c, "termgrace")
  /\ UNCHANGED <<done, conn, pipeVars>>

\* SIGKILL: nothing of the group survives it.
KilledAfterChildOnly(d) == IF Member(d) /\ child = "running" THEN "dead" ELSE kin[d]
Killed(d) == IF Member(d) THEN "dead" ELSE kin[d]

Kill(c) ==
  /\ pc[c] = "kill"
  /\ kin' = [d \in Descendants |-> Killed(d)]
  /\ child' = IF child = "running" THEN "zombie" ELSE child
  /\ Goto(c, "conn")
  /\ UNCHANGED <<done, conn, pipeVars>>

CloseConnection(c) ==
  /\ pc[c] = "conn"
  /\ conn' = IF conn = "open" THEN "closed" ELSE conn
  /\ Goto(c, "killgrace")
  /\ UNCHANGED <<childVars, pipeVars>>

-----------------------------------------------------------------------------
CloseStep(c) ==
  \/ OnceEnter(c) \/ OnceSkip(c) \/ CloseStdin(c) \/ WaitDone(c) \/ WaitTimeout(c)
  \/ Terminate(c) \/ Kill(c) \/ CloseConnection(c)

Next ==
  \/ Connect \/ Exit \/ Write \/ Receive \/ Reap \/ WaitReturns
  \/ \E d \in Descendants : Fork(d) \/ Leave(d)
  \/ \E c \in Closers : ConnectIOFails(c) \/ Call(c) \/ CloseStep(c)

Spec == Init /\ [][Next]_vars

\* The goroutines of Close and of cmd.Wait run, and timers fire; no process
\* is assumed to do anything.
FairSpec ==
  /\ Spec
  /\ \A c \in Closers : WF_vars(CloseStep(c))
  /\ WF_vars(Reap \/ WaitReturns)

-----------------------------------------------------------------------------
TypeOK ==
  /\ child \in {"none", "running", "zombie", "reaped"}
  /\ kin \in [Descendants -> {"none", "member", "detached", "daemon", "dead"}]
  /\ done \in BOOLEAN
  /\ conn \in {"none", "open", "closed"}
  /\ once \in Closers \cup {None, "over"}
  /\ pc \in [Closers -> {"out", "once", "eof", "grace", "term", "termgrace", "kill",
                         "conn", "killgrace", "done"}]
  /\ written \in Nat /\ buffered \in Nat /\ received \in Nat

\* Whoever's Close has returned, first or second caller, nothing of the
\* process group runs any more: descendants that outlive the launcher or
\* ignore SIGTERM do not survive (process.go:83-84, process_unix_test.go:84).
GroupGone == (\E c \in Closers : pc[c] = "done") => ~GroupAlive

\* A response that the child wrote before it exited is still there to be
\* read, however early cmd.Wait reaps the child (process.go:59).
NothingLost == conn = "open" => received + buffered = written

\* The connection is not closed under a child that may still answer: by then
\* the whole group has been killed.
ClosedAfterKill == conn = "closed" => ~GroupAlive

\* Close always returns (process.go:74-91).
CloseReturns == \A c \in Closers : pc[c] \notin {"out", "done"} ~> pc[c] = "done"

\* Close leaves no zombie, and no goroutine either: that of cmd.Wait ends
\* after it, unless a descendant that left the group keeps stderr open
\* (process.go:36, 64).
WaiterEnds ==
  \A c \in Closers :
    pc[c] = "eof" ~> /\ child = "reaped"
                     /\ done \/ \E d \in Descendants : kin[d] = "detached"
=============================================================================
