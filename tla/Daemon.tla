------------------------------- MODULE Daemon -------------------------------
(***************************************************************************)
(* The life of the process: run in cmd/mcp-host-bridge/main.go (serve and  *)
(* stdio) and relay in relay.go, from start to exit, around the gateway    *)
(* and, for serve, the HTTP server.                                        *)
(*                                                                         *)
(* The gateway is seen from here as Frontends has it; Gateway.tla has its  *)
(* inside.  What the process leaves behind when it exits is what nobody    *)
(* has reaped.                                                             *)
(***************************************************************************)
EXTENDS Frontends

VARIABLES
  mode,       \* "serve", or "stdio" (also for relay): one frontend on stdin
  run,        \* where run is
  result,     \* what it returns: "none" yet, "ok" or "error"
  signalled,  \* ctx of signal.NotifyContext is done
  timer,      \* of the shutdown context: "unset", "running" or "passed"
  listener,   \* "off", "listening", "failed" or "shut"
  toClose     \* the frontends that Gateway.Close found in its table

processVars == <<mode, run, result, signalled, timer, listener, toClose>>
vars == <<processVars, frontVars>>

\* No connection is active, as http.Server.Shutdown waits for.
Quiescent == \A f \in Fronts : arrived[f] = {} /\ serving[f] = {}

Init ==
  /\ mode \in {"serve", "stdio"} /\ run = "start" /\ result = "none"
  /\ signalled = FALSE /\ timer = "unset" /\ listener = "off"
  /\ toClose = {}
  /\ FrontsInit

\* Gateway.Close up to its wait.
CloseBegins ==
  /\ closed' = TRUE /\ toClose' = toClose \cup Registered

\* run returns: its deferred g.Close() begins.
Returns(r) ==
  /\ result' = r /\ run' = "deferred"
  /\ CloseBegins
  /\ UNCHANGED <<mode, signalled, timer, backend, arrived, serving>>

\* A policy, a server name, an environment or a key that does not do.
Refuse ==
  /\ run = "start" /\ Returns("error")
  /\ UNCHANGED <<listener, front>>

Start ==
  /\ run = "start" /\ run' = "select"
  /\ listener' = IF mode = "serve" THEN "listening" ELSE "off"
  /\ UNCHANGED <<mode, result, signalled, timer, toClose, frontVars>>

\* Server.Run returns: its session is over.
StdioReturns ==
  /\ run = "select" /\ mode = "stdio"
  /\ \E r \in {"ok", "error"} : Returns(r)
  /\ End(Registered)
  /\ UNCHANGED listener

StdinCloses == ~signalled /\ StdioReturns
StdioCancelled == signalled /\ StdioReturns

\* ListenAndServe returns without having been asked to.
ListenFails ==
  /\ listener = "listening" /\ listener' = "failed"
  /\ UNCHANGED <<mode, run, result, signalled, timer, toClose, frontVars>>

\* (It never returns ErrServerClosed here: run asks it to stop only when it
\* has left the select.)
ListenerDone ==
  /\ run = "select" /\ listener = "failed" /\ Returns("error")
  /\ UNCHANGED <<listener, front>>

\* ctx.Done(): the ten seconds begin, then Gateway.Close does.
SignalSeen ==
  /\ run = "select" /\ mode = "serve" /\ signalled
  /\ run' = "closing" /\ timer' = "running"
  /\ CloseBegins
  /\ UNCHANGED <<mode, result, signalled, listener, front, backend, arrived, serving>>

\* Then Shutdown takes the listener down and lets no connection go on with a
\* further request.
CloseReturns ==
  /\ run = "closing" /\ ReapersDone
  /\ run' = "shutdown" /\ listener' = "shut"
  /\ UNCHANGED <<mode, result, signalled, timer, toClose, frontVars>>

ShutdownDone ==
  /\ run = "shutdown" /\ Quiescent /\ Returns("ok")
  /\ UNCHANGED <<listener, front>>

\* A connection is still active: with a request, or with an answer that its
\* client is slow to read.
ShutdownTimesOut ==
  /\ run = "shutdown" /\ timer = "passed" /\ Returns("error")
  /\ UNCHANGED <<listener, front>>

Exit ==
  /\ run = "deferred" /\ ReapersDone
  /\ run' = "exited"
  /\ UNCHANGED <<mode, result, signalled, timer, listener, toClose, frontVars>>

-----------------------------------------------------------------------------
\* A request reaches the server, on a new connection or, though the listener
\* has failed, on an open one; on stdio, the one client's.
Reach(f, r) ==
  /\ IF mode = "serve" THEN listener \in {"listening", "failed"}
     ELSE run = "select" /\ \A g \in Fronts \ {f} : front[g] = "none" /\ arrived[g] = {}
  /\ Arrive(f, r)
  /\ UNCHANGED processVars

\* What the gateway does of its own accord.
Enter(f, r) == (Get(f, r) \/ Decline(f, r)) /\ UNCHANGED processVars
Reply(f, r) == Answer(f, r) /\ UNCHANGED processVars
Dial(f) == \E F \in SUBSET Fronts : Connect(f, F) /\ UNCHANGED processVars
Reap(f) == (Clean(f) \/ Forget(f)) /\ UNCHANGED processVars

\* A frontend ends by itself, or Close closes it.
Ends(f) == End({f}) /\ UNCHANGED <<processVars, closed, backend, arrived, serving>>
Leave(f) == f \notin toClose /\ Ends(f)
CloseFront(f) == f \in toClose /\ Ends(f)

\* Before NotifyContext a signal ends a process that has started nothing.
Signal ==
  /\ run # "start" /\ ~signalled /\ signalled' = TRUE
  /\ UNCHANGED <<mode, run, result, timer, listener, toClose, frontVars>>

TimerFires ==
  /\ timer = "running" /\ timer' = "passed"
  /\ UNCHANGED <<mode, run, result, signalled, listener, toClose, frontVars>>

RunStep == \/ Refuse \/ Start \/ StdioCancelled \/ ListenerDone \/ SignalSeen
           \/ CloseReturns \/ ShutdownDone \/ ShutdownTimesOut \/ Exit
FrontStep(f) == CloseFront(f) \/ Reap(f) \/ \E r \in Requests : Enter(f, r) \/ Reply(f, r)

\* An exited process does nothing.
Next ==
  /\ run # "exited"
  /\ \/ RunStep \/ StdinCloses \/ ListenFails \/ Signal \/ TimerFires
     \/ \E f \in Fronts : FrontStep(f) \/ Dial(f) \/ Leave(f) \/ \E r \in Requests : Reach(f, r)

\* A reaper closes or releases the backend of its frontend.
Cleans(f) == front[f] = "ended" /\ serving[f] = {} /\ backend[f]

\* run goes on; a request is read (ReadTimeout) and let in or refused; Close
\* closes the frontends it found, and their reapers run.  That a request in
\* service is answered or that a backend is closed is not taken for granted:
\* Gateway says when they are.
Fairness ==
  /\ WF_vars(RunStep) /\ WF_vars(TimerFires)
  /\ \A f \in Fronts :
       /\ WF_vars(CloseFront(f)) /\ WF_vars(~Cleans(f) /\ Reap(f))
       /\ \A r \in Requests : WF_vars(Enter(f, r))

Spec == Init /\ [][Next]_vars /\ Fairness

\* The type invariant.
TypeOK ==
  /\ mode \in {"serve", "stdio"}
  /\ run \in {"start", "select", "closing", "shutdown", "deferred", "exited"}
  /\ result \in {"none", "ok", "error"}
  /\ signalled \in BOOLEAN /\ timer \in {"unset", "running", "passed"}
  /\ listener \in {"off", "listening", "failed", "shut"}
  /\ toClose \subseteq Fronts /\ FrontsOK

-----------------------------------------------------------------------------
\* Whatever makes run return (a signal, a listener that fails, a client that
\* leaves), the process exits only when each backend that it ever started has
\* been closed (main.go:70, the deferred Close).
ExitLeavesNothing ==
  run = "exited" => \A f \in Fronts : ~backend[f] /\ front[f] \in {"none", "reaped"}

\* No request that the gateway has let in is abandoned at work: neither by the
\* end of the process, whichever way it comes to it, nor when Shutdown gives
\* up, for which the time may be over before it is called, since the ten
\* seconds begin before Gateway.Close (main.go:95-103).  What Shutdown still
\* waits for, and cuts off, are refusals of requests that came while Close
\* ran, and answers on their way to the client.
WorkIsFinished == run \in {"shutdown", "exited"} => \A f \in Fronts : serving[f] = {}

\* Once signalled the process exits, though its listener accepts requests for
\* as long as Close runs (main.go:95-99): unless a request or the closing of a
\* backend hangs, for which nothing in run has a deadline.  By CallEnds and
\* FrontReaped of Gateway they hang only on a backend that does not close.
Hangs(f) == <>[]Cleans(f) \/ \E r \in Requests : <>[](r \in serving[f])
SignalEnds == (\E f \in Fronts : Hangs(f)) \/ (signalled ~> (run = "exited"))
=============================================================================
