---------------------------- MODULE DaemonProofs ----------------------------
(* Proofs about Daemon, for any set of frontends.                          *)
EXTENDS Daemon, TLAPS

\* Backends and requests belong to frontends that nobody has reaped yet.
Unreaped == \A f \in Fronts :
  backend[f] \/ serving[f] # {} => front[f] \in {"registered", "ended"}

\* From where run has called Close on, no frontend registers; once Close has
\* returned nothing is left to reap, whatever requests still come.
Stopped == /\ run \in {"closing", "shutdown", "deferred", "exited"} => closed
           /\ run \in {"shutdown", "exited"} => ReapersDone

StopInv == TypeOK /\ Unreaped /\ Stopped

LEMMA InitStop == Init => StopInv
  BY DEF Init, FrontsInit, StopInv, TypeOK, FrontsOK, Unreaped, Stopped

LEMMA RunStopStep == StopInv /\ (RunStep \/ StdinCloses) => StopInv'
<1> SUFFICES ASSUME StopInv, RunStep \/ StdinCloses PROVE StopInv'
  OBVIOUS
<1> USE DEF StopInv, TypeOK, FrontsOK, Unreaped, Stopped, frontVars,
            ReapersDone
<1>1. CASE Refuse
  BY <1>1 DEF Refuse, Returns, CloseBegins, End, Registered
<1>2. CASE Start
  BY <1>2 DEF Start
<1>3. CASE StdioCancelled \/ StdinCloses
  BY <1>3 DEF StdioCancelled, StdinCloses, StdioReturns, Returns, CloseBegins, End, Registered
<1>4. CASE ListenerDone
  BY <1>4 DEF ListenerDone, Returns, CloseBegins, End, Registered
<1>5. CASE SignalSeen
  BY <1>5 DEF SignalSeen, CloseBegins, Registered
<1>6. CASE CloseReturns
  BY <1>6 DEF CloseReturns
<1>7. CASE ShutdownDone
  BY <1>7 DEF ShutdownDone, Returns, CloseBegins, End, Registered
<1>8. CASE ShutdownTimesOut
  BY <1>8 DEF ShutdownTimesOut, Returns, CloseBegins, End, Registered
<1>9. CASE Exit
  BY <1>9 DEF Exit
<1> QED
  BY <1>1, <1>2, <1>3, <1>4, <1>5, <1>6, <1>7, <1>8, <1>9 DEF RunStep

LEMMA FrontStopStep ==
  ASSUME StopInv, run # "exited", NEW f \in Fronts,
         FrontStep(f) \/ Dial(f) \/ Leave(f) \/ \E r \in Requests : Reach(f, r)
  PROVE  StopInv'
<1> USE DEF StopInv, TypeOK, FrontsOK, Unreaped, Stopped, processVars,
            ReapersDone
<1>1. ASSUME NEW r \in Requests, Reach(f, r) PROVE StopInv'
  BY <1>1 DEF Reach, Arrive
<1>2. ASSUME NEW r \in Requests, Enter(f, r) PROVE StopInv'
  <2>1. CASE Get(f, r)
    BY <1>2, <2>1 DEF Enter, Get
  <2>2. CASE Decline(f, r)
    BY <1>2, <2>2 DEF Enter, Decline
  <2> QED
    BY <1>2, <2>1, <2>2 DEF Enter
<1>3. ASSUME NEW r \in Requests, Reply(f, r) PROVE StopInv'
  BY <1>3 DEF Reply, Answer
<1>4. CASE Dial(f)
  BY <1>4 DEF Dial, Connect
<1>5. CASE Leave(f) \/ CloseFront(f)
  BY <1>5 DEF Leave, CloseFront, Ends, End, Registered
<1>6. CASE Reap(f)
  BY <1>6 DEF Reap, Clean, Forget
<1> QED
  BY <1>1, <1>2, <1>3, <1>4, <1>5, <1>6 DEF FrontStep

LEMMA StopStep == StopInv /\ [Next]_vars => StopInv'
<1> SUFFICES ASSUME StopInv, [Next]_vars PROVE StopInv'
  OBVIOUS
<1>1. CASE RunStep \/ StdinCloses
  BY <1>1, RunStopStep
<1>2. CASE ListenFails \/ Signal \/ TimerFires
  BY <1>2 DEF ListenFails, Signal, TimerFires, StopInv, TypeOK, FrontsOK, Unreaped, Stopped,
              ReapersDone, frontVars
<1>3. CASE UNCHANGED vars
  BY <1>3 DEF vars, StopInv, TypeOK, FrontsOK, Unreaped, Stopped, ReapersDone,
              frontVars, processVars
<1>4. ASSUME Next, NEW f \in Fronts,
             FrontStep(f) \/ Dial(f) \/ Leave(f) \/ \E r \in Requests : Reach(f, r)
      PROVE  StopInv'
  BY <1>4, FrontStopStep DEF Next
<1> QED
  BY <1>1, <1>2, <1>3, <1>4 DEF Next

LEMMA StopAlways == Spec => []StopInv
  BY InitStop, StopStep, PTL DEF Spec

\* However the process comes to exit, it leaves no backend behind.
THEOREM NothingLeft == Spec => []ExitLeavesNothing
<1>1. StopInv => ExitLeavesNothing
  BY DEF StopInv, Unreaped, Stopped, ReapersDone, ExitLeavesNothing
<1> QED
  BY <1>1, StopAlways, PTL

\* When run calls Shutdown, and when the process exits, no request is in
\* service, and none will be: a request is in service only of a frontend that
\* is not reaped, all are reaped when Close returns, and no more register.
THEOREM WorkFinished == Spec => []WorkIsFinished
<1>1. StopInv => WorkIsFinished
  BY DEF StopInv, Unreaped, Stopped, ReapersDone, WorkIsFinished
<1> QED
  BY <1>1, StopAlways, PTL

\* What the process has of the gateway is a gateway of Frontends, ended and
\* closed by the process, and otherwise left to itself.
THEOREM GatewayOfProcess == Spec => FrontsSpec
<1>1. Init => FrontsInit
  BY DEF Init
<1>2. StopInv /\ [Next]_vars => [FrontsNext]_frontVars
  <2> SUFFICES ASSUME StopInv, [Next]_vars PROVE [FrontsNext]_frontVars
    OBVIOUS
  <2>1. ASSUME NEW F \in SUBSET Fronts, End(F), closed' \in {closed, TRUE},
               UNCHANGED <<backend, arrived, serving>>
        PROVE  FrontsNext
    BY <2>1 DEF FrontsNext, EndOrClose
  <2>2. ASSUME front' = front, closed' \in {closed, TRUE},
               UNCHANGED <<backend, arrived, serving>>
        PROVE  FrontsNext
    <3>1. End({})
      BY <2>2 DEF End, StopInv, TypeOK, FrontsOK
    <3> QED
      BY <2>1, <2>2, <3>1
  <2>3. CASE RunStep \/ StdinCloses
    <3>1. CASE StdioReturns
      BY <2>1, <3>1 DEF StdioReturns, Returns, CloseBegins, Registered
    <3>2. CASE Refuse \/ ListenerDone \/ SignalSeen \/ ShutdownDone \/ ShutdownTimesOut
      BY <2>2, <3>2 DEF Refuse, ListenerDone, SignalSeen, ShutdownDone, ShutdownTimesOut,
                        Returns, CloseBegins
    <3>3. CASE Start \/ CloseReturns \/ Exit
      BY <3>3 DEF Start, CloseReturns, Exit
    <3> QED
      BY <2>3, <3>1, <3>2, <3>3 DEF RunStep, StdinCloses, StdioCancelled
  <2>4. CASE ListenFails \/ Signal \/ TimerFires \/ UNCHANGED vars
    BY <2>4 DEF ListenFails, Signal, TimerFires, vars
  <2>5. ASSUME NEW f \in Fronts, FrontStep(f) \/ Dial(f) \/ Leave(f)
                                 \/ \E r \in Requests : Reach(f, r)
        PROVE  FrontsNext
    <3>1. CASE CloseFront(f) \/ Leave(f)
      BY <2>1, <3>1 DEF CloseFront, Leave, Ends
    <3>2. CASE Reap(f) \/ Dial(f)
      BY <3>2 DEF Reap, Dial, FrontsNext
    <3>3. ASSUME NEW r \in Requests, Enter(f, r) \/ Reply(f, r) \/ Reach(f, r)
          PROVE  FrontsNext
      BY <3>3 DEF Enter, Reply, Reach, FrontsNext
    <3> QED
      BY <2>5, <3>1, <3>2, <3>3 DEF FrontStep
  <2> QED
    BY <2>3, <2>4, <2>5 DEF Next
<1> QED
  BY <1>1, <1>2, StopAlways, PTL DEF Spec, FrontsSpec
=============================================================================
