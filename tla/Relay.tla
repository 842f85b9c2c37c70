------------------------------- MODULE Relay -------------------------------
(***************************************************************************)
(* A relay process (relay.go) in front of a daemon that serves the same    *)
(* policy file: it dials the daemon for its client's first forwarded       *)
(* request, keeps that session alive with pings (dial's KeepAlive) and     *)
(* never dials again; the daemon closes a session that is idle for         *)
(* limits.idle_seconds (http.go).  Either process may end at any time, and *)
(* the daemon may be started again.  Each reads the file when it starts;   *)
(* of the edits in between, those of idle_seconds are followed.            *)
(*                                                                         *)
(* Time passes in steps of one unit.  A timer, or the goroutine it wakes,  *)
(* is at most Late units late.  The session, its idle timer (which a       *)
(* request in progress stops and its end restarts) and the ping loop are   *)
(* the SDK's.                                                              *)
(***************************************************************************)
EXTENDS Policy, Integers

CONSTANTS
  IdleSeconds,  \* the values of limits.idle_seconds
  Second,       \* units of time in a second; 1000 in the code
  MinBeat,      \* the shortest keep-alive interval; 100 in the code
  Late          \* how late a timer may be

ASSUME RelayAssumption ==
  /\ IdleSeconds \subseteq Nat \ {0}
  /\ Second \in Nat /\ MinBeat \in Nat \ {0} /\ Late \in Nat
  /\ 3 * MinBeat <= Second
  /\ \A s \in IdleSeconds : 4 * Late < s * Second

VARIABLES
  policy,   \* what the policy and the two environments make of the processes
  seconds,  \* limits.idle_seconds as the relay read it
  limit,    \* ... and as the daemon did
  daemon,   \* the daemon process runs
  relay,    \* the relay process runs
  conn,     \* session.backend and session.failed of the relay
  session,  \* the relay's session at the daemon
  busy,     \* the daemon works on a call of that session
  idle,     \* time since the session's last request ended
  ping,     \* the ping of the keep-alive loop
  beat      \* time since the loop's last tick

processVars == <<policy, seconds, limit, daemon, relay>>
sessionVars == <<session, busy, idle>>
beatVars    == <<ping, beat>>
vars == <<processVars, conn, sessionVars, beatVars>>

SessionTimeoutLost == 0
SessionTimeout == limit * Second
KeepAliveAtIdle == seconds * Second
KeepAlive ==
  IF MinBeat > (seconds * Second) \div 3 THEN MinBeat ELSE (seconds * Second) \div 3
PingTimeout == KeepAlive \div 2

\* dial sets the option only for a definition that asks for it.
BeatsNot == FALSE
Beats == KeepAlive > 0

Outcomes ==
  [serves : BOOLEAN, relays : BOOLEAN, agree : BOOLEAN, letIn : BOOLEAN,
   shutOut : SUBSET {"serve", "stdio", "relay"}]

\* What the processes make of policy c, of the daemon's environment e and of
\* the relay's f.
Start(c, e, f) ==
  LET own == RelayServer(c.server)
      callers == {Principal(c, e, r) : r \in {q \in Requests : Admits(c, e, q)}}
  IN [serves   |-> Protects(c, e),
      relays   |-> Relays(c, f),
      agree    |-> e.secret = f.secret /\ "listen" \in AllowedHosts(c),
      letIn    |-> Admits(c, e, RelayRequest(f)) /\ Accepts(own, DaemonBackend),
      shutOut  |-> (IF Protects(c, e) /\ \E p \in callers : ~MayAttach(c.server, p) THEN {"serve"} ELSE {})
             \cup (IF ServesStdio(c) /\ ~MayAttach(c.server, NoPrincipal) THEN {"stdio"} ELSE {})
             \cup (IF Relays(c, f) /\ ~MayAttach(own, NoPrincipal) THEN {"relay"} ELSE {})]

Init ==
  /\ policy \in {Start(c, e, f) : c \in Policies, e \in Environments, f \in Environments}
  /\ seconds \in IdleSeconds /\ limit \in IdleSeconds
  /\ daemon = policy.serves /\ relay = policy.relays
  /\ conn = "none" /\ session = "none" /\ busy = FALSE /\ idle = 0
  /\ ping = "no" /\ beat = 0

-----------------------------------------------------------------------------
\* The session is closed at the daemon, or stays as it is.
Closed == session' = "none" /\ busy' = FALSE /\ idle' = 0
MaybeClosed == Closed \/ UNCHANGED sessionVars

\* The relay's side of the session is over.
Dropped == conn' = "dead" /\ ping' = "no" /\ beat' = 0

\* connect, once: the frontend's struct keeps the backend, or failed.
Connect ==
  /\ relay /\ conn = "none" /\ daemon /\ policy.letIn
  /\ conn' = "live" /\ session' = "open"
  /\ UNCHANGED <<processVars, busy, idle, beatVars>>

\* No daemon, not let in, no free slot; or the answer to the initialize
\* request is lost and the daemon has a session that nobody uses.
ConnectFails ==
  /\ relay /\ conn = "none" /\ Dropped
  /\ \/ session' = "none"
     \/ daemon /\ policy.letIn /\ session' = "open"
  /\ UNCHANGED <<processVars, busy, idle>>

CallBegins ==
  /\ conn = "live" /\ session = "open" /\ ~busy
  /\ busy' = TRUE /\ idle' = 0
  /\ UNCHANGED <<processVars, conn, session, beatVars>>

\* With a result, an error, or at the daemon's deadline.
CallEnds ==
  /\ busy /\ busy' = FALSE /\ idle' = 0
  /\ UNCHANGED <<processVars, conn, session, beatVars>>

\* A call that finds no session ends the connection.
CallLost ==
  /\ conn = "live" /\ session = "none" /\ Dropped
  /\ UNCHANGED <<processVars, sessionVars>>

Beat ==
  /\ Beats /\ conn = "live" /\ ping = "no" /\ beat >= KeepAlive - Late
  /\ ping' = "sent" /\ beat' = 0
  /\ UNCHANGED <<processVars, conn, sessionVars>>

\* Any request restarts the idle timer.
PingArrives ==
  /\ ping = "sent" /\ session = "open"
  /\ ping' = "arrived" /\ idle' = 0
  /\ UNCHANGED <<processVars, conn, session, busy, beat>>

PingAnswered ==
  /\ ping = "arrived" /\ ping' = "no"
  /\ UNCHANGED <<processVars, conn, sessionVars, beat>>

\* Refused, lost or late: the loop closes the relay's session and tries to
\* tell the daemon.
PingFails ==
  /\ ping # "no" /\ Dropped /\ MaybeClosed
  /\ UNCHANGED processVars

\* The client closes stdin or a signal comes; or the process is killed.
RelayEnds ==
  /\ relay /\ relay' = FALSE /\ Dropped /\ MaybeClosed
  /\ UNCHANGED <<policy, seconds, limit, daemon>>

DaemonStops ==
  /\ daemon /\ daemon' = FALSE /\ Closed
  /\ UNCHANGED <<policy, seconds, limit, relay, conn, beatVars>>

DaemonStarts ==
  /\ ~daemon /\ policy.serves /\ daemon' = TRUE
  /\ limit' \in IdleSeconds
  /\ UNCHANGED <<policy, seconds, relay, conn, sessionVars, beatVars>>

\* The idle timer runs between requests.
Idling == SessionTimeout > 0 /\ session = "open" /\ ~busy
Expire ==
  /\ Idling /\ idle >= SessionTimeout
  /\ Closed
  /\ UNCHANGED <<processVars, conn, beatVars>>

\* Time does not pass a timer that is due.
Tick ==
  /\ Idling => idle < SessionTimeout + Late
  /\ conn = "live" /\ Beats => beat < Late + (IF ping = "no" THEN KeepAlive ELSE PingTimeout)
  /\ idle' = (IF Idling THEN idle + 1 ELSE idle)
  /\ beat' = (IF conn = "live" /\ Beats THEN beat + 1 ELSE beat)
  /\ UNCHANGED <<processVars, conn, session, busy, ping>>

Next ==
  \/ Connect \/ ConnectFails \/ CallBegins \/ CallEnds \/ CallLost
  \/ Beat \/ PingArrives \/ PingAnswered \/ PingFails
  \/ RelayEnds \/ DaemonStops \/ DaemonStarts \/ Expire \/ Tick

Spec == Init /\ [][Next]_vars

\* Clocks run, timers fire, and the daemon's calls have a deadline.
Fairness ==
  WF_vars(Tick) /\ WF_vars(Beat) /\ WF_vars(PingFails) /\ WF_vars(Expire) /\ WF_vars(CallEnds)
FairSpec == Spec /\ Fairness

-----------------------------------------------------------------------------
TypeOK ==
  /\ policy \in Outcomes
  /\ seconds \in IdleSeconds /\ limit \in IdleSeconds
  /\ daemon \in BOOLEAN /\ relay \in BOOLEAN /\ busy \in BOOLEAN
  /\ conn \in {"none", "live", "dead"} /\ session \in {"none", "open"}
  /\ ping \in {"no", "sent", "arrived"} /\ idle \in Nat /\ beat \in Nat

\* The daemon never finds idle, and closes, the session of a relay whose
\* connection is live: the interval relayTarget computes beats the idle timer
\* at every configured value, with the pings and the timers late
\* (architecture.md: live relays send heartbeats); unless the daemon was
\* started with a shorter idle_seconds than the relay.
HeartbeatHolds ==
  session = "open" /\ conn = "live" /\ ~busy /\ limit >= seconds => idle < SessionTimeout

\* A relay that starts is served by the daemon of the same policy that runs
\* with the same secret and allows its listen address: what relayTarget asks
\* for and what Validate, Middleware, the HTTP front and dial ask for agree.
RelayLetIn ==
  policy.relays /\ policy.serves /\ policy.agree => policy.letIn

\* No process serves an endpoint to callers that attach then refuses for want
\* of a principal: stdio refuses shared endpoints, relayTarget makes its own
\* private, and every caller Middleware lets in has a user.
NobodyShutOut == policy.shutOut = {}

\* A session whose relay is gone, was dropped or never learnt of it does not
\* stay at the daemon (architecture.md: closing the relay stops heartbeats).
OrphanReclaimed == (session = "open" /\ conn # "live") ~> session = "none"

\* A relay notices that the daemon lost its session, by a restart or because
\* of a shorter idle_seconds, without a call of its client.
LossNoticed == (conn = "live" /\ session = "none") ~> conn # "live"
=============================================================================
