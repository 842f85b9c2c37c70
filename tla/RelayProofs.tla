---------------------------- MODULE RelayProofs ----------------------------
(***************************************************************************)
(* Of Relay, for every set of idle timeouts, unit of time and lateness     *)
(* that RelayAssumption allows: the heartbeat keeps the session, and the   *)
(* processes' own checks agree on who is let in.                           *)
(***************************************************************************)
EXTENDS Relay, TLAPS

\* The arithmetic: a tick, the ping it sends and their lateness fit into the
\* idle timeout.
LEMMA Margins ==
  ASSUME seconds \in IdleSeconds, limit \in IdleSeconds
  PROVE  /\ KeepAlive \in Nat \ {0} /\ PingTimeout \in Nat /\ SessionTimeout \in Nat \ {0}
         /\ PingTimeout <= KeepAlive
         /\ limit >= seconds => KeepAlive + PingTimeout + 2 * Late < SessionTimeout
<1> DEFINE idleTime == seconds * Second
<1>1. /\ seconds \in Nat \ {0} /\ limit \in Nat \ {0} /\ Second \in Nat \ {0}
      /\ MinBeat \in Nat \ {0} /\ Late \in Nat
      /\ 3 * MinBeat <= Second /\ 4 * Late < idleTime
  BY RelayAssumption
<1>2. idleTime \in Nat /\ idleTime >= Second
  BY <1>1, SMT
<1>3. SessionTimeout \in Nat \ {0}
  BY <1>1, SMT DEF SessionTimeout
<1>4. limit >= seconds => SessionTimeout >= idleTime
  BY <1>1, SMT DEF SessionTimeout
<1> HIDE DEF idleTime
<1>5. \A i, k \in Nat : 3 * MinBeat <= i /\ (k = MinBeat \/ k = i \div 3) /\ 4 * Late < i
                        => k + k \div 2 + 2 * Late < i /\ k \div 2 <= k
  BY <1>1, SMT
<1>6. KeepAlive = MinBeat \/ KeepAlive = idleTime \div 3
  BY DEF KeepAlive, idleTime
<1>7. KeepAlive \in Nat \ {0}
  <2>1. idleTime \div 3 \in Nat
    BY <1>2, SMT
  <2>2. IF MinBeat > idleTime \div 3 THEN KeepAlive = MinBeat ELSE KeepAlive = idleTime \div 3
    BY DEF KeepAlive, idleTime
  <2> QED BY <1>1, <2>1, <2>2
<1>8. PingTimeout = KeepAlive \div 2
  BY DEF PingTimeout
<1>9. PingTimeout \in Nat
  BY <1>7, <1>8, SMT
<1>10. KeepAlive + PingTimeout + 2 * Late < idleTime /\ PingTimeout <= KeepAlive
  BY <1>1, <1>2, <1>5, <1>6, <1>7, <1>8, SMT
<1> QED
  BY <1>1, <1>2, <1>3, <1>4, <1>7, <1>9, <1>10, SMT

\* The pings are no further apart than a tick and its lateness; until one has
\* arrived, the session's last request may be the one before it.
Timing ==
  /\ conn = "none" => session = "none" /\ beat = 0
  /\ session = "none" => ~busy /\ idle = 0
  /\ conn # "live" => ping = "no"
  /\ conn = "live" => beat <= Late + (IF ping = "no" THEN KeepAlive ELSE PingTimeout)
  /\ conn = "live" /\ session = "open" /\ ~busy =>
       idle <= beat + (IF ping = "sent" THEN KeepAlive + Late ELSE 0)

IInv == TypeOK /\ Timing

\* Every step keeps the types: sessions, pings and clocks.
LEMMA TypeStep == TypeOK /\ [Next]_vars => TypeOK'
<1> SUFFICES ASSUME TypeOK, [Next]_vars PROVE TypeOK'
  OBVIOUS
<1> USE DEF TypeOK, vars, processVars, sessionVars, beatVars, Closed, MaybeClosed, Dropped
<1>1. CASE Connect       BY <1>1 DEF Connect
<1>2. CASE ConnectFails  BY <1>2 DEF ConnectFails
<1>3. CASE CallBegins    BY <1>3 DEF CallBegins
<1>4. CASE CallEnds      BY <1>4 DEF CallEnds
<1>5. CASE CallLost      BY <1>5 DEF CallLost
<1>6. CASE Beat          BY <1>6 DEF Beat
<1>7. CASE PingArrives   BY <1>7 DEF PingArrives
<1>8. CASE PingAnswered  BY <1>8 DEF PingAnswered
<1>9. CASE PingFails
  <2>1. CASE Closed BY <1>9, <2>1 DEF PingFails
  <2>2. CASE UNCHANGED sessionVars BY <1>9, <2>2 DEF PingFails
  <2> QED BY <1>9, <2>1, <2>2 DEF PingFails
<1>10. CASE RelayEnds
  <2>1. CASE Closed BY <1>10, <2>1 DEF RelayEnds
  <2>2. CASE UNCHANGED sessionVars BY <1>10, <2>2 DEF RelayEnds
  <2> QED BY <1>10, <2>1, <2>2 DEF RelayEnds
<1>11. CASE DaemonStops  BY <1>11 DEF DaemonStops
<1>12. CASE DaemonStarts BY <1>12 DEF DaemonStarts
<1>13. CASE Expire       BY <1>13 DEF Expire
<1>14. CASE Tick         BY <1>14 DEF Tick
<1>15. CASE UNCHANGED vars BY <1>15
<1> QED
  BY <1>1, <1>2, <1>3, <1>4, <1>5, <1>6, <1>7, <1>8, <1>9, <1>10, <1>11, <1>12, <1>13,
     <1>14, <1>15 DEF Next

LEMMA TimingStep == IInv /\ [Next]_vars => Timing'
<1> SUFFICES ASSUME TypeOK, Timing, [Next]_vars PROVE Timing'
  BY DEF IInv
<1>0. seconds' = seconds /\ KeepAlive' = KeepAlive /\ PingTimeout' = PingTimeout
  BY DEF Next, vars, processVars, Connect, ConnectFails, CallBegins, CallEnds, CallLost,
         Beat, PingArrives, PingAnswered, PingFails, RelayEnds, DaemonStops, DaemonStarts,
         Expire, Tick, KeepAlive, PingTimeout
<1>m. /\ KeepAlive \in Nat \ {0} /\ PingTimeout \in Nat /\ SessionTimeout \in Nat \ {0}
      /\ Late \in Nat /\ PingTimeout <= KeepAlive
  BY Margins, RelayAssumption DEF TypeOK
<1> USE <1>0, <1>m DEF TypeOK, Timing, vars, processVars, sessionVars, beatVars, Closed,
        MaybeClosed, Dropped
<1>1. CASE Connect       BY <1>1 DEF Connect
<1>2. CASE ConnectFails  BY <1>2 DEF ConnectFails
<1>3. CASE CallBegins    BY <1>3 DEF CallBegins
<1>4. CASE CallEnds      BY <1>4 DEF CallEnds
<1>5. CASE CallLost      BY <1>5 DEF CallLost
<1>6. CASE Beat          BY <1>6 DEF Beat
<1>7. CASE PingArrives   BY <1>7 DEF PingArrives
<1>8. CASE PingAnswered  BY <1>8 DEF PingAnswered
<1>9. CASE PingFails     BY <1>9 DEF PingFails
<1>10. CASE RelayEnds    BY <1>10 DEF RelayEnds
<1>11. CASE DaemonStops  BY <1>11 DEF DaemonStops
<1>12. CASE DaemonStarts BY <1>12 DEF DaemonStarts
<1>13. CASE Expire       BY <1>13 DEF Expire
<1>14. CASE Tick         BY <1>14 DEF Tick, Idling, Beats
<1>15. CASE UNCHANGED vars BY <1>15
<1> QED
  BY <1>1, <1>2, <1>3, <1>4, <1>5, <1>6, <1>7, <1>8, <1>9, <1>10, <1>11, <1>12, <1>13,
     <1>14, <1>15 DEF Next

LEMMA InitIInv == Init => IInv
<1> SUFFICES ASSUME Init PROVE IInv
  OBVIOUS
<1>1. policy \in Outcomes
  <2>1. PICK c \in Policies, e \in Environments, f \in Environments : policy = Start(c, e, f)
    BY DEF Init
  <2>2. /\ Start(c, e, f).serves \in BOOLEAN /\ Start(c, e, f).relays \in BOOLEAN
        /\ Start(c, e, f).agree \in BOOLEAN /\ Start(c, e, f).letIn \in BOOLEAN
    BY DEF Start, Protects, Relays, Admits
  <2>3. Start(c, e, f).shutOut \in SUBSET {"serve", "stdio", "relay"}
    BY DEF Start
  <2> QED
    BY <2>1, <2>2, <2>3 DEF Start, Outcomes
<1>2. daemon \in BOOLEAN /\ relay \in BOOLEAN
  BY <1>1 DEF Init, Outcomes
<1>3. /\ seconds \in IdleSeconds /\ limit \in IdleSeconds /\ conn = "none" /\ session = "none" /\ busy = FALSE
      /\ idle = 0 /\ ping = "no" /\ beat = 0
  BY DEF Init
<1>4. Timing
  BY <1>3 DEF Timing
<1>5. TypeOK
  <2> HIDE DEF Init
  <2> QED BY <1>1, <1>2, <1>3 DEF TypeOK
<1> QED
  BY <1>4, <1>5 DEF IInv

\* The session of a live relay is never idle for the daemon's timeout.
THEOREM HeartbeatKeeps == Spec => []HeartbeatHolds
<1>1. IInv /\ [Next]_vars => IInv'
  BY TypeStep, TimingStep DEF IInv
<1>2. IInv => HeartbeatHolds
  <2> SUFFICES ASSUME IInv, session = "open", conn = "live", ~busy, limit >= seconds
               PROVE  idle < SessionTimeout
    BY DEF HeartbeatHolds
  <2>1. /\ KeepAlive \in Nat /\ PingTimeout \in Nat /\ SessionTimeout \in Nat /\ Late \in Nat
        /\ KeepAlive + PingTimeout + 2 * Late < SessionTimeout
    BY Margins, RelayAssumption DEF IInv, TypeOK
  <2>2. beat \in Nat /\ idle \in Nat
    BY DEF IInv, TypeOK
  <2> QED
    BY <2>1, <2>2 DEF IInv, Timing
<1> QED
  BY InitIInv, <1>1, <1>2, PTL DEF Spec

-----------------------------------------------------------------------------
(* The policy is read once: what holds of every policy file and every pair *)
(* of environments holds for ever.                                         *)

LEMMA PolicyStays == [Next]_vars => UNCHANGED policy
  BY DEF Next, vars, processVars, Connect, ConnectFails, CallBegins, CallEnds, CallLost,
         Beat, PingArrives, PingAnswered, PingFails, RelayEnds, DaemonStops, DaemonStarts,
         Expire, Tick

\* The secret that relayTarget and Middleware both accept gets the relay
\* past the HTTP front, and dial keeps the session it gets.
LEMMA SecretLetsIn ==
  ASSUME NEW c, NEW e, NEW f, Relays(c, f), Protects(c, e), e.secret = f.secret,
         "listen" \in AllowedHosts(c)
  PROVE  Admits(c, e, RelayRequest(f)) /\ Accepts(RelayServer(c.server), DaemonBackend)
<1>1. Principal(c, e, RelayRequest(f)) = "static-bearer"
  BY DEF Principal, RelayRequest, Relays
<1>2. Admits(c, e, RelayRequest(f))
  BY <1>1 DEF Admits, RelayRequest, NoPrincipal
<1>3. Accepts(RelayServer(c.server), DaemonBackend)
  BY DEF Accepts, Handshake, DaemonBackend
<1> QED
  BY <1>2, <1>3

\* A relay that starts is let in by the daemon of the same policy and secret.
THEOREM RelayIsLetIn == Spec => []RelayLetIn
<1>1. Init => RelayLetIn
  <2> SUFFICES ASSUME Init, policy.relays, policy.serves, policy.agree PROVE policy.letIn
    BY DEF RelayLetIn
  <2>1. PICK c \in Policies, e \in Environments, f \in Environments : policy = Start(c, e, f)
    BY DEF Init
  <2>2. /\ Relays(c, f) /\ Protects(c, e)
        /\ e.secret = f.secret /\ "listen" \in AllowedHosts(c)
    BY <2>1 DEF Start
  <2> QED
    BY <2>1, <2>2, SecretLetsIn DEF Start
<1>2. RelayLetIn /\ [Next]_vars => RelayLetIn'
  BY PolicyStays DEF RelayLetIn
<1> QED
  BY <1>1, <1>2, PTL DEF Spec

\* Whoever gets as far as an endpoint may attach to its backend.
LEMMA DoorsOpen ==
  ASSUME NEW c \in Policies, NEW e, NEW f
  PROVE  Start(c, e, f).shutOut = {}
<1>1. ASSUME NEW r, Admits(c, e, r) PROVE MayAttach(c.server, Principal(c, e, r))
  <2>1. Shared(c.server) => c.server.stateless
    BY DEF Policies, Validate, ValidServer
  <2> QED
    BY <1>1, <2>1 DEF Admits, MayAttach
<1>2. ServesStdio(c) => MayAttach(c.server, NoPrincipal)
  BY DEF ServesStdio, MayAttach
<1>3. MayAttach(RelayServer(c.server), NoPrincipal)
  <2>1. c.server \in Servers
    BY DEF Policies, Configs
  <2>2. RelayServer(c.server).scope = "session"
    BY <2>1 DEF RelayServer, Servers
  <2> QED
    BY <2>2 DEF MayAttach, Shared
<1> QED
  BY <1>1, <1>2, <1>3 DEF Start

\* No process serves callers that the gateway then refuses a backend.
THEOREM NobodyIsShutOut == Spec => []NobodyShutOut
<1>1. Init => NobodyShutOut
  BY DoorsOpen DEF Init, NobodyShutOut
<1>2. NobodyShutOut /\ [Next]_vars => NobodyShutOut'
  BY PolicyStays DEF NobodyShutOut
<1> QED
  BY <1>1, <1>2, PTL DEF Spec
=============================================================================
