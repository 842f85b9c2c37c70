--------------------------- MODULE GatewayBackends ---------------------------
(***************************************************************************)
(* Whose backend a call reaches, and that none outlives its users: for any *)
(* number of frontends, handlers and principals and any limits.  Where a   *)
(* theorem takes Drains, it is because a handler that outlives its         *)
(* frontend's cleanup could start a backend that nobody closes any more.   *)
(***************************************************************************)
EXTENDS GatewayProofs

USE GatewayAssumption DEF GatewayAssumption

\* Places of a handler that has its session struct.
AtWork == Admitted \cup {"admit"}

\* A handler works with its own frontend's struct, the table leads to a
\* struct of the frontend, and a struct in use has one.
FrontsMatch ==
  /\ \A h \in Handlers : pc[h] \in AtWork => frontOf[state[h]] = from[h]
  /\ \A f \in Fronts : table[f] # None => frontOf[table[f]] = f /\ Registered(table[f])
  /\ \A s \in Sessions : reaper[s] # "none" => frontOf[s] \in Fronts

\* What a call goes through: the owner of the frontend's struct, or the
\* struct itself.
TargetsMatch ==
  \A h \in Handlers :
    /\ pc[h] \in {"attach", "attaching", "borrow"} => from[h] \in SharedFronts
    /\ pc[h] \in Borrowed \cup {"borrow"} =>
         target[h] = IF from[h] \in SharedFronts THEN owner[state[h]] ELSE state[h]

\* An owner is of the frontend's principal, now and ever after.
OwnersMatch ==
  \A s \in Sessions : owner[s] # None =>
    /\ frontOf[s] \in SharedFronts
    /\ key[owner[s]] = PrincipalOf[frontOf[s]] /\ key[owner[s]] # None

MatchInv == FrontsMatch /\ TargetsMatch /\ OwnersMatch

\* A frontend whose reaper has woken has no handler, and never gets one again.
GoneForGood ==
  \A s \in Sessions : reaper[s] \notin {"none", "waiting"} =>
    /\ frontOf[s] \notin open
    /\ \A h \in Handlers : from[h] # frontOf[s]

\* A struct that nobody uses yet is as get and attach make it.
UnusedIsClean ==
  /\ \A s \in Sessions : reaper[s] = "none" => backend[s] = "none"
  /\ \A e \in Entries : key[e] = None => backend[e] = "none" /\ ~failed[e]

\* A frontend of the shared endpoint has no backend of its own.
SharedHaveNone == \A s \in Sessions : frontOf[s] \in SharedFronts => backend[s] = "none"

\* A backend that is up has a reaper that has not come to it yet.
OwnHaveReaper == \A s \in Sessions : Up(s) => reaper[s] \in {"waiting", "woken", "holding"}
EntriesHaveReaper ==
  \A e \in Entries : Up(e) => \E s \in Sessions : Attached(s, e) \/ Dying(s, e)

UpInv == UnusedIsClean /\ SharedHaveNone /\ OwnHaveReaper /\ EntriesHaveReaper

ClosedInv == phase = "closed" => ReapersDone

-----------------------------------------------------------------------------
(* MatchInv.                                                               *)

\* A handler that returns leaves the frontends and the pool as they are.
LEMMA ReturnMatch ==
  ASSUME TypeOK, MatchInv, NEW h \in Handlers, Return(h),
         UNCHANGED <<gatewayVars, reaperVars, poolVars>>
  PROVE  MatchInv'
  BY DEF TypeOK, MatchInv, FrontsMatch, TargetsMatch, OwnersMatch, Registered, AtWork, Admitted,
         Borrowed, Return, gatewayVars, reaperVars, poolVars

LEMMA AttachPoolMatch ==
  ASSUME TypeOK, LockInv, PoolInv, MatchInv,
         NEW h \in Handlers, NEW e \in Entries, AttachPool(h, e),
         NEW s, s = state[h], NEW p, p = Principal(h)
  PROVE  MatchInv'
<1>1. /\ s \in Sessions /\ p \in Principals /\ pc[h] = "attaching"
      /\ owner[s] = None /\ frontOf[s] = from[h] /\ from[h] \in SharedFronts
  BY DEF AttachPool, TypeOK, PoolInv, OwnersInTime, Principal, MatchInv, FrontsMatch,
         TargetsMatch, Admitted, AtWork
<1>2. /\ owner' = [owner EXCEPT ![s] = e] /\ key' = [key EXCEPT ![e] = p]
      /\ pc' = [pc EXCEPT ![h] = "borrow"] /\ target' = [target EXCEPT ![h] = e]
      /\ UNCHANGED <<table, reaper, frontOf, state, from>>
  BY DEF AttachPool, gatewayVars, reaperVars
<1>3. key[e] = p \/ key[e] = None
  BY <1>1, FreshIsIn DEF AttachPool, EntryFor, FreshEntry, PoolInv, PooledIsUsed
<1>4. FrontsMatch'
  BY <1>1, <1>2 DEF MatchInv, FrontsMatch, Registered, AtWork, Admitted, TypeOK
<1>5. TargetsMatch'
  <2> SUFFICES ASSUME NEW g \in Handlers
               PROVE  /\ pc'[g] \in {"attach", "attaching", "borrow"} => from[g] \in SharedFronts
                      /\ pc'[g] \in Borrowed \cup {"borrow"} =>
                           target'[g] = IF from[g] \in SharedFronts THEN owner'[state[g]]
                                        ELSE state[g]
    BY <1>2 DEF TargetsMatch
  <2>1. CASE g = h
    BY <1>1, <1>2, <2>1 DEF TypeOK, Borrowed
  <2>2. ASSUME g # h, pc[g] \in Borrowed \cup {"borrow"}, from[g] \in SharedFronts
        PROVE  state[g] # s
    <3>1. target[g] = owner[state[g]] /\ target[g] # None
      BY <2>2 DEF MatchInv, TargetsMatch, TypeOK, Borrowed
    <3> QED
      BY <1>1, <3>1
  <2>3. CASE g # h
    <3>1. pc'[g] = pc[g] /\ target'[g] = target[g]
      BY <1>2, <2>3 DEF TypeOK
    <3>2. state[g] # s => owner'[state[g]] = owner[state[g]]
      BY <1>2 DEF TypeOK
    <3> QED
      BY <2>2, <2>3, <3>1, <3>2 DEF MatchInv, TargetsMatch, TypeOK, Borrowed
  <2> QED
    BY <2>1, <2>3
<1>6. OwnersMatch'
  <2> SUFFICES ASSUME NEW t \in Sessions, owner'[t] # None
               PROVE  /\ frontOf[t] \in SharedFronts
                      /\ key'[owner'[t]] = PrincipalOf[frontOf[t]] /\ key'[owner'[t]] # None
    BY <1>2 DEF OwnersMatch
  <2>1. CASE t = s
    <3>1. owner'[t] = e /\ key'[e] = p
      BY <1>1, <1>2, <2>1 DEF TypeOK
    <3> QED
      BY <1>1, <2>1, <3>1 DEF Principal
  <2>2. CASE t # s
    <3>1. owner'[t] = owner[t] /\ owner[t] \in Entries
      BY <1>2, <2>2 DEF TypeOK
    <3>2. key'[owner[t]] = key[owner[t]]
      BY <1>2, <1>3, <3>1 DEF TypeOK, MatchInv, OwnersMatch
    <3> QED
      BY <3>1, <3>2 DEF MatchInv, OwnersMatch
  <2> QED
    BY <2>1, <2>2
<1> QED
  BY <1>4, <1>5, <1>6 DEF MatchInv

LEMMA HandleMatch ==
  ASSUME TypeOK, LockInv, PoolInv, MatchInv, NEW h \in Handlers, Handle(h)
  PROVE  MatchInv'
<1> USE DEF TypeOK, MatchInv, FrontsMatch, TargetsMatch, OwnersMatch, Registered, AtWork,
            Admitted, Borrowed, gatewayVars, reaperVars, poolVars
<1>1. CASE GetRefused(h) \/ Reply(h) \/ AttachRefused(h) \/ BorrowRefused(h)
           \/ ConnectRefused(h) \/ DialFail(h) \/ Respond(h)
  BY <1>1, ReturnMatch DEF GetRefused, Reply, AttachRefused, BorrowRefused, ConnectRefused,
                           DialFail, Respond
<1>2. CASE GetKnown(h)
  BY <1>2 DEF GetKnown, SessionOf
<1>3. ASSUME NEW s \in Sessions, GetFresh(h, s) PROVE MatchInv'
  <2>1. reaper[s] = "none" /\ owner[s] = None
    BY <1>3, FreshIsIn DEF GetFresh, FreshSession, PoolInv, OwnersInTime
  <2>2. \A g \in Handlers : pc[g] \in AtWork => state[g] # s
    BY <2>1 DEF LockInv, HandlerReapers
  <2> QED
    BY <1>3, <2>1, <2>2 DEF GetFresh
<1>4. CASE Admit(h)
  BY <1>4 DEF Admit
<1>5. CASE AttachKnown(h)
  BY <1>5 DEF AttachKnown, HasOwner
<1>6. CASE AttachLock(h)
  BY <1>6 DEF AttachLock
<1>7. ASSUME NEW e \in Entries, AttachPool(h, e) PROVE MatchInv'
  BY <1>7, AttachPoolMatch
<1>8. CASE Borrow(h) \/ ConnectKnown(h) \/ Dial(h) \/ DialOk(h)
  BY <1>8 DEF Borrow, ConnectKnown, Dial, DialOk
<1> QED
  BY <1>1, <1>2, <1>3, <1>4, <1>5, <1>6, <1>7, <1>8 DEF Handle

LEMMA OtherMatch ==
  ASSUME TypeOK, SlotInv, MatchInv,
         \/ \E s \in Sessions : Reap(s)
         \/ Close \/ Environment \/ UNCHANGED vars
  PROVE  MatchInv'
<1> USE DEF TypeOK, MatchInv, FrontsMatch, TargetsMatch, OwnersMatch, Registered, AtWork,
            Admitted, Borrowed, gatewayVars, reaperVars, poolVars, handlerVars
<1>1. ASSUME NEW s \in Sessions,
             \/ Wake(s) \/ ReapLock(s) \/ ReapOwn(s) \/ ReleaseOne(s) \/ ReleaseLast(s)
             \/ ReapEntryLock(s) \/ ReapEntry(s)
      PROVE MatchInv'
  <2>1. reaper[s] # "none" /\ \E r \in {"woken", "holding", "last", "reaping", "cleaned"} :
                                  reaper' = [reaper EXCEPT ![s] = r]
    BY <1>1 DEF Wake, ReapLock, ReapOwn, ReleaseOne, ReleaseLast, ReapEntryLock, ReapEntry
  <2>2. UNCHANGED <<table, frontOf, owner, key, handlerVars>>
    BY <1>1 DEF Wake, ReapLock, ReapOwn, ReleaseOne, ReleaseLast, ReapEntryLock, ReapEntry
  <2> QED
    BY <2>1, <2>2
<1>2. ASSUME NEW s \in Sessions, Forget(s) PROVE MatchInv'
  BY <1>2 DEF Forget, SlotInv, TableLeadsBack
<1>3. CASE Close
  BY <1>3 DEF Close, CloseBegin, CloseFront, CloseFrontDone, CloseReturn
<1>4. ASSUME NEW h \in Handlers, NEW f \in Fronts, Arrive(h, f) PROVE MatchInv'
  BY <1>4 DEF Arrive
<1>5. CASE (\E f \in Fronts : Disconnect(f)) \/ (\E h \in Handlers : Expire(h))
           \/ (\E o \in Structs : Crash(o)) \/ UNCHANGED vars
  BY <1>5 DEF Disconnect, Expire, Crash, vars
<1> QED
  BY <1>1, <1>2, <1>3, <1>4, <1>5 DEF Reap, Environment
LEMMA MatchInvariant == Spec => []MatchInv
<1>1. Init => MatchInv
  BY DEF Init, MatchInv, FrontsMatch, TargetsMatch, OwnersMatch, AtWork, Admitted, Borrowed
<1>2. TypeOK /\ LockInv /\ PoolInv /\ SlotInv /\ MatchInv /\ [Next]_vars => MatchInv'
  BY HandleMatch, OtherMatch DEF Next
<1> QED
  BY <1>1, <1>2, TypeCorrect, LockInvariant, PoolInvariant, SlotInvariant, PTL DEF Spec

\* However calls and cleanups interleave, and however late handlers are, a
\* call only goes through a struct of its own frontend or, in shared scope,
\* through the one that the pool has for its principal (bridge.go:208-228,
\* shared.go:37-47).
THEOREM CallsIsolated == Spec => []Isolation
<1>1. TypeOK /\ MatchInv => Isolation
  <2> SUFFICES ASSUME TypeOK, MatchInv, NEW h \in Handlers, pc[h] \in Borrowed
               PROVE  IF from[h] \in SharedFronts
                      THEN /\ target[h] \in Entries
                           /\ key[target[h]] = Principal(h) /\ Principal(h) # None
                      ELSE target[h] \in Sessions /\ frontOf[target[h]] = from[h]
    BY DEF Isolation
  <2>1. state[h] \in Sessions /\ frontOf[state[h]] = from[h] /\ target[h] # None
    BY DEF TypeOK, MatchInv, FrontsMatch, AtWork, Admitted, Borrowed
  <2>2. target[h] = IF from[h] \in SharedFronts THEN owner[state[h]] ELSE state[h]
    BY DEF MatchInv, TargetsMatch
  <2>3. CASE from[h] \in SharedFronts
    BY <2>1, <2>2, <2>3 DEF TypeOK, MatchInv, OwnersMatch, Principal
  <2>4. CASE from[h] \notin SharedFronts
    BY <2>1, <2>2, <2>4
  <2> QED
    BY <2>3, <2>4
<1> QED
  BY <1>1, TypeCorrect, MatchInvariant, PTL

-----------------------------------------------------------------------------
(* GoneForGood, which takes Drains.                                        *)

LEMMA HandleGone ==
  ASSUME TypeOK, LockInv, MatchInv, GoneForGood, NEW h \in Handlers, Handle(h)
  PROVE  GoneForGood'
<1>1. \A g \in Handlers : from'[g] \in {from[g], None}
  BY DEF Handle, GetRefused, GetKnown, GetFresh, Reply, Admit, AttachRefused, AttachKnown,
         AttachLock, AttachPool, Borrow, BorrowRefused, ConnectRefused, ConnectKnown, Dial,
         DialOk, DialFail, Respond, Return, TypeOK
<1>2. open' = open
  BY DEF Handle, GetRefused, GetKnown, GetFresh, Reply, Admit, AttachRefused, AttachKnown,
         AttachLock, AttachPool, Borrow, BorrowRefused, ConnectRefused, ConnectKnown, Dial,
         DialOk, DialFail, Respond, gatewayVars
<1>3. \A s \in Sessions : reaper'[s] \notin {"none", "waiting"} =>
        reaper[s] \notin {"none", "waiting"} /\ frontOf'[s] = frontOf[s]
  <2>1. ASSUME NEW t \in Sessions, GetFresh(h, t)
        PROVE  reaper' = [reaper EXCEPT ![t] = "waiting"] /\ \A s \in Sessions \ {t} : frontOf'[s] = frontOf[s]
    BY <2>1 DEF GetFresh, TypeOK
  <2>2. CASE UNCHANGED reaperVars
    BY <2>2 DEF reaperVars
  <2> QED
    BY <2>1, <2>2
       DEF Handle, GetRefused, GetKnown, Reply, Admit, AttachRefused, AttachKnown, AttachLock,
           AttachPool, Borrow, BorrowRefused, ConnectRefused, ConnectKnown, Dial, DialOk,
           DialFail, Respond, TypeOK
<1> QED
  BY <1>1, <1>2, <1>3 DEF GoneForGood, MatchInv, FrontsMatch

LEMMA OtherGone ==
  ASSUME Drains, TypeOK, GoneForGood,
         \/ \E s \in Sessions : Reap(s)
         \/ Close \/ Environment \/ UNCHANGED vars
  PROVE  GoneForGood'
<1> USE DEF TypeOK, GoneForGood, gatewayVars, reaperVars, handlerVars
<1>1. ASSUME NEW s \in Sessions, Wake(s) PROVE GoneForGood'
  BY <1>1 DEF Wake
<1>2. ASSUME NEW s \in Sessions,
             \/ ReapLock(s) \/ ReapOwn(s) \/ ReleaseOne(s) \/ ReleaseLast(s)
             \/ ReapEntryLock(s) \/ ReapEntry(s) \/ Forget(s)
      PROVE GoneForGood'
  <2>1. UNCHANGED <<open, frontOf, from>> /\ reaper[s] \notin {"none", "waiting"}
    BY <1>2 DEF ReapLock, ReapOwn, ReleaseOne, ReleaseLast, ReapEntryLock, ReapEntry, Forget
  <2>2. \A t \in Sessions \ {s} : reaper'[t] = reaper[t]
    BY <1>2 DEF ReapLock, ReapOwn, ReleaseOne, ReleaseLast, ReapEntryLock, ReapEntry, Forget
  <2> QED
    BY <2>1, <2>2
<1>3. CASE Close
  BY <1>3 DEF Close, CloseBegin, CloseFront, CloseFrontDone, CloseReturn
<1>4. CASE Environment
  BY <1>4 DEF Environment, Arrive, Disconnect, Expire, Crash
<1>5. CASE UNCHANGED vars
  BY <1>5 DEF vars
<1> QED
  BY <1>1, <1>2, <1>3, <1>4, <1>5 DEF Reap

LEMMA GoneInvariant == ASSUME Drains PROVE Spec => []GoneForGood
<1>1. Init => GoneForGood
  BY DEF Init, GoneForGood
<1>2. TypeOK /\ LockInv /\ MatchInv /\ GoneForGood /\ [Next]_vars => GoneForGood'
  BY HandleGone, OtherGone DEF Next
<1> QED
  BY <1>1, <1>2, TypeCorrect, LockInvariant, MatchInvariant, PTL DEF Spec

\* A handler at work keeps its frontend's reaper waiting ...
LEMMA WorkWaits ==
  ASSUME TypeOK, LockInv, MatchInv, GoneForGood, NEW h \in Handlers, pc[h] \in AtWork
  PROVE  state[h] \in Sessions /\ reaper[state[h]] = "waiting" /\ frontOf[state[h]] = from[h]
<1>1. state[h] \in Sessions /\ reaper[state[h]] # "none" /\ frontOf[state[h]] = from[h]
  BY DEF TypeOK, AtWork, LockInv, HandlerReapers, MatchInv, FrontsMatch
<1> QED
  BY <1>1 DEF GoneForGood

\* ... so that what it calls through has a user, or is its own.
LEMMA TargetIsUsed ==
  ASSUME TypeOK, LockInv, MatchInv, GoneForGood, NEW h \in Handlers, pc[h] \in Borrowed
  PROVE  \/ /\ from[h] \in SharedFronts /\ target[h] \in Entries
            /\ Attached(state[h], target[h])
         \/ from[h] \notin SharedFronts /\ target[h] = state[h]
<1>1. state[h] \in Sessions /\ reaper[state[h]] = "waiting"
  BY WorkWaits DEF AtWork, Admitted, Borrowed
<1>2. /\ target[h] # None
      /\ target[h] = IF from[h] \in SharedFronts THEN owner[state[h]] ELSE state[h]
  BY DEF TypeOK, MatchInv, TargetsMatch
<1> QED
  BY <1>1, <1>2 DEF Attached, TypeOK
-----------------------------------------------------------------------------
(* UpInv, which takes GoneForGood.                                         *)

\* A step that gives nobody a backend and no user of the pool away.
SameUp ==
  /\ \A o \in Structs : backend'[o] = backend[o] /\ failed'[o] = failed[o]
  /\ \A e \in Entries : key'[e] = None => key[e] = None
  /\ \A s \in Sessions :
       /\ reaper'[s] = "none" => reaper[s] = "none"
       /\ frontOf'[s] \in SharedFronts => frontOf[s] \in SharedFronts \/ reaper[s] = "none"
       /\ Up(s) /\ reaper[s] \in {"waiting", "woken", "holding"}
            => reaper'[s] \in {"waiting", "woken", "holding"}
  /\ \A e \in Entries, s \in Sessions :
       Attached(s, e) \/ Dying(s, e) => Attached(s, e)' \/ Dying(s, e)'

LEMMA SameUpInv == ASSUME UpInv, SameUp PROVE UpInv'
<1>1. UnusedIsClean' /\ SharedHaveNone' /\ OwnHaveReaper'
  BY DEF UpInv, SameUp, UnusedIsClean, SharedHaveNone, OwnHaveReaper, Up, Structs
<1>2. EntriesHaveReaper'
  BY DEF UpInv, SameUp, EntriesHaveReaper, Up, Structs
<1> QED
  BY <1>1, <1>2 DEF UpInv

\* A dial gives a backend, or its failure, to a struct that has users.
LEMMA DialUp ==
  ASSUME TypeOK, LockInv, PoolInv, MatchInv, GoneForGood, UpInv,
         NEW h \in Handlers, DialOk(h) \/ DialFail(h)
  PROVE  UpInv'
<1> DEFINE t == target[h]
<1>1. /\ pc[h] = "dialing" /\ t \in Structs
      /\ UNCHANGED <<reaper, frontOf, owner, key>>
      /\ \A o \in Structs \ {t} : backend'[o] = backend[o] /\ failed'[o] = failed[o]
  BY DEF DialOk, DialFail, TypeOK, Borrowed, reaperVars, poolVars
<1>2. \A s \in Sessions, e \in Entries :
        (Attached(s, e)' <=> Attached(s, e)) /\ (Dying(s, e)' <=> Dying(s, e))
  BY <1>1 DEF Attached, Dying
<1>3. CASE t \in Entries
  <2>1. \E s \in Sessions : Attached(s, t)
    BY <1>1, <1>3, TargetIsUsed, WorkWaits DEF Borrowed, AtWork, Admitted
  <2>2. key[t] # None
    BY <1>3, <2>1 DEF PoolInv, UsedIsPooled
  <2>3. \A s \in Sessions : backend'[s] = backend[s]
    BY <1>1, <1>3 DEF Structs
  <2>4. UnusedIsClean' /\ SharedHaveNone' /\ OwnHaveReaper'
    BY <1>1, <2>2, <2>3 DEF UpInv, UnusedIsClean, SharedHaveNone, OwnHaveReaper, Up, Structs
  <2>5. EntriesHaveReaper'
    BY <1>1, <1>2, <2>1 DEF UpInv, EntriesHaveReaper, Up, Structs
  <2> QED
    BY <2>4, <2>5 DEF UpInv
<1>4. CASE t \in Sessions
  <2>1. reaper[t] = "waiting" /\ frontOf[t] \notin SharedFronts
    BY <1>1, <1>4, TargetIsUsed, WorkWaits DEF Borrowed, AtWork, Admitted
  <2>2. \A e \in Entries : backend'[e] = backend[e] /\ failed'[e] = failed[e]
    BY <1>1, <1>4 DEF Structs
  <2>3. UnusedIsClean' /\ SharedHaveNone' /\ OwnHaveReaper'
    BY <1>1, <2>1, <2>2 DEF UpInv, UnusedIsClean, SharedHaveNone, OwnHaveReaper, Up, Structs
  <2>4. EntriesHaveReaper'
    BY <1>2, <2>2 DEF UpInv, EntriesHaveReaper, Up
  <2> QED
    BY <2>3, <2>4 DEF UpInv
<1> QED
  BY <1>1, <1>3, <1>4 DEF Structs

LEMMA HandleUp ==
  ASSUME TypeOK, LockInv, PoolInv, MatchInv, GoneForGood, UpInv, NEW h \in Handlers, Handle(h)
  PROVE  UpInv'
<1>1. CASE DialOk(h) \/ DialFail(h)
  BY <1>1, DialUp
<1>2. ASSUME NEW s \in Sessions, GetFresh(h, s) PROVE UpInv'
  <2>1. reaper[s] = "none" /\ owner[s] = None
    BY <1>2, FreshIsIn DEF GetFresh, FreshSession, PoolInv, OwnersInTime
  <2>2. SameUp
    BY <1>2, <2>1 DEF GetFresh, SameUp, Attached, Dying, TypeOK, structVars, poolVars
  <2> QED
    BY <2>2, SameUpInv
<1>3. ASSUME NEW e \in Entries, AttachPool(h, e) PROVE UpInv'
  <2>1. Principal(h) # None /\ owner[state[h]] = None /\ state[h] \in Sessions
    BY <1>3 DEF AttachPool, PoolInv, OwnersInTime, TypeOK, Admitted
  <2>2. SameUp
    BY <1>3, <2>1 DEF AttachPool, SameUp, Attached, Dying, TypeOK, reaperVars
  <2> QED
    BY <2>2, SameUpInv
<1>4. CASE UNCHANGED <<backend, failed, reaperVars, poolVars>>
  <2>1. SameUp
    BY <1>4 DEF SameUp, Attached, Dying, reaperVars, poolVars
  <2> QED
    BY <2>1, SameUpInv
<1> QED
  BY <1>1, <1>2, <1>3, <1>4
     DEF Handle, GetRefused, GetKnown, Reply, Admit, AttachRefused, AttachKnown, AttachLock,
         Borrow, BorrowRefused, ConnectRefused, ConnectKnown, Dial, Respond, structVars

LEMMA ReapUp ==
  ASSUME TypeOK, LockInv, PoolInv, MatchInv, UpInv, NEW s \in Sessions, Reap(s)
  PROVE  UpInv'
<1>1. CASE Wake(s) \/ ReapLock(s) \/ ReapEntryLock(s)
  <2>1. SameUp
    BY <1>1 DEF Wake, ReapLock, ReapEntryLock, SameUp, Attached, Dying, TypeOK, poolVars, UpInv, OwnHaveReaper
  <2> QED
    BY <2>1, SameUpInv
<1>2. CASE ReapOwn(s)
  <2>1. /\ reaper[s] = "holding" /\ owner[s] = None /\ ~Up(s)'
        /\ reaper' = [reaper EXCEPT ![s] = "cleaned"]
        /\ backend' = [backend EXCEPT ![s] = Closed(s)]
        /\ UNCHANGED <<frontOf, failed, key, owner>>
    BY <1>2 DEF ReapOwn, Closed, Up, TypeOK, Structs, poolVars
  <2>2. /\ s \notin Entries /\ backend[s] = "none" => backend'[s] = "none"
    BY <2>1 DEF Closed, TypeOK, Structs
  <2>3. UnusedIsClean' /\ SharedHaveNone' /\ OwnHaveReaper'
    BY <2>1, <2>2 DEF UpInv, UnusedIsClean, SharedHaveNone, OwnHaveReaper, Up, Structs, TypeOK
  <2>4. \A t \in Sessions, e \in Entries :
          Attached(t, e) \/ Dying(t, e) => Attached(t, e)' \/ Dying(t, e)'
    BY <2>1 DEF Attached, Dying, TypeOK
  <2>5. EntriesHaveReaper'
    BY <2>1, <2>2, <2>4 DEF UpInv, EntriesHaveReaper, Up, Structs, TypeOK
  <2> QED
    BY <2>3, <2>5 DEF UpInv
<1>3. ASSUME ReleaseOne(s) \/ ReleaseLast(s) \/ ReapEntry(s) \/ Forget(s)
      PROVE  UnusedIsClean' /\ SharedHaveNone' /\ OwnHaveReaper'
  <2>1. /\ reaper[s] \in {"holding", "reaping", "cleaned"}
        /\ owner[s] # None \/ reaper[s] = "cleaned"
        /\ \E r \in {"cleaned", "last", "done"} : reaper' = [reaper EXCEPT ![s] = r]
        /\ UNCHANGED <<frontOf, failed, key>>
    BY <1>3 DEF ReleaseOne, ReleaseLast, ReapEntry, Forget, LockInv, ReaperLocks, structVars, poolVars
  <2>2. \A o \in Structs : backend'[o] = backend[o] \/ (backend'[o] = Closed(o))
    BY <1>3 DEF ReleaseOne, ReleaseLast, ReapEntry, Forget, structVars, TypeOK
  <2>3. ~Up(s)
    BY <2>1 DEF MatchInv, OwnersMatch, UpInv, SharedHaveNone, OwnHaveReaper, Up
  <2> QED
    BY <2>1, <2>2, <2>3
       DEF UpInv, UnusedIsClean, SharedHaveNone, OwnHaveReaper, Up, Closed, Structs, TypeOK
<1>4. ASSUME ReleaseOne(s) \/ ReleaseLast(s) \/ Forget(s)
      PROVE  EntriesHaveReaper'
  <2> SUFFICES ASSUME NEW e \in Entries, Up(e)'
               PROVE  \E t \in Sessions : Attached(t, e)' \/ Dying(t, e)'
    BY DEF EntriesHaveReaper
  <2>1. Up(e) /\ owner' = owner
    BY <1>4 DEF ReleaseOne, ReleaseLast, Forget, structVars, poolVars, Up
  <2>2. PICK t \in Sessions : Attached(t, e) \/ Dying(t, e)
    BY <2>1 DEF UpInv, EntriesHaveReaper
  <2>3. CASE t # s
    <3>1. reaper'[t] = reaper[t]
      BY <1>4, <2>3 DEF ReleaseOne, ReleaseLast, Forget, TypeOK
    <3> QED
      BY <2>1, <2>2, <3>1 DEF Attached, Dying
  <2>4. CASE t = s /\ ReleaseLast(s)
    BY <2>1, <2>2, <2>4 DEF ReleaseLast, Attached, Dying, TypeOK
  <2>5. CASE t = s /\ ReleaseOne(s)
    <3>1. owner[s] = e /\ refs[e] # 1 /\ PoolFree /\ reaper[s] = "holding"
      BY <2>2, <2>5 DEF ReleaseOne, LastUser, Attached, Dying
    <3>2. Cardinality(Users(e) \ {s}) = refs[e] - 1 /\ refs[e] \in Int
      BY <3>1, ReleaseFacts DEF TypeOK
    <3>3. PICK u \in Users(e) : u # s
      <4>1. Cardinality(Users(e) \ {s}) # 0
        BY <3>1, <3>2
      <4> QED
        BY <4>1, FS_EmptySet
    <3>4. u \in Sessions /\ Attached(u, e)
      BY <3>3 DEF Users
    <3>5. Attached(u, e)'
      BY <2>1, <2>5, <3>3, <3>4 DEF ReleaseOne, Attached, TypeOK
    <3> QED
      BY <3>4, <3>5
  <2>6. CASE t = s /\ Forget(s)
    BY <2>2, <2>6 DEF Forget, Attached, Dying
  <2> QED
    BY <1>4, <2>3, <2>4, <2>5, <2>6
<1>5. ASSUME ReapEntry(s) PROVE EntriesHaveReaper'
  <2> DEFINE d == owner[s]
  <2>1. /\ d \in Entries /\ Users(d) = {} /\ owner' = owner
        /\ backend' = [backend EXCEPT ![d] = Closed(d)]
        /\ reaper' = [reaper EXCEPT ![s] = "cleaned"] /\ reaper[s] = "reaping"
    BY <1>5 DEF ReapEntry, LockInv, ReaperLocks, PoolInv, DyingIsUnused, Dying, TypeOK
  <2> SUFFICES ASSUME NEW e \in Entries, Up(e)'
               PROVE  \E t \in Sessions : Attached(t, e)' \/ Dying(t, e)'
    BY DEF EntriesHaveReaper
  <2>2. e # d /\ Up(e)
    BY <2>1 DEF Up, Closed, TypeOK, Structs
  <2>3. PICK t \in Sessions : Attached(t, e) \/ Dying(t, e)
    BY <2>2 DEF UpInv, EntriesHaveReaper
  <2>4. t # s
    BY <2>1, <2>2, <2>3 DEF Attached, Dying
  <2> QED
    BY <2>1, <2>3, <2>4 DEF Attached, Dying, TypeOK
<1> QED
  BY <1>1, <1>2, <1>3, <1>4, <1>5 DEF Reap, UpInv

LEMMA CrashUp == ASSUME TypeOK, UpInv, NEW o \in Structs, Crash(o) PROVE UpInv'
<1>1. /\ backend[o] = "live" /\ backend' = [backend EXCEPT ![o] = "dead"]
      /\ UNCHANGED <<failed, key, reaper, frontOf, owner>>
  BY DEF Crash, reaperVars, poolVars
<1>2. \A x \in Structs : (Up(x)' <=> Up(x)) /\ (backend'[x] = "none" <=> backend[x] = "none")
  BY <1>1 DEF Up, TypeOK
<1>3. UnusedIsClean' /\ SharedHaveNone' /\ OwnHaveReaper'
  BY <1>1, <1>2 DEF UpInv, UnusedIsClean, SharedHaveNone, OwnHaveReaper, Structs
<1>4. EntriesHaveReaper'
  BY <1>1, <1>2 DEF UpInv, EntriesHaveReaper, Structs, Attached, Dying
<1> QED
  BY <1>3, <1>4 DEF UpInv

LEMMA UpStep ==
  TypeOK /\ LockInv /\ PoolInv /\ MatchInv /\ GoneForGood /\ UpInv /\ [Next]_vars => UpInv'
<1> SUFFICES ASSUME TypeOK, LockInv, PoolInv, MatchInv, GoneForGood, UpInv, [Next]_vars
             PROVE  UpInv'
  OBVIOUS
<1>1. ASSUME UNCHANGED <<reaper, frontOf, backend, failed, poolVars>> PROVE UpInv'
  <2>1. SameUp
    BY <1>1 DEF SameUp, Attached, Dying, poolVars
  <2> QED
    BY <2>1, SameUpInv
<1>2. CASE Close \/ UNCHANGED vars
  BY <1>1, <1>2 DEF Close, CloseBegin, CloseFront, CloseFrontDone, CloseReturn, vars, reaperVars,
                    structVars
<1>3. CASE Environment
  <2>1. CASE \E o \in Structs : Crash(o)
    BY <2>1, CrashUp
  <2> QED
    BY <1>1, <1>3, <2>1 DEF Environment, Arrive, Disconnect, Expire, reaperVars, structVars
<1> QED
  BY <1>2, <1>3, HandleUp, ReapUp DEF Next

LEMMA UpInvariant == ASSUME Drains PROVE Spec => []UpInv
<1>1. Init => UpInv
  BY DEF Init, UpInv, UnusedIsClean, SharedHaveNone, OwnHaveReaper, EntriesHaveReaper, Up, Structs
<1> QED
  BY <1>1, UpStep, TypeCorrect, LockInvariant, PoolInvariant, MatchInvariant, GoneInvariant, PTL
     DEF Spec
-----------------------------------------------------------------------------
(* What follows for backends.                                              *)

LEMMA RunningHasReaper ==
  TypeOK /\ LockInv /\ MatchInv /\ GoneForGood /\ UpInv => NoOrphan
<1> SUFFICES ASSUME TypeOK, LockInv, MatchInv, GoneForGood, UpInv PROVE NoOrphan
  OBVIOUS
<1>1. ASSUME NEW h \in Handlers, pc[h] = "dialing"
      PROVE  /\ target[h] \in Sessions => reaper[target[h]] = "waiting"
             /\ target[h] \in Entries => \E s \in Sessions : Attached(s, target[h])
  BY <1>1, TargetIsUsed, WorkWaits DEF Borrowed, AtWork, Admitted
<1>2. \A s \in Sessions : Running(s) => reaper[s] \in {"waiting", "woken", "holding"}
  BY <1>1 DEF Running, UpInv, OwnHaveReaper, Up
<1>3. \A e \in Entries : Running(e) => \E s \in Sessions : Attached(s, e) \/ Dying(s, e)
  BY <1>1 DEF Running, UpInv, EntriesHaveReaper, Up
<1> QED
  BY <1>2, <1>3 DEF NoOrphan

\* A backend that runs or is being started always has a cleanup ahead of it
\* that will close it (bridge.go:77-83, shared.go:56-61).
THEOREM NoneOrphaned == ASSUME Drains PROVE Spec => []NoOrphan
  BY RunningHasReaper, TypeCorrect, LockInvariant, MatchInvariant, GoneInvariant, UpInvariant, PTL

\* A principal never has two backends of a shared endpoint: both would be the
\* pool's entry for it, the dying one included (shared.go:62-63).  Nor do two
\* calls start one (bridge.go:92-100).
THEOREM OneEach == ASSUME Drains PROVE Spec => []OneBackend
<1>1. PoolInv /\ NoOrphan /\ OneDial => OneBackend
  BY DEF PoolInv, UsedIsPooled, NoOrphan, OneBackend
<1> QED
  BY <1>1, PoolInvariant, NoneOrphaned, OneDialAtATime, PTL

\* The shared backend is closed only when no frontend is attached and no call
\* under way (shared.go:48-64): who disconnects leaves its peers theirs.
THEOREM PeersKeepBackend == ASSUME Drains PROVE Spec => NoPeerClose
<1>1. TypeOK /\ LockInv /\ PoolInv /\ MatchInv /\ GoneForGood /\ [Next]_vars => ClosesUnused
  <2> SUFFICES ASSUME TypeOK, LockInv, PoolInv, MatchInv, GoneForGood, [Next]_vars,
                      NEW e \in Entries, backend'[e] # backend[e], backend'[e] = "closed"
               PROVE  /\ \A s \in Sessions : ~Attached(s, e)
                      /\ \A h \in Handlers : ~(pc[h] \in Borrowed /\ target[h] = e)
    BY DEF ClosesUnused
  <2>1. PICK s \in Sessions : ReapEntry(s) /\ owner[s] = e
    <3>1. \A h \in Handlers : ~Handle(h)
      BY DEF Handle, GetRefused, GetKnown, GetFresh, Reply, Admit, AttachRefused, AttachKnown,
             AttachLock, AttachPool, Borrow, BorrowRefused, ConnectRefused, ConnectKnown, Dial,
             DialOk, DialFail, Respond, structVars, TypeOK, Structs
    <3>2. \A s \in Sessions : Reap(s) => ReapEntry(s) /\ owner[s] = e
      BY DEF Reap, Wake, ReapLock, ReapOwn, ReleaseOne, ReleaseLast, ReapEntryLock, ReapEntry,
             Forget, structVars, TypeOK, Structs
    <3>3. ~Close /\ ~Environment /\ vars' # vars
      BY DEF Close, CloseBegin, CloseFront, CloseFrontDone, CloseReturn, Environment, Arrive,
             Disconnect, Expire, Crash, structVars, vars, TypeOK, Structs
    <3> QED
      BY <3>1, <3>2, <3>3 DEF Next
  <2>2. Users(e) = {}
    BY <2>1 DEF ReapEntry, Dying, PoolInv, DyingIsUnused
  <2>3. \A t \in Sessions : ~Attached(t, e)
    BY <2>2 DEF Users
  <2>4. \A h \in Handlers : ~(pc[h] \in Borrowed /\ target[h] = e)
    BY <2>3, TargetIsUsed, WorkWaits DEF Borrowed, AtWork, Admitted
  <2> QED
    BY <2>3, <2>4
<1> QED
  BY <1>1, TypeCorrect, LockInvariant, PoolInvariant, MatchInvariant, GoneInvariant, PTL
     DEF Spec, NoPeerClose

\* Close returns after the last reaper, and nothing registers any more.
LEMMA ClosedInvariant == Spec => []ClosedInv
<1>1. Init => ClosedInv
  BY DEF Init, ClosedInv
<1>2. TypeOK /\ ClosedInv /\ [Next]_vars => ClosedInv'
  <2> SUFFICES ASSUME TypeOK, ClosedInv, [Next]_vars PROVE ClosedInv'
    OBVIOUS
  <2> USE DEF TypeOK, ClosedInv, ReapersDone, gatewayVars, reaperVars
  <2>1. ASSUME NEW h \in Handlers, Handle(h) PROVE ClosedInv'
    BY <2>1 DEF Handle, GetRefused, GetKnown, GetFresh, Accepts, Reply, Admit, AttachRefused,
                AttachKnown, AttachLock, AttachPool, Borrow, BorrowRefused, ConnectRefused,
                ConnectKnown, Dial, DialOk, DialFail, Respond
  <2>2. ASSUME NEW s \in Sessions, Reap(s) PROVE ClosedInv'
    BY <2>2 DEF Reap, Wake, ReapLock, ReapOwn, ReleaseOne, ReleaseLast, ReapEntryLock, ReapEntry,
                Forget
  <2>3. CASE Close \/ Environment \/ UNCHANGED vars
    BY <2>3 DEF Close, CloseBegin, CloseFront, CloseFrontDone, CloseReturn, Environment, Arrive,
                Disconnect, Expire, Crash, vars
  <2> QED
    BY <2>1, <2>2, <2>3 DEF Next
<1> QED
  BY <1>1, <1>2, TypeCorrect, PTL DEF Spec

\* Once Close has returned nothing that the gateway started runs, and every
\* slot, reference and pool entry is given back (bridge.go:39-52).
THEOREM ClosedIsClean == ASSUME Drains PROVE Spec => []ClosedMeansClean
<1>1. TypeOK /\ SlotInv /\ PoolInv /\ MatchInv /\ NoOrphan /\ ClosedInv => ClosedMeansClean
  <2> SUFFICES ASSUME TypeOK, SlotInv, PoolInv, MatchInv, NoOrphan, ClosedInv, phase = "closed"
               PROVE  /\ \A o \in Structs : ~Running(o)
                      /\ slots = 0
                      /\ \A f \in Fronts : table[f] = None
                      /\ \A e \in Entries : refs[e] = 0
                      /\ \A p \in Principals : entries[p] = None
    BY DEF ClosedMeansClean
  <2>1. \A s \in Sessions : reaper[s] \in {"none", "done"}
    BY DEF ClosedInv, ReapersDone
  <2>2. \A s \in Sessions, e \in Entries : ~Attached(s, e) /\ ~Dying(s, e)
    BY <2>1 DEF Attached, Dying
  <2>3. \A o \in Structs : ~Running(o)
    BY <2>1, <2>2 DEF NoOrphan, Structs
  <2>4. \A f \in Fronts : table[f] = None
    BY <2>1 DEF MatchInv, FrontsMatch, Registered, TypeOK
  <2>5. slots = 0
    BY <2>4, FS_EmptySet DEF SlotInv, Taken
  <2>6. \A e \in Entries : refs[e] = 0
    <3>1. \A e \in Entries : Users(e) = {}
      BY <2>2 DEF Users
    <3> QED
      BY <3>1, FS_EmptySet DEF PoolInv, RefsCounted
  <2>7. \A p \in Principals : entries[p] = None
    BY <2>2 DEF PoolInv, PooledIsUsed, TypeOK
  <2> QED
    BY <2>3, <2>4, <2>5, <2>6, <2>7
<1> QED
  BY <1>1, TypeCorrect, SlotInvariant, PoolInvariant, MatchInvariant, NoneOrphaned, ClosedInvariant,
     PTL
-----------------------------------------------------------------------------
(* The gateway implements SharedLease: each of its steps is a step of the  *)
(* lease or changes neither its users nor its generations.                 *)

LeaseInv == TypeOK /\ LockInv /\ SlotInv /\ PoolInv /\ MatchInv /\ GoneForGood /\ UpInv

LeaseStep == [Lease!Next]_(Lease!vars)

\* A struct is one of its frontend, and a frontend one of its principal.
LEMMA UserFacts ==
  ASSUME LeaseInv, NEW s \in Sessions, NEW e \in Entries, Attached(s, e)
  PROVE  /\ owner[s] = e /\ frontOf[s] \in Fronts
         /\ key[e] \in Principals /\ key[e] = PrincipalOf[frontOf[s]] /\ entries[key[e]] = e
         /\ \A t \in Sessions : Registered(t) /\ frontOf[t] = frontOf[s] => t = s
<1>1. owner[s] = e /\ Registered(s)
  BY DEF Attached, Registered
<1>2. frontOf[s] \in Fronts /\ \A t \in Sessions : Registered(t) => table[frontOf[t]] = t
  BY <1>1 DEF LeaseInv, SlotInv, TableLeadsBack
<1>3. key[e] \in Principals /\ key[e] = PrincipalOf[frontOf[s]] /\ entries[key[e]] = e
  BY <1>1 DEF LeaseInv, TypeOK, MatchInv, OwnersMatch, PoolInv, UsedIsPooled
<1> QED
  BY <1>1, <1>2, <1>3

LEMMA UserOf ==
  ASSUME NEW p \in Principals, NEW f \in Fronts
  PROVE  f \in UsersOf(p) <=>
           \E s \in Sessions, e \in Entries : frontOf[s] = f /\ key[e] = p /\ Attached(s, e)
  BY DEF UsersOf

SameUsers ==
  \A s \in Sessions, e \in Entries :
    /\ Attached(s, e)' <=> Attached(s, e)
    /\ Attached(s, e) => frontOf'[s] = frontOf[s] /\ key'[e] = key[e]

LEMMA SameUsersOf == ASSUME SameUsers, NEW p PROVE UsersOf(p)' = UsersOf(p)
  BY DEF SameUsers, UsersOf

SameGenerations ==
  /\ entries' = entries
  /\ \A e \in Entries : failed'[e] = failed[e] /\ backend'[e] = backend[e]

LEMMA SameGenerationOf ==
  ASSUME TypeOK, SameGenerations, NEW p \in Principals
  PROVE  GenerationOf(p)' = GenerationOf(p)
<1>1. entries[p] # None => entries[p] \in Entries
  BY DEF TypeOK
<1> QED
  BY <1>1 DEF SameGenerations, GenerationOf

LEMMA SameLease == ASSUME TypeOK, SameUsers, SameGenerations PROVE LeaseStep
<1>1. \A p \in Principals : UsersOf(p)' = UsersOf(p) /\ GenerationOf(p)' = GenerationOf(p)
  BY SameUsersOf, SameGenerationOf
<1> QED
  BY <1>1 DEF LeaseStep, Lease!vars

\* attach joins.
LEMMA AttachPoolLease ==
  ASSUME LeaseInv, NEW h \in Handlers, NEW e \in Entries, AttachPool(h, e),
         NEW s, s = state[h], NEW p, p = Principal(h), NEW f, f = from[h]
  PROVE  LeaseStep
<1>1. /\ s \in Sessions /\ p \in Principals /\ f \in Fronts /\ p = PrincipalOf[f]
      /\ owner[s] = None /\ frontOf[s] = f /\ reaper[s] = "waiting"
  BY WorkWaits DEF AttachPool, LeaseInv, TypeOK, PoolInv, OwnersInTime, Principal, Admitted, AtWork
<1>2. /\ owner' = [owner EXCEPT ![s] = e] /\ entries' = [entries EXCEPT ![p] = e]
      /\ key' = [key EXCEPT ![e] = p]
      /\ UNCHANGED <<reaper, frontOf, failed, backend>>
  BY DEF AttachPool, reaperVars
<1>3. (entries[p] = e /\ key[e] = p) \/ (entries[p] = None /\ key[e] = None)
  <2>1. entries[p] = e \/ (entries[p] = None /\ key[e] = None)
    BY FreshIsIn DEF AttachPool, EntryFor, FreshEntry
  <2>2. e # None /\ (entries[p] = e => key[e] = p)
    BY <1>1 DEF LeaseInv, PoolInv, PooledIsUsed
  <2> QED
    BY <2>1, <2>2
<1>4. \A t \in Sessions, d \in Entries : Attached(t, d)' <=> Attached(t, d) \/ (t = s /\ d = e)
  BY <1>1, <1>2 DEF Attached, LeaseInv, TypeOK
<1>5. \A t \in Sessions, d \in Entries : Attached(t, d) => key'[d] = key[d]
  BY <1>2, <1>3, UserFacts DEF LeaseInv, TypeOK
<1>6. \A q \in Principals : f \notin UsersOf(q)
  <2> SUFFICES ASSUME NEW t \in Sessions, NEW d \in Entries, Attached(t, d), frontOf[t] = f
               PROVE  FALSE
    BY <1>1, UserOf
  <2>1. t = s
    BY <1>1, UserFacts DEF Registered
  <2> QED
    BY <1>1, <2>1 DEF Attached, LeaseInv, TypeOK
<1>7. UsersOf(p) # {} \/ GenerationOf(p) = "cold"
  <2>1. CASE entries[p] = None
    BY <2>1 DEF GenerationOf
  <2>2. CASE entries[p] = e
    <3>1. PICK t \in Sessions : Attached(t, e)
      BY <1>1, <1>3, <2>2 DEF LeaseInv, TypeOK, PoolInv, PooledIsUsed, PoolLocked, AttachPool, PoolFree, Dying
    <3>2. frontOf[t] \in Fronts /\ key[e] = p
      BY <1>3, <2>2, <3>1, UserFacts DEF LeaseInv, TypeOK
    <3> QED
      BY <1>1, <3>1, <3>2, UserOf
  <2> QED
    BY <1>3, <2>1, <2>2
<1>8. UsersOf(p)' = UsersOf(p) \cup {f}
  <2>1. key'[e] = p
    BY <1>1, <1>2 DEF LeaseInv, TypeOK
  <2> QED
    BY <1>1, <1>2, <1>4, <1>5, <2>1 DEF UsersOf
<1>9. \A q \in Principals \ {p} : UsersOf(q)' = UsersOf(q)
  <2>1. key'[e] = p
    BY <1>1, <1>2 DEF LeaseInv, TypeOK
  <2> QED
    BY <1>1, <1>2, <1>4, <1>5, <2>1 DEF UsersOf
<1>10. \A q \in Principals : GenerationOf(q)' = GenerationOf(q)
  <2>1. \A q \in Principals \ {p} : GenerationOf(q)' = GenerationOf(q)
    BY <1>2 DEF GenerationOf, LeaseInv, TypeOK
  <2>2. entries'[p] = e
    BY <1>1, <1>2 DEF LeaseInv, TypeOK
  <2>3. entries[p] = None => ~failed[e] /\ backend[e] = "none"
    BY <1>3 DEF LeaseInv, UpInv, UnusedIsClean, TypeOK
  <2>4. GenerationOf(p)' = GenerationOf(p)
    BY <1>2, <1>3, <2>2, <2>3 DEF GenerationOf
  <2> QED
    BY <2>1, <2>4
<1>11. Lease!Join(p, f)
  BY <1>1, <1>6, <1>7, <1>8, <1>9, <1>10 DEF Lease!Join
<1> QED
  BY <1>1, <1>11 DEF LeaseStep, Lease!Next
\* A dial that ends starts the backend of a lease, or spoils it.
LEMMA DialLease ==
  ASSUME LeaseInv, NEW h \in Handlers, DialOk(h) \/ DialFail(h),
         NEW e, e = target[h], NEW p, p = key[e]
  PROVE  LeaseStep
<1>1. /\ pc[h] = "dialing" /\ e \in Structs /\ backend[e] = "none" /\ ~failed[e]
      /\ UNCHANGED <<reaper, frontOf, owner, key, entries>>
  BY DEF DialOk, DialFail, LeaseInv, TypeOK, LockInv, DialsForNone, Borrowed, reaperVars, poolVars
<1>2. /\ \/ backend'[e] = "live" /\ failed'[e] = failed[e]
         \/ backend'[e] = "none" /\ failed'[e] = TRUE
      /\ \A d \in Entries \ {e} : backend'[d] = backend[d] /\ failed'[d] = failed[d]
  BY <1>1 DEF DialOk, DialFail, LeaseInv, TypeOK, Structs
<1>3. SameUsers
  BY <1>1 DEF SameUsers, Attached
<1>4. CASE e \in Sessions
  <2>1. SameGenerations
    BY <1>1, <1>2, <1>4 DEF SameGenerations
  <2> QED
    BY <1>3, <2>1, SameLease DEF LeaseInv
<1>5. CASE e \in Entries
  <2>1. PICK s \in Sessions : Attached(s, e)
    BY <1>1, <1>5, TargetIsUsed, WorkWaits DEF LeaseInv, Borrowed, AtWork, Admitted
  <2>2. p \in Principals /\ entries[p] = e /\ frontOf[s] \in Fronts
    BY <1>5, <2>1, UserFacts
  <2>3. UsersOf(p) # {}
    BY <1>5, <2>1, <2>2, UserOf
  <2>4. \A q \in Principals : UsersOf(q)' = UsersOf(q)
    BY <1>3, SameUsersOf
  <2>5. \A q \in Principals \ {p} : GenerationOf(q)' = GenerationOf(q)
    <3>1. \A q \in Principals \ {p} : entries[q] # None => entries[q] \in Entries \ {e}
      BY DEF LeaseInv, TypeOK, PoolInv, PooledIsUsed
    <3> QED
      BY <1>1, <1>2, <3>1 DEF GenerationOf
  <2>6. GenerationOf(p) = "cold" /\ GenerationOf(p)' \in {"up", "spoiled"}
    BY <1>1, <1>2, <1>5, <2>2 DEF GenerationOf
  <2>7. Lease!Start(p) \/ Lease!Spoil(p)
    BY <2>2, <2>3, <2>4, <2>5, <2>6 DEF Lease!Start, Lease!Spoil
  <2> QED
    BY <2>2, <2>7 DEF LeaseStep, Lease!Next
<1> QED
  BY <1>1, <1>4, <1>5 DEF Structs

LEMMA CrashLease ==
  ASSUME LeaseInv, NEW o \in Structs, Crash(o)
  PROVE  LeaseStep
<1>1. /\ backend[o] = "live" /\ backend' = [backend EXCEPT ![o] = "dead"]
      /\ UNCHANGED <<reaper, frontOf, owner, key, entries, failed>>
  BY DEF Crash, reaperVars, poolVars
<1>2. SameUsers
  BY <1>1 DEF SameUsers, Attached
<1>3. CASE \A p \in Principals : entries[p] # o
  <2>1. \A p \in Principals : GenerationOf(p)' = GenerationOf(p)
    BY <1>1, <1>3 DEF GenerationOf, LeaseInv, TypeOK, Structs
  <2>2. \A p \in Principals : UsersOf(p)' = UsersOf(p)
    BY <1>2, SameUsersOf
  <2> QED
    BY <2>1, <2>2 DEF LeaseStep, Lease!vars
<1>4. ASSUME NEW p \in Principals, entries[p] = o PROVE LeaseStep
  <2>1. \A q \in Principals : UsersOf(q)' = UsersOf(q)
    BY <1>2, SameUsersOf
  <2>2. \A q \in Principals \ {p} : entries[q] # o
    BY <1>4 DEF LeaseInv, PoolInv, PooledIsUsed, Structs
  <2>3. \A q \in Principals \ {p} : GenerationOf(q)' = GenerationOf(q)
    BY <1>1, <2>2 DEF GenerationOf, LeaseInv, TypeOK, Structs
  <2>4. /\ GenerationOf(p) = IF failed[o] THEN "spoiled" ELSE "up"
        /\ GenerationOf(p)' = "spoiled"
    BY <1>1, <1>4 DEF GenerationOf, LeaseInv, TypeOK, Structs
  <2>5. CASE failed[o]
    BY <2>1, <2>3, <2>4, <2>5 DEF LeaseStep, Lease!vars
  <2>6. CASE ~failed[o]
    <3>1. Lease!Spoil(p)
      BY <2>1, <2>3, <2>4, <2>6 DEF Lease!Spoil
    <3> QED
      BY <3>1 DEF LeaseStep, Lease!Next
  <2> QED
    BY <2>5, <2>6
<1> QED
  BY <1>3, <1>4

\* release leaves; the last one's entry is reaped later.
LEMMA ReleaseLease ==
  ASSUME LeaseInv, NEW s \in Sessions, ReleaseOne(s) \/ ReleaseLast(s),
         NEW e, e = owner[s], NEW f, f = frontOf[s], NEW p, p = key[e]
  PROVE  LeaseStep
<1>1. /\ e \in Entries /\ Attached(s, e) /\ f \in Fronts /\ p \in Principals
  BY UserFacts DEF ReleaseOne, ReleaseLast, Attached, LeaseInv, TypeOK
<1>2. /\ \E r \in {"cleaned", "last"} : reaper' = [reaper EXCEPT ![s] = r]
      /\ UNCHANGED <<frontOf, owner, key, entries, failed, backend>>
  BY DEF ReleaseOne, ReleaseLast
<1>3. \A t \in Sessions, d \in Entries : Attached(t, d)' <=> Attached(t, d) /\ t # s
  BY <1>2 DEF Attached, LeaseInv, TypeOK
<1>4. f \in UsersOf(p)
  BY <1>1, UserOf
<1>5. \A t \in Sessions, d \in Entries : Attached(t, d) /\ frontOf[t] = f => t = s
  BY <1>1, UserFacts DEF Attached, Registered
<1>6. UsersOf(p)' = UsersOf(p) \ {f}
  BY <1>2, <1>3, <1>5 DEF UsersOf
<1>7. \A q \in Principals \ {p} : UsersOf(q)' = UsersOf(q)
  <2>1. \A d \in Entries : Attached(s, d) => key[d] = p
    BY <1>1 DEF Attached
  <2> QED
    BY <1>2, <1>3, <2>1 DEF UsersOf
<1>8. \A q \in Principals : GenerationOf(q)' = GenerationOf(q)
  BY <1>2, SameGenerationOf DEF SameGenerations, LeaseInv
<1>9. Lease!Leave(p, f)
  BY <1>1, <1>4, <1>6, <1>7, <1>8 DEF Lease!Leave
<1> QED
  BY <1>1, <1>9 DEF LeaseStep, Lease!Next

\* The last cleanup reaps the generation, if there was one.
LEMMA ReapEntryLease ==
  ASSUME LeaseInv, NEW s \in Sessions, ReapEntry(s),
         NEW e, e = owner[s], NEW p, p = key[e]
  PROVE  LeaseStep
<1>1. /\ e \in Entries /\ Dying(s, e) /\ Users(e) = {} /\ reaper[s] = "reaping"
      /\ p \in Principals /\ entries[p] = e
  BY DEF ReapEntry, LeaseInv, TypeOK, LockInv, ReaperLocks, PoolInv, UsedIsPooled, DyingIsUnused,
         Dying
<1>2. /\ reaper' = [reaper EXCEPT ![s] = "cleaned"] /\ entries' = [entries EXCEPT ![p] = None]
      /\ backend' = [backend EXCEPT ![e] = Closed(e)]
      /\ UNCHANGED <<frontOf, owner, key, failed>>
  BY DEF ReapEntry
<1>3. SameUsers
  BY <1>1, <1>2 DEF SameUsers, Attached, LeaseInv, TypeOK
<1>4. UsersOf(p) = {}
  <2> SUFFICES ASSUME NEW t \in Sessions, NEW d \in Entries, key[d] = p, Attached(t, d)
               PROVE  FALSE
    BY DEF UsersOf
  <2>1. d = e
    BY <1>1, UserFacts
  <2> QED
    BY <1>1, <2>1 DEF Users
<1>5. \A q \in Principals : UsersOf(q)' = UsersOf(q)
  BY <1>3, SameUsersOf
<1>6. GenerationOf(p)' = "cold"
  BY <1>1, <1>2 DEF GenerationOf, LeaseInv, TypeOK
<1>7. \A q \in Principals \ {p} : GenerationOf(q)' = GenerationOf(q)
  <2>1. \A q \in Principals \ {p} : entries[q] # e
    BY <1>1 DEF LeaseInv, PoolInv, PooledIsUsed
  <2>2. \A q \in Principals \ {p} : entries'[q] = entries[q]
    BY <1>2 DEF LeaseInv, TypeOK
  <2>3. \A d \in Entries \ {e} : backend'[d] = backend[d]
    BY <1>2 DEF LeaseInv, TypeOK, Structs
  <2> QED
    BY <1>2, <2>1, <2>2, <2>3 DEF GenerationOf, LeaseInv, TypeOK
<1>8. CASE GenerationOf(p) = "cold"
  BY <1>5, <1>6, <1>7, <1>8 DEF LeaseStep, Lease!vars
<1>9. CASE GenerationOf(p) # "cold"
  <2>1. Lease!Reap(p)
    BY <1>1, <1>4, <1>5, <1>6, <1>7, <1>9 DEF Lease!Reap
  <2> QED
    BY <1>1, <2>1 DEF LeaseStep, Lease!Next
<1> QED
  BY <1>8, <1>9
LEMMA LeaseHolds == LeaseInv /\ [Next]_vars => LeaseStep
<1> SUFFICES ASSUME LeaseInv, [Next]_vars PROVE LeaseStep
  OBVIOUS
<1>1. ASSUME NEW h \in Handlers, Handle(h) PROVE LeaseStep
  <2>1. CASE \E e \in Entries : AttachPool(h, e)
    BY <2>1, AttachPoolLease
  <2>2. CASE DialOk(h) \/ DialFail(h)
    BY <2>2, DialLease
  <2>3. ASSUME NEW s \in Sessions, GetFresh(h, s) PROVE LeaseStep
    <3>1. reaper[s] = "none" /\ owner[s] = None
      BY <2>3, FreshIsIn DEF GetFresh, FreshSession, LeaseInv, PoolInv, OwnersInTime
    <3>2. SameUsers /\ SameGenerations
      BY <2>3, <3>1 DEF GetFresh, SameUsers, SameGenerations, Attached, LeaseInv, TypeOK,
                        structVars, poolVars
    <3> QED
      BY <3>2, SameLease DEF LeaseInv
  <2>4. CASE UNCHANGED <<reaperVars, poolVars, failed, backend>>
    <3>1. SameUsers /\ SameGenerations
      BY <2>4 DEF SameUsers, SameGenerations, Attached, reaperVars, poolVars
    <3> QED
      BY <3>1, SameLease DEF LeaseInv
  <2> QED
    BY <1>1, <2>1, <2>2, <2>3, <2>4
       DEF Handle, GetRefused, GetKnown, Reply, Admit, AttachRefused, AttachKnown, AttachLock,
           Borrow, BorrowRefused, ConnectRefused, ConnectKnown, Dial, Respond, structVars
<1>2. ASSUME NEW s \in Sessions, Reap(s) PROVE LeaseStep
  <2>1. CASE ReleaseOne(s) \/ ReleaseLast(s)
    BY <2>1, ReleaseLease
  <2>2. CASE ReapEntry(s)
    BY <2>2, ReapEntryLease
  <2>3. CASE Wake(s) \/ ReapLock(s) \/ ReapOwn(s) \/ ReapEntryLock(s) \/ Forget(s)
    <3>1. SameUsers
      BY <2>3 DEF Wake, ReapLock, ReapOwn, ReapEntryLock, Forget, SameUsers, Attached, LeaseInv,
                  TypeOK, poolVars
    <3>2. SameGenerations
      BY <2>3 DEF Wake, ReapLock, ReapOwn, ReapEntryLock, Forget, SameGenerations, LeaseInv,
                  TypeOK, Structs, structVars, poolVars
    <3> QED
      BY <3>1, <3>2, SameLease DEF LeaseInv
  <2> QED
    BY <1>2, <2>1, <2>2, <2>3 DEF Reap
<1>3. ASSUME UNCHANGED <<reaperVars, poolVars, failed, backend>> PROVE LeaseStep
  <2>1. SameUsers /\ SameGenerations
    BY <1>3 DEF SameUsers, SameGenerations, Attached, reaperVars, poolVars
  <2> QED
    BY <2>1, SameLease DEF LeaseInv
<1>4. CASE Close \/ UNCHANGED vars
  BY <1>3, <1>4 DEF Close, CloseBegin, CloseFront, CloseFrontDone, CloseReturn, vars, structVars
<1>5. CASE Environment
  <2>1. CASE \E o \in Structs : Crash(o)
    BY <2>1, CrashLease
  <2> QED
    BY <1>3, <1>5, <2>1 DEF Environment, Arrive, Disconnect, Expire, structVars
<1> QED
  BY <1>1, <1>2, <1>4, <1>5 DEF Next

\* The pool keeps the promise of SharedLease: per principal one backend at a
\* time, leased by its frontends, and nobody joins a principal's next
\* generation before this one's last user has left and it is reaped.
THEOREM LeaseImplemented == ASSUME Drains PROVE Spec => ImplementsLease
<1>1. Init => Lease!Init
  <2> SUFFICES ASSUME Init PROVE Lease!Init
    OBVIOUS
  <2>1. \A p \in Principals : UsersOf(p) = {} /\ GenerationOf(p) = "cold"
    BY DEF Init, UsersOf, GenerationOf, Attached
  <2> QED
    BY <2>1 DEF Lease!Init
<1>2. LeaseInv /\ [Next]_vars => [Lease!Next]_(Lease!vars)
  BY LeaseHolds DEF LeaseStep
<1>3. Spec => []LeaseInv
  BY TypeCorrect, LockInvariant, SlotInvariant, PoolInvariant, MatchInvariant, GoneInvariant,
     UpInvariant, PTL DEF LeaseInv
<1> QED
  BY <1>1, <1>2, <1>3, PTL DEF Spec, ImplementsLease, Lease!Spec

-----------------------------------------------------------------------------
(* The gateway that Daemon runs, as Frontends has it.                      *)

FrontsInv == LeaseInv /\ ClosedInv

FrontsStep == [Promise!FrontsNext]_(Promise!frontVars)

\* Who leans on a backend that is up has a reaper at work, and is the struct
\* that the table has for its frontend.
LEMMA UserInTable ==
  ASSUME FrontsInv, NEW s \in Sessions, NEW o \in Structs, Using(s, o),
         Up(o) \/ s # o \/ reaper[s] = "waiting"
  PROVE  /\ reaper[s] \in {"waiting", "woken", "holding", "last", "reaping"}
         /\ frontOf[s] \in Fronts /\ table[frontOf[s]] = s
<1>1. reaper[s] \in {"waiting", "woken", "holding", "last", "reaping"}
  BY DEF Using, Attached, Dying, FrontsInv, LeaseInv, UpInv, OwnHaveReaper
<1> QED
  BY <1>1 DEF FrontsInv, LeaseInv, SlotInv, TableLeadsBack, Registered

\* A frontend that has a struct in the table is not reaped.
LEMMA StageHere ==
  ASSUME NEW f \in Fronts, table[f] # None
  PROVE  StageOf(f) = IF f \in open THEN "registered" ELSE "ended"
  BY DEF StageOf

\* A step after which a frontend has a backend if it had one before.
SameUses ==
  \A s \in Sessions, o \in Structs :
    /\ (Up(o) /\ Using(s, o))' <=> Up(o) /\ Using(s, o)
    /\ Up(o) /\ Using(s, o) => frontOf'[s] = frontOf[s]

LEMMA SameUsesHave ==
  ASSUME SameUses, NEW f
  PROVE  HasBackend(f)' = HasBackend(f)
  BY DEF SameUses, HasBackend, Uses

\* A step after which the frontends are where they were.
SameStages ==
  /\ \A f \in Fronts : table'[f] = table[f] /\ (table[f] # None => (f \in open' <=> f \in open))
  /\ \A s \in Sessions : /\ reaper'[s] = "done" <=> reaper[s] = "done"
                         /\ reaper[s] = "done" => frontOf'[s] = frontOf[s]

LEMMA SameStagesAre ==
  ASSUME SameStages, NEW f \in Fronts
  PROVE  StageOf(f)' = StageOf(f)
  BY DEF SameStages, StageOf

\* A step after which the requests are where they were.
SameRequests ==
  \A h \in Handlers :
    /\ from'[h] = from[h]
    /\ pc'[h] \in {"idle", "get"} \/ pc[h] \in {"idle", "get"} => pc'[h] = pc[h]

LEMMA SameRequestsAre ==
  ASSUME SameRequests, NEW f
  PROVE  ArrivedOf(f)' = ArrivedOf(f) /\ ServingOf(f)' = ServingOf(f)
  BY DEF SameRequests, ArrivedOf, ServingOf

LEMMA SameFronts ==
  ASSUME SameUses, SameStages, SameRequests, phase' # "serving" <=> phase # "serving"
  PROVE  FrontsStep
<1>1. \A f \in Fronts : StageOf(f)' = StageOf(f) /\ HasBackend(f)' = HasBackend(f)
  BY SameUsesHave, SameStagesAre
<1>2. \A f \in Fronts : ArrivedOf(f)' = ArrivedOf(f) /\ ServingOf(f)' = ServingOf(f)
  BY SameRequestsAre
<1> QED
  BY <1>1, <1>2 DEF FrontsStep, Promise!frontVars

\* A request that has been answered, or refused by get.
LEMMA ReturnFronts ==
  ASSUME FrontsInv, NEW h \in Handlers, NEW f, f = from[h], pc[h] # "idle", Return(h),
         SameUses, SameStages, phase' = phase
  PROVE  FrontsStep
<1>1. f \in Fronts /\ f # None
  BY DEF FrontsInv, LeaseInv, TypeOK
<1>2. \A g \in Handlers : /\ g # h => pc'[g] = pc[g] /\ from'[g] = from[g]
                          /\ g = h => pc'[g] = "idle" /\ from'[g] = None
  BY DEF Return, FrontsInv, LeaseInv, TypeOK
<1>3. \A g \in Fronts : StageOf(g)' = StageOf(g) /\ HasBackend(g)' = HasBackend(g)
  BY SameUsesHave, SameStagesAre
<1>4. CASE pc[h] = "get"
  <2>1. \A g \in Fronts : /\ ArrivedOf(g)' = IF g = f THEN ArrivedOf(g) \ {h} ELSE ArrivedOf(g)
                          /\ ServingOf(g)' = ServingOf(g)
    BY <1>1, <1>2, <1>4 DEF ArrivedOf, ServingOf
  <2>2. h \in ArrivedOf(f)
    BY <1>4 DEF ArrivedOf
  <2>3. Promise!Decline(f, h)
    BY <1>1, <1>3, <2>1, <2>2 DEF Promise!Decline
  <2> QED
    BY <1>1, <2>3 DEF FrontsStep, Promise!FrontsNext
<1>5. CASE pc[h] # "get"
  <2>1. \A g \in Fronts : /\ ServingOf(g)' = IF g = f THEN ServingOf(g) \ {h} ELSE ServingOf(g)
                          /\ ArrivedOf(g)' = ArrivedOf(g)
    BY <1>1, <1>2, <1>5 DEF ArrivedOf, ServingOf
  <2>2. h \in ServingOf(f)
    BY <1>5 DEF ServingOf
  <2>3. Promise!Answer(f, h)
    BY <1>1, <1>3, <2>1, <2>2 DEF Promise!Answer
  <2> QED
    BY <1>1, <2>3 DEF FrontsStep, Promise!FrontsNext
<1> QED
  BY <1>4, <1>5

\* get lets a request in, of a frontend that it knows or registers.
LEMMA GetFronts ==
  ASSUME FrontsInv, NEW h \in Handlers, NEW f, f = from[h],
         GetKnown(h) \/ \E s \in Sessions : GetFresh(h, s)
  PROVE  FrontsStep
<1>1. pc[h] = "get" /\ f \in Fronts /\ phase = "serving" /\ phase' = phase
  BY DEF GetKnown, GetFresh, Accepts, FrontsInv, LeaseInv, TypeOK, gatewayVars
<1>2. \A g \in Handlers : /\ from'[g] = from[g] /\ (g # h => pc'[g] = pc[g])
                          /\ g = h => pc'[g] = "admit"
  BY DEF GetKnown, GetFresh, FrontsInv, LeaseInv, TypeOK
<1>3. \A g \in Fronts : /\ ArrivedOf(g)' = IF g = f THEN ArrivedOf(g) \ {h} ELSE ArrivedOf(g)
                        /\ ServingOf(g)' = IF g = f THEN ServingOf(g) \cup {h} ELSE ServingOf(g)
  <2> TAKE g \in Fronts
  <2>1. \A k \in Handlers :
          /\ pc'[k] = "get" /\ from'[k] = g <=> pc[k] = "get" /\ from[k] = g /\ k # h
          /\ pc'[k] \notin {"idle", "get"} /\ from'[k] = g
               <=> (pc[k] \notin {"idle", "get"} /\ from[k] = g) \/ (k = h /\ f = g)
    <3> TAKE k \in Handlers
    <3>1. CASE k = h
      BY <1>1, <1>2, <3>1
    <3>2. CASE k # h
      BY <1>2, <3>2
    <3> QED
      BY <3>1, <3>2
  <2>2. h \in Handlers /\ (h \in ArrivedOf(g) => g = f)
    BY DEF ArrivedOf
  <2>3. ArrivedOf(g)' = ArrivedOf(g) \ {h}
    BY <2>1 DEF ArrivedOf
  <2>4. ServingOf(g)' = IF g = f THEN ServingOf(g) \cup {h} ELSE ServingOf(g)
    BY <2>1 DEF ServingOf
  <2> QED
    BY <2>2, <2>3, <2>4
<1>4. h \in ArrivedOf(f)
  BY <1>1 DEF ArrivedOf
<1>5. StageOf(f) # "reaped"
  <2>1. \A s \in Sessions : ~(frontOf[s] = f /\ reaper[s] = "done")
    BY DEF FrontsInv, LeaseInv, GoneForGood
  <2> QED
    BY <2>1 DEF StageOf
<1>6. /\ \A g \in Fronts : HasBackend(g)' = HasBackend(g)
      /\ \A g \in Fronts \ {f} : StageOf(g)' = StageOf(g)
      /\ IF StageOf(f) = "none" THEN StageOf(f)' \in {"registered", "ended"}
         ELSE StageOf(f)' = StageOf(f)
  <2>1. CASE GetKnown(h)
    <3>1. SameUses
      BY <2>1 DEF GetKnown, SameUses, Using, Attached, Dying, Up, reaperVars, structVars, poolVars
    <3>2. SameStages
      BY <2>1 DEF GetKnown, SameStages, gatewayVars, reaperVars
    <3>3. StageOf(f) # "none"
      BY <1>1, <2>1 DEF GetKnown, SessionOf, StageOf
    <3>4. \A g \in Fronts : HasBackend(g)' = HasBackend(g) /\ StageOf(g)' = StageOf(g)
      BY <3>1, <3>2, SameUsesHave, SameStagesAre
    <3> QED
      BY <1>1, <3>3, <3>4
  <2>2. ASSUME NEW s \in Sessions, GetFresh(h, s)
        PROVE  /\ \A g \in Fronts : HasBackend(g)' = HasBackend(g)
               /\ \A g \in Fronts \ {f} : StageOf(g)' = StageOf(g)
               /\ StageOf(f) = "none" /\ StageOf(f)' \in {"registered", "ended"}
    <3>1. reaper[s] = "none" /\ owner[s] = None /\ backend[s] = "none"
      BY <2>2, FreshIsIn DEF GetFresh, FreshSession, FrontsInv, LeaseInv, PoolInv, OwnersInTime,
                             UpInv, UnusedIsClean
    <3>2. /\ table' = [table EXCEPT ![f] = s] /\ reaper' = [reaper EXCEPT ![s] = "waiting"]
          /\ frontOf' = [frontOf EXCEPT ![s] = f]
          /\ UNCHANGED <<open, backend, owner>> /\ table[f] = None
      BY <2>2 DEF GetFresh, SessionOf, structVars, poolVars
    <3>3. SameUses
      <4>1. ASSUME NEW t \in Sessions, NEW o \in Structs
            PROVE  /\ (Up(o) /\ Using(t, o))' <=> Up(o) /\ Using(t, o)
                   /\ Up(o) /\ Using(t, o) => frontOf'[t] = frontOf[t]
        <5>1. CASE t # s
          BY <3>2, <5>1 DEF Using, Attached, Dying, Up, FrontsInv, LeaseInv, TypeOK
        <5>2. CASE t = s
          <6>1. o # s => o \in Entries \/ o \in Sessions
            BY DEF Structs
          <6>2. owner[s] # o
            BY <3>1 DEF Structs
          <6> QED
            BY <3>1, <3>2, <5>2, <6>2 DEF Using, Attached, Dying, Up
        <5> QED
          BY <5>1, <5>2
      <4> QED
        BY <4>1 DEF SameUses
    <3>4. s # None /\ table'[f] = s
      BY <1>1, <3>2 DEF FrontsInv, LeaseInv, TypeOK
    <3>5. StageOf(f)' \in {"registered", "ended"} /\ StageOf(f) = "none"
      <4>1. StageOf(f)' = IF f \in open' THEN "registered" ELSE "ended"
        BY <3>4 DEF StageOf
      <4>2. StageOf(f) \in {"reaped", "none"}
        BY <3>2 DEF StageOf
      <4> QED
        BY <1>5, <4>1, <4>2
    <3>6. \A g \in Fronts \ {f} : StageOf(g)' = StageOf(g)
      BY <3>1, <3>2 DEF StageOf, FrontsInv, LeaseInv, TypeOK
    <3> QED
      BY <3>3, <3>5, <3>6, SameUsesHave
  <2> QED
    BY <2>1, <2>2
<1>7. Promise!Get(f, h)
  <2> DEFINE now == StageOf(f)'
  <2>1. now \in (IF StageOf(f) = "none" THEN {"registered", "ended"} ELSE {StageOf(f)})
    BY <1>6
  <2>2. [g \in Fronts |-> StageOf(g)]' = [[g \in Fronts |-> StageOf(g)] EXCEPT ![f] = now]
    BY <1>1, <1>6
  <2>3. /\ [g \in Fronts |-> ArrivedOf(g)]'
             = [[g \in Fronts |-> ArrivedOf(g)] EXCEPT ![f] = @ \ {h}]
        /\ [g \in Fronts |-> ServingOf(g)]'
             = [[g \in Fronts |-> ServingOf(g)] EXCEPT ![f] = @ \cup {h}]
    BY <1>1, <1>3
  <2>4. [g \in Fronts |-> HasBackend(g)]' = [g \in Fronts |-> HasBackend(g)]
    BY <1>6
  <2> HIDE DEF now
  <2>5. /\ [g \in Fronts |-> StageOf(g)][f] = StageOf(f)
        /\ [g \in Fronts |-> ArrivedOf(g)][f] = ArrivedOf(f)
    BY <1>1
  <2> QED
    BY <1>1, <1>4, <1>5, <2>1, <2>2, <2>3, <2>4, <2>5 DEF Promise!Get
<1> QED
  BY <1>1, <1>7 DEF FrontsStep, Promise!FrontsNext

\* attach leases a backend that runs, or one that is still to be started.
LEMMA AttachPoolFronts ==
  ASSUME FrontsInv, NEW h \in Handlers, NEW e \in Entries, AttachPool(h, e),
         NEW s, s = state[h], NEW f, f = from[h]
  PROVE  FrontsStep
<1>1. /\ pc[h] = "attaching" /\ s \in Sessions /\ f \in Fronts /\ owner[s] = None
      /\ reaper[s] = "waiting" /\ frontOf[s] = f /\ table[f] = s
  BY WorkWaits DEF AttachPool, FrontsInv, LeaseInv, TypeOK, PoolInv, OwnersInTime, Admitted,
                   AtWork, SlotInv, TableLeadsBack, Registered
<1>2. /\ owner' = [owner EXCEPT ![s] = e] /\ pc' = [pc EXCEPT ![h] = "borrow"]
      /\ UNCHANGED <<open, phase, table, reaper, frontOf, backend, from>>
  BY DEF AttachPool, gatewayVars, reaperVars
<1>3. \A t \in Sessions, o \in Structs : Using(t, o)' <=> Using(t, o) \/ (t = s /\ o = e)
  <2>1. \A t \in Sessions, o \in Structs :
          /\ Attached(t, o)' <=> Attached(t, o) \/ (t = s /\ o = e)
          /\ Dying(t, o)' <=> Dying(t, o)
    BY <1>1, <1>2 DEF Attached, Dying, FrontsInv, LeaseInv, TypeOK, Structs
  <2> QED
    BY <2>1 DEF Using
<1>4. SameStages /\ SameRequests
  BY <1>1, <1>2 DEF SameStages, SameRequests, FrontsInv, LeaseInv, TypeOK
<1>5. CASE ~Up(e)
  <2>1. SameUses
    BY <1>2, <1>3, <1>5 DEF SameUses, Up
  <2> QED
    BY <1>2, <1>4, <2>1, SameFronts
<1>6. CASE Up(e)
  <2>1. \A g \in Fronts : HasBackend(g)' = (g \in {f} \/ HasBackend(g))
    BY <1>1, <1>2, <1>3, <1>6 DEF HasBackend, Uses, Up, Structs
  <2>2. StageOf(f) \in {"registered", "ended"}
    BY <1>1, StageHere
  <2>3. h \in ServingOf(f)
    BY <1>1 DEF ServingOf
  <2>4. \A g \in Fronts : /\ StageOf(g)' = StageOf(g)
                          /\ ArrivedOf(g)' = ArrivedOf(g) /\ ServingOf(g)' = ServingOf(g)
    BY <1>4, SameStagesAre, SameRequestsAre
  <2>5. Promise!Connect(f, {f})
    BY <1>1, <1>2, <2>1, <2>2, <2>3, <2>4 DEF Promise!Connect
  <2> QED
    BY <1>1, <2>5 DEF FrontsStep, Promise!FrontsNext
<1> QED
  BY <1>5, <1>6

\* A dial that succeeds gives a backend to all who lease it.
LEMMA DialFronts ==
  ASSUME FrontsInv, NEW h \in Handlers, DialOk(h), NEW o, o = target[h], NEW f, f = from[h]
  PROVE  FrontsStep
<1> DEFINE F == {g \in Fronts : Uses(g, o)}
<1>1. pc[h] = "dialing" /\ o \in Structs /\ f \in Fronts
  BY DEF DialOk, FrontsInv, LeaseInv, TypeOK, Borrowed
<1>2. /\ backend' = [backend EXCEPT ![o] = "live"] /\ pc' = [pc EXCEPT ![h] = "forward"]
      /\ UNCHANGED <<open, phase, table, reaper, frontOf, owner, from>>
  BY DEF DialOk, gatewayVars, reaperVars, poolVars
<1>3. /\ state[h] \in Sessions /\ reaper[state[h]] = "waiting" /\ frontOf[state[h]] = f
      /\ Using(state[h], o) /\ (o \in Sessions => o = state[h])
  BY <1>1, WorkWaits, TargetIsUsed DEF FrontsInv, LeaseInv, AtWork, Admitted, Borrowed, Using
<1>4. f \in F
  BY <1>1, <1>3 DEF Uses
<1>5. \A g \in F : StageOf(g) \in {"registered", "ended"}
  <2> SUFFICES ASSUME NEW g \in Fronts, NEW s \in Sessions, frontOf[s] = g, Using(s, o)
               PROVE  StageOf(g) \in {"registered", "ended"}
    BY DEF Uses
  <2>1. table[g] = s
    BY <1>1, <1>3, UserInTable
  <2> QED
    BY <2>1, StageHere
<1>6. \A g \in Fronts : HasBackend(g)' = (g \in F \/ HasBackend(g))
  <2>1. \A d \in Structs : Up(d)' <=> Up(d) \/ d = o
    BY <1>1, <1>2 DEF Up, FrontsInv, LeaseInv, TypeOK
  <2>2. \A g \in Fronts, d \in Structs : Uses(g, d)' <=> Uses(g, d)
    BY <1>2 DEF Uses, Using, Attached, Dying
  <2> QED
    BY <1>1, <2>1, <2>2 DEF HasBackend
<1>7. SameStages /\ SameRequests
  BY <1>1, <1>2 DEF SameStages, SameRequests, FrontsInv, LeaseInv, TypeOK
<1>8. \A g \in Fronts : /\ StageOf(g)' = StageOf(g)
                        /\ ArrivedOf(g)' = ArrivedOf(g) /\ ServingOf(g)' = ServingOf(g)
  BY <1>7, SameStagesAre, SameRequestsAre
<1>9. h \in ServingOf(f)
  BY <1>1 DEF ServingOf
<1>10. F \in SUBSET Fronts
  OBVIOUS
<1> HIDE DEF F
<1>11. Promise!Connect(f, F)
  BY <1>1, <1>2, <1>4, <1>5, <1>6, <1>8, <1>9, <1>10 DEF Promise!Connect
<1> QED
  BY <1>1, <1>10, <1>11 DEF FrontsStep, Promise!FrontsNext

\* A handler's steps.
LEMMA HandleFronts == ASSUME FrontsInv, NEW h \in Handlers, Handle(h) PROVE FrontsStep
<1>1. CASE GetKnown(h) \/ \E s \in Sessions : GetFresh(h, s)
  BY <1>1, GetFronts
<1>2. CASE \E e \in Entries : AttachPool(h, e)
  BY <1>2, AttachPoolFronts
<1>3. CASE DialOk(h)
  BY <1>3, DialFronts
<1>4. ASSUME UNCHANGED <<reaper, frontOf, owner, open, phase, table, backend>>
      PROVE  SameUses /\ SameStages /\ phase' = phase
  BY <1>4 DEF SameUses, SameStages, Using, Attached, Dying, Up
<1>5. CASE GetRefused(h) \/ Reply(h) \/ AttachRefused(h) \/ BorrowRefused(h)
           \/ ConnectRefused(h) \/ DialFail(h) \/ Respond(h)
  <2>1. pc[h] # "idle" /\ Return(h)
    BY <1>5 DEF GetRefused, Reply, AttachRefused, BorrowRefused, ConnectRefused, DialFail, Respond
  <2>2. UNCHANGED <<reaper, frontOf, owner, open, phase, table, backend>>
    BY <1>5 DEF GetRefused, Reply, AttachRefused, BorrowRefused, ConnectRefused, DialFail, Respond,
                gatewayVars, reaperVars, poolVars
  <2> QED
    BY <1>4, <2>1, <2>2, ReturnFronts
<1>6. CASE Admit(h) \/ AttachKnown(h) \/ AttachLock(h) \/ Borrow(h) \/ ConnectKnown(h) \/ Dial(h)
  <2>1. UNCHANGED <<reaper, frontOf, owner, open, phase, table, backend>>
    BY <1>6 DEF Admit, AttachKnown, AttachLock, Borrow, ConnectKnown, Dial, gatewayVars,
                reaperVars, structVars, poolVars
  <2>2. SameRequests
    BY <1>6 DEF Admit, AttachKnown, AttachLock, Borrow, ConnectKnown, Dial, SameRequests,
                FrontsInv, LeaseInv, TypeOK
  <2> QED
    BY <1>4, <2>1, <2>2, SameFronts
<1> QED
  BY <1>1, <1>2, <1>3, <1>5, <1>6 DEF Handle

\* A cleanup takes the backend that its frontend had or leased, if any, and
\* nobody else's.
LEMMA CleanedFronts ==
  ASSUME FrontsInv, NEW s \in Sessions, ReapOwn(s) \/ ReleaseOne(s) \/ ReapEntry(s),
         NEW f, f = frontOf[s]
  PROVE  FrontsStep
<1>1. /\ reaper[s] \in {"holding", "reaping"} /\ f \in Fronts /\ table[f] = s
      /\ f \notin open /\ \A h \in Handlers : from[h] # f
  BY DEF ReapOwn, ReleaseOne, ReapEntry, FrontsInv, LeaseInv, SlotInv, TableLeadsBack,
         Registered, GoneForGood
<1>2. /\ reaper' = [reaper EXCEPT ![s] = "cleaned"]
      /\ UNCHANGED <<open, phase, table, frontOf, owner, pc, from>>
  BY DEF ReapOwn, ReleaseOne, ReapEntry, gatewayVars, handlerVars, poolVars
<1>3. owner[s] # None => backend[s] = "none"
  BY DEF FrontsInv, LeaseInv, MatchInv, OwnersMatch, UpInv, SharedHaveNone
<1>4. \A o \in Structs : ~(Up(o) /\ Using(s, o))'
  <2>1. ~Up(s)'
    <3>1. CASE ReapOwn(s)
      BY <3>1 DEF ReapOwn, Closed, Up, FrontsInv, LeaseInv, TypeOK, Structs
    <3>2. CASE ReleaseOne(s)
      BY <1>3, <3>2 DEF ReleaseOne, Up
    <3>3. CASE ReapEntry(s)
      BY <1>3, <3>3 DEF ReapEntry, Up, FrontsInv, LeaseInv, TypeOK, Structs, LockInv, ReaperLocks
    <3> QED
      BY <3>1, <3>2, <3>3
  <2>2. reaper'[s] = "cleaned"
    BY <1>2 DEF FrontsInv, LeaseInv, TypeOK
  <2> QED
    BY <2>1, <2>2 DEF Using, Attached, Dying
<1>5. \A t \in Sessions \ {s}, o \in Structs : (Up(o) /\ Using(t, o))' <=> Up(o) /\ Using(t, o)
  <2> TAKE t \in Sessions \ {s}, o \in Structs
  <2>1. Using(t, o)' <=> Using(t, o)
    BY <1>2 DEF Using, Attached, Dying, FrontsInv, LeaseInv, TypeOK
  <2>2. Using(t, o) => o # s
    BY DEF Using, Attached, Dying, FrontsInv, LeaseInv, TypeOK
  <2>3. ReapEntry(s) /\ Using(t, o) => o # owner[s]
    <3> SUFFICES ASSUME ReapEntry(s), Using(t, o), o = owner[s] PROVE FALSE
      OBVIOUS
    <3>1. o \in Entries /\ Dying(s, o) /\ Users(o) = {} /\ poolMu = s
      BY DEF ReapEntry, FrontsInv, LeaseInv, TypeOK, LockInv, ReaperLocks, PoolInv, PoolLocked,
             DyingIsUnused, Dying
    <3>2. ~Attached(t, o)
      BY <3>1 DEF Users
    <3>3. ~Dying(t, o)
      BY <3>1 DEF Dying, FrontsInv, LeaseInv, PoolInv, PoolLocked
    <3> QED
      BY <3>1, <3>2, <3>3 DEF Using
  <2>4. o # s /\ (ReapEntry(s) => o # owner[s]) => backend'[o] = backend[o]
    BY DEF ReapOwn, ReleaseOne, ReapEntry, FrontsInv, LeaseInv, TypeOK
  <2> QED
    BY <2>1, <2>2, <2>3, <2>4 DEF Up
<1>6. \A t \in Sessions, o \in Structs : Up(o) /\ Using(t, o) /\ frontOf[t] = f => t = s
  BY <1>1, UserInTable
<1>7. /\ HasBackend(f)' = FALSE
      /\ \A g \in Fronts \ {f} : HasBackend(g)' = HasBackend(g)
  <2>1. HasBackend(f)' = FALSE
    BY <1>2, <1>4, <1>5, <1>6 DEF HasBackend, Uses
  <2>2. \A g \in Fronts \ {f} : HasBackend(g)' = HasBackend(g)
    BY <1>2, <1>5 DEF HasBackend, Uses
  <2> QED
    BY <2>1, <2>2
<1>8. SameStages /\ SameRequests
  BY <1>1, <1>2 DEF SameStages, SameRequests, FrontsInv, LeaseInv, TypeOK
<1>9. \A g \in Fronts : /\ StageOf(g)' = StageOf(g)
                        /\ ArrivedOf(g)' = ArrivedOf(g) /\ ServingOf(g)' = ServingOf(g)
  BY <1>8, SameStagesAre, SameRequestsAre
<1>10. CASE HasBackend(f)
  <2>1. StageOf(f) = "ended" /\ ServingOf(f) = {}
    BY <1>1, StageHere DEF ServingOf
  <2>2. Promise!Clean(f)
    BY <1>1, <1>2, <1>7, <1>9, <1>10, <2>1 DEF Promise!Clean
  <2> QED
    BY <1>1, <2>2 DEF FrontsStep, Promise!FrontsNext
<1>11. CASE ~HasBackend(f)
  <2>1. \A g \in Fronts : HasBackend(g)' = HasBackend(g)
    BY <1>7, <1>11 DEF HasBackend
  <2> QED
    BY <1>2, <1>9, <2>1 DEF FrontsStep, Promise!frontVars
<1> QED
  BY <1>10, <1>11

\* A frontend is forgotten once its cleanup has taken its backend.
LEMMA ForgetFronts ==
  ASSUME FrontsInv, NEW s \in Sessions, Forget(s), NEW f, f = frontOf[s]
  PROVE  FrontsStep
<1>1. /\ reaper[s] = "cleaned" /\ f \in Fronts /\ table[f] = s
      /\ f \notin open /\ \A h \in Handlers : from[h] # f
  BY DEF Forget, FrontsInv, LeaseInv, SlotInv, TableLeadsBack, Registered, GoneForGood
<1>2. /\ reaper' = [reaper EXCEPT ![s] = "done"] /\ table' = [table EXCEPT ![f] = None]
      /\ UNCHANGED <<open, phase, frontOf, owner, backend, pc, from>>
  BY DEF Forget, structVars, poolVars, handlerVars
<1>3. ~HasBackend(f)
  BY <1>1, UserInTable DEF HasBackend, Uses
<1>4. SameUses
  BY <1>1, <1>2 DEF SameUses, Using, Attached, Dying, Up, FrontsInv, LeaseInv, TypeOK
<1>5. StageOf(f) = "ended" /\ ServingOf(f) = {}
  BY <1>1, StageHere DEF ServingOf
<1>6. StageOf(f)' = "reaped"
  BY <1>1, <1>2 DEF StageOf, FrontsInv, LeaseInv, TypeOK
<1>7. \A g \in Fronts \ {f} : StageOf(g)' = StageOf(g)
  BY <1>1, <1>2 DEF StageOf, FrontsInv, LeaseInv, TypeOK
<1>8. \A g \in Fronts : /\ HasBackend(g)' = HasBackend(g)
                        /\ ArrivedOf(g)' = ArrivedOf(g) /\ ServingOf(g)' = ServingOf(g)
  BY <1>2, <1>4, SameUsesHave DEF ArrivedOf, ServingOf
<1>9. Promise!Forget(f)
  BY <1>1, <1>2, <1>3, <1>5, <1>6, <1>7, <1>8 DEF Promise!Forget
<1> QED
  BY <1>1, <1>9 DEF FrontsStep, Promise!FrontsNext

LEMMA ReapFronts == ASSUME FrontsInv, NEW s \in Sessions, Reap(s) PROVE FrontsStep
<1>1. CASE ReapOwn(s) \/ ReleaseOne(s) \/ ReapEntry(s)
  BY <1>1, CleanedFronts
<1>2. CASE Forget(s)
  BY <1>2, ForgetFronts
<1>3. CASE Wake(s) \/ ReapLock(s) \/ ReleaseLast(s) \/ ReapEntryLock(s)
  <2>1. UNCHANGED <<open, phase, table, frontOf, backend, owner, handlerVars>>
    BY <1>3 DEF Wake, ReapLock, ReleaseLast, ReapEntryLock, gatewayVars, poolVars
  <2>2. \/ reaper[s] \in {"waiting", "woken"}
             /\ \E r \in {"woken", "holding"} : reaper' = [reaper EXCEPT ![s] = r]
        \/ reaper[s] \in {"holding", "last"}
             /\ \E r \in {"last", "reaping"} : reaper' = [reaper EXCEPT ![s] = r]
    BY <1>3 DEF Wake, ReapLock, ReleaseLast, ReapEntryLock
  <2>3. SameUses
    BY <2>1, <2>2 DEF SameUses, Using, Attached, Dying, Up, FrontsInv, LeaseInv, TypeOK
  <2>4. SameStages /\ SameRequests
    BY <2>1, <2>2 DEF SameStages, SameRequests, handlerVars, FrontsInv, LeaseInv, TypeOK
  <2> QED
    BY <2>1, <2>3, <2>4, SameFronts
<1> QED
  BY <1>1, <1>2, <1>3 DEF Reap

\* A frontend that is not registered may end without notice of the gateway.
LEMMA EndFronts ==
  ASSUME FrontsInv, NEW f \in Fronts, open' = open \ {f},
         UNCHANGED <<phase, table, reaperVars, structVars, poolVars, handlerVars>>
  PROVE  FrontsStep
<1>1. SameUses
  BY DEF SameUses, Using, Attached, Dying, Up, reaperVars, structVars, poolVars
<1>2. SameRequests
  BY DEF SameRequests, handlerVars
<1>3. CASE table[f] = None \/ f \notin open
  <2>1. SameStages
    BY <1>3 DEF SameStages, reaperVars
  <2> QED
    BY <1>1, <1>2, <2>1, SameFronts
<1>4. CASE table[f] # None /\ f \in open
  <2>1. StageOf(f) = "registered" /\ StageOf(f)' = "ended"
    BY <1>4 DEF StageOf
  <2>2. \A g \in Fronts \ {f} : StageOf(g)' = StageOf(g)
    BY DEF StageOf, reaperVars
  <2>3. \A g \in Fronts : /\ HasBackend(g)' = HasBackend(g)
                          /\ ArrivedOf(g)' = ArrivedOf(g) /\ ServingOf(g)' = ServingOf(g)
    BY <1>1, <1>2, SameUsesHave, SameRequestsAre
  <2>4. Promise!End({f})
    BY <2>1, <2>2 DEF Promise!End, Promise!Registered
  <2>5. Promise!EndOrClose
    BY <2>3, <2>4 DEF Promise!EndOrClose
  <2> QED
    BY <2>5 DEF FrontsStep, Promise!FrontsNext
<1> QED
  BY <1>3, <1>4

LEMMA CloseFronts == ASSUME FrontsInv, Close PROVE FrontsStep
<1>1. ASSUME NEW f \in Fronts, CloseFront(f) PROVE FrontsStep
  BY <1>1, EndFronts DEF CloseFront
<1>2. CASE CloseBegin \/ CloseFrontDone \/ CloseReturn
  <2>1. UNCHANGED <<open, table, reaperVars, structVars, poolVars, handlerVars>>
    BY <1>2 DEF CloseBegin, CloseFrontDone, CloseReturn
  <2>2. SameUses /\ SameStages /\ SameRequests
    BY <2>1 DEF SameUses, SameStages, SameRequests, Using, Attached, Dying, Up, reaperVars,
                structVars, poolVars, handlerVars
  <2>3. CASE CloseBegin
    <3>1. \A g \in Fronts : /\ StageOf(g)' = StageOf(g) /\ HasBackend(g)' = HasBackend(g)
                            /\ ArrivedOf(g)' = ArrivedOf(g) /\ ServingOf(g)' = ServingOf(g)
      BY <2>2, SameUsesHave, SameStagesAre, SameRequestsAre
    <3>2. Promise!End({})
      BY <3>1 DEF Promise!End
    <3>3. phase' # "serving"
      BY <2>3 DEF CloseBegin
    <3>4. Promise!EndOrClose
      BY <3>1, <3>2, <3>3 DEF Promise!EndOrClose
    <3> QED
      BY <3>4 DEF FrontsStep, Promise!FrontsNext
  <2>4. CASE CloseFrontDone \/ CloseReturn
    BY <2>2, <2>4, SameFronts DEF CloseFrontDone, CloseReturn
  <2> QED
    BY <1>2, <2>3, <2>4
<1> QED
  BY <1>1, <1>2 DEF Close

LEMMA EnvironmentFronts == ASSUME FrontsInv, Environment PROVE FrontsStep
<1>1. ASSUME NEW h \in Handlers, NEW f \in Fronts, Arrive(h, f) PROVE FrontsStep
  <2>1. /\ pc[h] = "idle" /\ pc' = [pc EXCEPT ![h] = "get"] /\ from' = [from EXCEPT ![h] = f]
        /\ UNCHANGED <<open, phase, table, reaper, frontOf, backend, owner>>
    BY <1>1 DEF Arrive, gatewayVars, reaperVars, structVars, poolVars
  <2>2. SameUses /\ SameStages
    BY <2>1 DEF SameUses, SameStages, Using, Attached, Dying, Up
  <2>3. \A g \in Fronts : h \notin ArrivedOf(g) \cup ServingOf(g)
    BY <2>1 DEF ArrivedOf, ServingOf
  <2>4. \A g \in Fronts : /\ ArrivedOf(g)' = IF g = f THEN ArrivedOf(g) \cup {h} ELSE ArrivedOf(g)
                          /\ ServingOf(g)' = ServingOf(g)
    BY <2>1 DEF ArrivedOf, ServingOf, FrontsInv, LeaseInv, TypeOK
  <2>5. \A g \in Fronts : StageOf(g)' = StageOf(g) /\ HasBackend(g)' = HasBackend(g)
    BY <2>2, SameUsesHave, SameStagesAre
  <2>6. Promise!Arrive(f, h)
    BY <2>1, <2>3, <2>4, <2>5 DEF Promise!Arrive
  <2> QED
    BY <2>6 DEF FrontsStep, Promise!FrontsNext
<1>2. ASSUME NEW f \in Fronts, Disconnect(f) PROVE FrontsStep
  BY <1>2, EndFronts DEF Disconnect
<1>3. CASE (\E h \in Handlers : Expire(h)) \/ \E o \in Structs : Crash(o)
  <2>1. /\ UNCHANGED <<open, phase, table, reaper, frontOf, owner, pc, from>>
        /\ \A o \in Structs : Up(o)' <=> Up(o)
    BY <1>3 DEF Expire, Crash, Up, gatewayVars, reaperVars, structVars, poolVars, handlerVars,
                FrontsInv, LeaseInv, TypeOK
  <2>2. SameUses /\ SameStages /\ SameRequests
    BY <2>1 DEF SameUses, SameStages, SameRequests, Using, Attached, Dying
  <2> QED
    BY <2>1, <2>2, SameFronts
<1> QED
  BY <1>1, <1>2, <1>3 DEF Environment

LEMMA FrontsHold == FrontsInv /\ [Next]_vars => FrontsStep
<1> SUFFICES ASSUME FrontsInv, [Next]_vars PROVE FrontsStep
  OBVIOUS
<1>1. CASE UNCHANGED vars
  <2>1. SameUses /\ SameStages /\ SameRequests /\ phase' = phase
    BY <1>1 DEF vars, gatewayVars, reaperVars, structVars, poolVars, handlerVars, SameUses,
                SameStages, SameRequests, Using, Attached, Dying, Up
  <2> QED
    BY <2>1, SameFronts
<1> QED
  BY <1>1, HandleFronts, ReapFronts, CloseFronts, EnvironmentFronts DEF Next

\* A backend that is up is some frontend's, and when Close has returned every
\* frontend that was registered is reaped.
LEMMA FrontsKept ==
  FrontsInv => /\ \A o \in Structs : Up(o) => \E f \in Fronts : Uses(f, o)
               /\ phase = "closed" => Promise!ReapersDone
<1> SUFFICES ASSUME FrontsInv
             PROVE  /\ \A o \in Structs : Up(o) => \E f \in Fronts : Uses(f, o)
                    /\ phase = "closed" => Promise!ReapersDone
  OBVIOUS
<1>1. ASSUME NEW o \in Structs, Up(o) PROVE \E f \in Fronts : Uses(f, o)
  <2>1. PICK s \in Sessions : Using(s, o)
    BY <1>1 DEF FrontsInv, LeaseInv, UpInv, EntriesHaveReaper, Structs, Using
  <2> QED
    BY <1>1, <2>1, UserInTable DEF Uses
<1>2. ASSUME phase = "closed" PROVE Promise!ReapersDone
  <2>1. \A f \in Fronts : table[f] = None
    BY <1>2 DEF FrontsInv, ClosedInv, ReapersDone, LeaseInv, MatchInv, FrontsMatch, Registered,
                TypeOK
  <2> QED
    BY <2>1 DEF Promise!ReapersDone, StageOf
<1> QED
  BY <1>1, <1>2

\* The gateway does to the process that runs it what Frontends promises and
\* Daemon takes for granted: a request is served only by a registered frontend
\* of a gateway that is not closed, a cleanup waits for the requests and takes
\* nobody else's backend, and Close leaves nothing (bridge.go:39-106,
\* shared.go:18-66).
THEOREM FrontendsImplemented == ASSUME Drains PROVE Spec => ImplementsFrontends
<1>1. Init => Promise!FrontsInit
  <2> SUFFICES ASSUME Init PROVE Promise!FrontsInit
    OBVIOUS
  <2>1. \A f \in Fronts : /\ StageOf(f) = "none" /\ HasBackend(f) = FALSE
                          /\ ArrivedOf(f) = {} /\ ServingOf(f) = {}
    BY DEF Init, StageOf, HasBackend, Up, ArrivedOf, ServingOf
  <2>2. phase = "serving"
    BY DEF Init
  <2> QED
    BY <2>1, <2>2 DEF Promise!FrontsInit
<1>2. FrontsInv /\ [Next]_vars => [Promise!FrontsNext]_(Promise!frontVars)
  BY FrontsHold DEF FrontsStep
<1>3. Spec => []FrontsInv
  BY TypeCorrect, LockInvariant, SlotInvariant, PoolInvariant, MatchInvariant, GoneInvariant,
     UpInvariant, ClosedInvariant, PTL DEF FrontsInv, LeaseInv
<1> QED
  BY <1>1, <1>2, <1>3, FrontsKept, PTL DEF Spec, ImplementsFrontends, Promise!FrontsSpec

=============================================================================
