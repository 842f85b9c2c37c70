--------------------------- MODULE GatewayProofs ---------------------------
(***************************************************************************)
(* Types, mutexes and counters of the gateway, for any number of           *)
(* frontends, handlers and principals, any limits, and whether or not      *)
(* front.Wait outlasts the handlers.                                       *)
(***************************************************************************)
EXTENDS Gateway, FiniteSetTheorems, TLAPS

USE GatewayAssumption

\* Every handler, whichever of its steps it takes, keeps the types.
LEMMA HandleType ==
  ASSUME TypeOK, NEW h \in Handlers, Handle(h)
  PROVE  TypeOK'
<1> USE DEF TypeOK, vars, gatewayVars, reaperVars, structVars, poolVars, handlerVars,
            Structs, Admitted, Borrowed
<1>1. CASE GetRefused(h)
  BY <1>1 DEF GetRefused, Return, GiveBack
<1>2. CASE GetKnown(h)
  BY <1>2 DEF GetKnown, SessionOf
<1>3. ASSUME NEW s \in Sessions, GetFresh(h, s) PROVE TypeOK'
  BY <1>3 DEF GetFresh
<1>4. CASE Reply(h)
  BY <1>4 DEF Reply, Return, GiveBack
<1>5. CASE Admit(h)
  BY <1>5 DEF Admit
<1>6. CASE AttachRefused(h)
  BY <1>6 DEF AttachRefused, Return, GiveBack
<1>7. CASE AttachKnown(h)
  BY <1>7 DEF AttachKnown, HasOwner
<1>8. CASE AttachLock(h)
  BY <1>8 DEF AttachLock
<1>9. ASSUME NEW e \in Entries, AttachPool(h, e) PROVE TypeOK'
  <2>1. from[h] \in Fronts /\ Principal(h) \in Principals \cup {None}
    BY <1>9 DEF AttachPool, Principal
  <2>2. /\ owner' \in [Sessions -> Entries \cup {None}]
        /\ entries' \in [Principals -> Entries \cup {None}]
        /\ key' \in [Entries -> Principals \cup {None}]
    BY <1>9, <2>1 DEF AttachPool
  <2>4. refs' \in [Entries -> Int]
    <3>1. refs \in [Entries -> Int] /\ refs[e] + 1 \in Int
      OBVIOUS
    <3> QED
      BY <3>1, <1>9 DEF AttachPool
  <2>3. /\ mu' \in [Structs -> Handlers \cup Sessions \cup {None}]
        /\ pc' = [pc EXCEPT ![h] = "borrow"] /\ target' = [target EXCEPT ![h] = e]
        /\ UNCHANGED <<gatewayVars, reaperVars, backend, failed, calls, cancelled, poolMu,
                       from, state, expired>>
    BY <1>9 DEF AttachPool
  <2> QED
    BY <2>2, <2>3, <2>4, <1>9 DEF AttachPool
<1>10. CASE Borrow(h)
  BY <1>10 DEF Borrow
<1>11. CASE BorrowRefused(h)
  BY <1>11 DEF BorrowRefused, Return, GiveBack
<1>12. CASE ConnectRefused(h)
  BY <1>12 DEF ConnectRefused, Return, GiveBack
<1>13. CASE ConnectKnown(h)
  BY <1>13 DEF ConnectKnown
<1>14. CASE Dial(h)
  BY <1>14 DEF Dial
<1>15. CASE DialOk(h)
  BY <1>15 DEF DialOk
<1>16. CASE DialFail(h)
  BY <1>16 DEF DialFail, Return, GiveBack
<1>17. CASE Respond(h)
  BY <1>17 DEF Respond, Return, GiveBack
<1> QED
  BY <1>1, <1>2, <1>3, <1>4, <1>5, <1>6, <1>7, <1>8, <1>9, <1>10, <1>11, <1>12,
     <1>13, <1>14, <1>15, <1>16, <1>17 DEF Handle

\* So does every step of a reaper, of Close and of the environment.
LEMMA OtherType ==
  ASSUME TypeOK,
         \/ \E s \in Sessions : Reap(s)
         \/ Close \/ Environment
  PROVE  TypeOK'
<1> USE DEF TypeOK, vars, gatewayVars, reaperVars, structVars, poolVars, handlerVars,
            Structs, Admitted, Borrowed
<1>1. ASSUME NEW s \in Sessions, Wake(s) PROVE TypeOK'
  BY <1>1 DEF Wake
<1>2. ASSUME NEW s \in Sessions, ReapLock(s) PROVE TypeOK'
  BY <1>2 DEF ReapLock
<1>3. ASSUME NEW s \in Sessions, ReapOwn(s) PROVE TypeOK'
  BY <1>3 DEF ReapOwn, Closed
<1>4. ASSUME NEW s \in Sessions, ReleaseOne(s) PROVE TypeOK'
  BY <1>4 DEF ReleaseOne
<1>5. ASSUME NEW s \in Sessions, ReleaseLast(s) PROVE TypeOK'
  BY <1>5 DEF ReleaseLast
<1>6. ASSUME NEW s \in Sessions, ReapEntryLock(s) PROVE TypeOK'
  BY <1>6 DEF ReapEntryLock
<1>7. ASSUME NEW s \in Sessions, ReapEntry(s) PROVE TypeOK'
  <2>1. backend' \in [Structs -> {"none", "live", "dead", "closed"}]
    BY <1>7 DEF ReapEntry, Closed
  <2>2. mu' \in [Structs -> Handlers \cup Sessions \cup {None}]
    BY <1>7 DEF ReapEntry
  <2>3. /\ entries' \in [Principals -> Entries \cup {None}]
        /\ reaper' = [reaper EXCEPT ![s] = "cleaned"] /\ poolMu' = None
        /\ UNCHANGED <<gatewayVars, frontOf, failed, calls, cancelled, owner, refs, key,
                       handlerVars>>
    BY <1>7 DEF ReapEntry
  <2> QED
    BY <2>1, <2>2, <2>3
<1>8. ASSUME NEW s \in Sessions, Forget(s) PROVE TypeOK'
  <2>1. slots' \in Nat
    BY <1>8 DEF Forget, SlotGivenBack
  <2>2. table' \in [Fronts -> Sessions \cup {None}]
    BY <1>8 DEF Forget
  <2>3. /\ reaper' = [reaper EXCEPT ![s] = "done"]
        /\ UNCHANGED <<open, phase, closing, pending, frontOf, structVars, poolVars, handlerVars>>
    BY <1>8 DEF Forget
  <2> QED
    BY <2>1, <2>2, <2>3
<1>9. CASE CloseBegin
  BY <1>9 DEF CloseBegin
<1>10. ASSUME NEW f \in Fronts, CloseFront(f) PROVE TypeOK'
  BY <1>10 DEF CloseFront
<1>11. CASE CloseFrontDone
  BY <1>11 DEF CloseFrontDone
<1>12. CASE CloseReturn
  BY <1>12 DEF CloseReturn
<1>13. ASSUME NEW h \in Handlers, NEW f \in Fronts, Arrive(h, f) PROVE TypeOK'
  BY <1>13 DEF Arrive
<1>14. ASSUME NEW f \in Fronts, Disconnect(f) PROVE TypeOK'
  BY <1>14 DEF Disconnect
<1>15. ASSUME NEW h \in Handlers, Expire(h) PROVE TypeOK'
  BY <1>15 DEF Expire
<1>16. ASSUME NEW o \in Structs, Crash(o) PROVE TypeOK'
  BY <1>16 DEF Crash
<1> QED
  BY <1>1, <1>2, <1>3, <1>4, <1>5, <1>6, <1>7, <1>8, <1>9, <1>10, <1>11, <1>12,
     <1>13, <1>14, <1>15, <1>16 DEF Reap, Close, Environment

\* Types are correct in every state, for every value of the constants.
THEOREM TypeCorrect == Spec => []TypeOK
<1>1. Init => TypeOK
  BY DEF Init, TypeOK, Structs, Admitted, Borrowed
<1>2. TypeOK /\ [Next]_vars => TypeOK'
  <2>1. TypeOK /\ Next => TypeOK'
    BY HandleType, OtherType DEF Next
  <2>2. TypeOK /\ UNCHANGED vars => TypeOK'
    BY DEF TypeOK, vars, gatewayVars, reaperVars, structVars, poolVars, handlerVars
  <2> QED
    BY <2>1, <2>2
<1> QED
  BY <1>1, <1>2, PTL DEF Spec

-----------------------------------------------------------------------------
(* Mutexes: a struct's backend is dialled by one handler at a time, and no *)
(* frontend attaches behind the back of its own cleanup.                   *)

USE DEF GatewayAssumption

\* Who holds which mutex, from the places where handlers and reapers are.
HandlerLocks ==
  \A h \in Handlers :
    /\ pc[h] = "attaching" => mu[state[h]] = h
    /\ pc[h] = "dialing" => mu[target[h]] = h

ReaperLocks ==
  \A s \in Sessions :
    /\ reaper[s] \in {"holding", "last", "reaping"} => mu[s] = s
    /\ reaper[s] \in {"last", "reaping"} => owner[s] # None
    /\ reaper[s] = "reaping" => mu[owner[s]] = s

\* The context of a session struct ends before its reaper asks for the mutex.
ReaperCancels ==
  \A s \in Sessions : reaper[s] \notin {"none", "waiting"} => cancelled[s]

\* A handler's session struct has a reaper, which cannot have had the mutex
\* before a handler that is attaching.
HandlerReapers ==
  \A h \in Handlers :
    /\ pc[h] \in Admitted \cup {"admit"} => reaper[state[h]] # "none"
    /\ pc[h] = "attaching" => reaper[state[h]] \in {"waiting", "woken"}

\* The struct that a handler dials for has no backend yet.
DialsForNone ==
  \A h \in Handlers : pc[h] = "dialing" =>
    backend[target[h]] = "none" /\ ~failed[target[h]]

\* The table leads to structs that have a reaper.
TableReapers == \A f \in Fronts : table[f] # None => reaper[table[f]] # "none"

LockInv ==
  /\ HandlerLocks /\ ReaperLocks /\ ReaperCancels
  /\ HandlerReapers /\ DialsForNone /\ TableReapers

LEMMA FreshIsIn == ASSUME NEW S, NEW x \in Fresh(S) PROVE x \in S
  BY DEF Fresh

\* A handler that returns leaves every mutex alone, unless it was dialling.
LEMMA ReturnLocks ==
  ASSUME TypeOK, LockInv, NEW h \in Handlers, Return(h),
         UNCHANGED <<reaperVars, mu, backend, failed, cancelled, owner, table>>
  PROVE  LockInv'
  BY DEF TypeOK, LockInv, HandlerLocks, ReaperLocks, ReaperCancels, HandlerReapers,
         DialsForNone, TableReapers, Structs, Admitted, Borrowed, Return, reaperVars

-----------------------------------------------------------------------------
LEMMA HandleLocks ==
  ASSUME TypeOK, LockInv, NEW h \in Handlers, Handle(h)
  PROVE  LockInv'
<1> USE DEF TypeOK, LockInv, HandlerLocks, ReaperLocks, ReaperCancels, HandlerReapers,
            DialsForNone, TableReapers, Structs, Admitted, Borrowed,
            gatewayVars, reaperVars, structVars, poolVars, handlerVars
<1>1. CASE GetRefused(h)
  BY <1>1, ReturnLocks DEF GetRefused
<1>2. CASE GetKnown(h)
  BY <1>2 DEF GetKnown, SessionOf
<1>3. ASSUME NEW s \in Sessions, GetFresh(h, s) PROVE LockInv'
  <2>1. reaper[s] = "none"
    BY <1>3, FreshIsIn DEF GetFresh, FreshSession
  <2> QED
    BY <1>3, <2>1 DEF GetFresh
<1>4. CASE Reply(h)
  BY <1>4, ReturnLocks DEF Reply
<1>5. CASE Admit(h)
  BY <1>5 DEF Admit
<1>6. CASE AttachRefused(h)
  BY <1>6, ReturnLocks DEF AttachRefused
<1>7. CASE AttachKnown(h)
  BY <1>7 DEF AttachKnown, HasOwner
<1>8. CASE AttachLock(h)
  BY <1>8 DEF AttachLock, MutexFree, CtxDone
<1>9. ASSUME NEW e \in Entries, AttachPool(h, e) PROVE LockInv'
  BY <1>9 DEF AttachPool
<1>10. CASE Borrow(h)
  BY <1>10 DEF Borrow
<1>11. CASE BorrowRefused(h)
  BY <1>11, ReturnLocks DEF BorrowRefused
<1>12. CASE ConnectRefused(h)
  BY <1>12, ReturnLocks DEF ConnectRefused
<1>13. CASE ConnectKnown(h)
  BY <1>13 DEF ConnectKnown
<1>14. CASE Dial(h)
  BY <1>14 DEF Dial, MutexFree
<1>15. CASE DialOk(h)
  BY <1>15 DEF DialOk
<1>16. CASE DialFail(h)
  BY <1>16 DEF DialFail, Return
<1>17. CASE Respond(h)
  BY <1>17, ReturnLocks DEF Respond
<1> QED
  BY <1>1, <1>2, <1>3, <1>4, <1>5, <1>6, <1>7, <1>8, <1>9,
     <1>10, <1>11, <1>12, <1>13, <1>14, <1>15, <1>16, <1>17 DEF Handle

LEMMA OtherLocks ==
  ASSUME TypeOK, LockInv,
         \/ \E s \in Sessions : Reap(s)
         \/ Close \/ Environment
  PROVE  LockInv'
<1> USE DEF TypeOK, LockInv, HandlerLocks, ReaperLocks, ReaperCancels, HandlerReapers,
            DialsForNone, TableReapers, Structs, Admitted, Borrowed,
            gatewayVars, reaperVars, structVars, poolVars, handlerVars
<1>1. ASSUME NEW s \in Sessions, Wake(s) PROVE LockInv'
  BY <1>1 DEF Wake
<1>2. ASSUME NEW s \in Sessions, ReapLock(s) PROVE LockInv'
  BY <1>2 DEF ReapLock, MutexFree
<1>3. ASSUME NEW s \in Sessions, ReapOwn(s) PROVE LockInv'
  BY <1>3 DEF ReapOwn, Closed
<1>4. ASSUME NEW s \in Sessions, ReleaseOne(s) PROVE LockInv'
  BY <1>4 DEF ReleaseOne
<1>5. ASSUME NEW s \in Sessions, ReleaseLast(s) PROVE LockInv'
  BY <1>5 DEF ReleaseLast
<1>6. ASSUME NEW s \in Sessions, ReapEntryLock(s) PROVE LockInv'
  BY <1>6 DEF ReapEntryLock, MutexFree
<1>7. ASSUME NEW s \in Sessions, ReapEntry(s) PROVE LockInv'
  BY <1>7 DEF ReapEntry, Closed
<1>8. ASSUME NEW s \in Sessions, Forget(s) PROVE LockInv'
  BY <1>8 DEF Forget
<1>9. CASE CloseBegin
  BY <1>9 DEF CloseBegin
<1>10. ASSUME NEW f \in Fronts, CloseFront(f) PROVE LockInv'
  BY <1>10 DEF CloseFront
<1>11. CASE CloseFrontDone
  BY <1>11 DEF CloseFrontDone
<1>12. CASE CloseReturn
  BY <1>12 DEF CloseReturn
<1>13. ASSUME NEW h \in Handlers, NEW f \in Fronts, Arrive(h, f) PROVE LockInv'
  BY <1>13 DEF Arrive
<1>14. ASSUME NEW f \in Fronts, Disconnect(f) PROVE LockInv'
  BY <1>14 DEF Disconnect
<1>15. ASSUME NEW h \in Handlers, Expire(h) PROVE LockInv'
  BY <1>15 DEF Expire
<1>16. ASSUME NEW o \in Structs, Crash(o) PROVE LockInv'
  BY <1>16 DEF Crash
<1> QED
  BY <1>1, <1>2, <1>3, <1>4, <1>5, <1>6, <1>7, <1>8,
     <1>9, <1>10, <1>11, <1>12, <1>13, <1>14, <1>15, <1>16 DEF Reap, Close, Environment

LEMMA LockInvariant == Spec => []LockInv
<1>1. Init => LockInv
  BY DEF Init, LockInv, HandlerLocks, ReaperLocks, ReaperCancels, HandlerReapers,
         DialsForNone, TableReapers, Structs, Admitted, Borrowed
<1>2. TypeOK /\ LockInv /\ [Next]_vars => LockInv'
  <2>1. TypeOK /\ LockInv /\ Next => LockInv'
    BY HandleLocks, OtherLocks DEF Next
  <2>2. LockInv /\ UNCHANGED vars => LockInv'
    BY DEF LockInv, HandlerLocks, ReaperLocks, ReaperCancels, HandlerReapers,
           DialsForNone, TableReapers, Admitted, Borrowed,
           vars, gatewayVars, reaperVars, structVars, poolVars, handlerVars
  <2> QED
    BY <2>1, <2>2
<1> QED
  BY <1>1, <1>2, TypeCorrect, PTL DEF Spec

-----------------------------------------------------------------------------
\* Concurrent first calls start one backend (bridge.go:91-107), whichever
\* session or principal they are for: by the mutex that connect holds.
THEOREM OneDialAtATime == Spec => []OneDial
<1>1. TypeOK /\ LockInv => OneDial
  BY DEF TypeOK, LockInv, HandlerLocks, DialsForNone, OneDial, Structs
<1> QED
  BY <1>1, LockInvariant, TypeCorrect, PTL

\* A frontend whose cleanup has passed its mutex gets no shared backend any
\* more (shared.go:26-31), even if its handlers outlive front.Wait.
THEOREM NoLateAttach == Spec => LateAttachRefused
<1>1. TypeOK /\ LockInv /\ [Next]_vars => AttachesInTime
  <2> SUFFICES ASSUME TypeOK, LockInv, [Next]_vars, NEW s \in Sessions, owner'[s] # owner[s]
               PROVE  reaper[s] \in {"waiting", "woken"}
    BY DEF AttachesInTime
  <2>1. PICK h \in Handlers, e \in Entries : AttachPool(h, e)
    <3>1. \A h \in Handlers : Handle(h) => owner' = owner \/ \E e \in Entries : AttachPool(h, e)
      BY DEF Handle, GetRefused, GetKnown, GetFresh, Reply, Admit, AttachRefused, AttachKnown,
             AttachLock, Borrow, BorrowRefused, ConnectRefused, ConnectKnown, Dial, DialOk,
             DialFail, Respond, poolVars
    <3>2. (\E t \in Sessions : Reap(t)) => owner' = owner
      BY DEF Reap, Wake, ReapLock, ReapOwn, ReleaseOne, ReleaseLast, ReapEntryLock, ReapEntry,
             Forget, poolVars
    <3>3. Close \/ Environment => owner' = owner
      BY DEF Close, CloseBegin, CloseFront, CloseFrontDone, CloseReturn, Environment,
             Arrive, Disconnect, Expire, Crash, poolVars
    <3>4. UNCHANGED vars => owner' = owner
      BY DEF vars, poolVars
    <3> QED
      BY <3>1, <3>2, <3>3, <3>4 DEF Next
  <2>2. pc[h] = "attaching" /\ state[h] = s
    BY <2>1 DEF AttachPool, TypeOK
  <2> QED
    BY <2>2 DEF LockInv, HandlerReapers
<1> QED
  BY <1>1, LockInvariant, TypeCorrect, PTL DEF Spec, LateAttachRefused

-----------------------------------------------------------------------------
(* The order of the mutexes: a frontend's, the pool's, a backend's.        *)

\* Whoever holds a mutex is at a place that gives it back.
HoldersInPlace ==
  \A o \in Structs : mu[o] # None =>
    \/ mu[o] \in Handlers /\ pc[mu[o]] = "attaching" /\ state[mu[o]] = o
    \/ mu[o] \in Handlers /\ pc[mu[o]] = "dialing" /\ target[mu[o]] = o
    \/ mu[o] = o /\ o \in Sessions /\ reaper[o] \in {"holding", "last", "reaping"}
    \/ mu[o] \in Sessions /\ reaper[mu[o]] = "reaping" /\ owner[mu[o]] = o

PoolHolderInPlace == poolMu # None => reaper[poolMu] \in {"last", "reaping"}

\* front.Wait of a session struct's own frontend waits for its requests.
RequestsOfFronts ==
  /\ \A h \in Handlers : pc[h] = "idle" => from[h] = None
  /\ \A s \in Sessions : reaper[s] = "waiting" => frontOf[s] # None

HeldInv == HoldersInPlace /\ PoolHolderInPlace /\ RequestsOfFronts

LEMMA HandleHeld ==
  ASSUME TypeOK, LockInv, HeldInv, NEW h \in Handlers, Handle(h)
  PROVE  HeldInv'
<1> USE DEF TypeOK, HeldInv, HoldersInPlace, PoolHolderInPlace, RequestsOfFronts, Structs, Admitted,
            Borrowed, gatewayVars, reaperVars, structVars, poolVars, handlerVars
<1>1. CASE GetRefused(h)
  BY <1>1 DEF GetRefused, Return
<1>2. CASE GetKnown(h)
  BY <1>2 DEF GetKnown
<1>3. ASSUME NEW s \in Sessions, GetFresh(h, s) PROVE HeldInv'
  <2>1. reaper[s] = "none"
    BY <1>3, FreshIsIn DEF GetFresh, FreshSession
  <2> QED
    BY <1>3, <2>1 DEF GetFresh
<1>4. CASE Reply(h)
  BY <1>4 DEF Reply, Return
<1>5. CASE Admit(h)
  BY <1>5 DEF Admit
<1>6. CASE AttachRefused(h)
  BY <1>6 DEF AttachRefused, Return
<1>7. CASE AttachKnown(h)
  BY <1>7 DEF AttachKnown
<1>8. CASE AttachLock(h)
  BY <1>8 DEF AttachLock, MutexFree
<1>9. ASSUME NEW e \in Entries, AttachPool(h, e) PROVE HeldInv'
  <2>1. pc[h] = "attaching" /\ reaper[state[h]] \in {"waiting", "woken"}
    BY <1>9 DEF AttachPool, LockInv, HandlerReapers
  <2> QED
    BY <1>9, <2>1 DEF AttachPool
<1>10. CASE Borrow(h)
  BY <1>10 DEF Borrow
<1>11. CASE BorrowRefused(h)
  BY <1>11 DEF BorrowRefused, Return
<1>12. CASE ConnectRefused(h)
  BY <1>12 DEF ConnectRefused, Return
<1>13. CASE ConnectKnown(h)
  BY <1>13 DEF ConnectKnown
<1>14. CASE Dial(h)
  BY <1>14 DEF Dial, MutexFree
<1>15. CASE DialOk(h)
  BY <1>15 DEF DialOk
<1>16. CASE DialFail(h)
  BY <1>16 DEF DialFail, Return
<1>17. CASE Respond(h)
  BY <1>17 DEF Respond, Return
<1> QED
  BY <1>1, <1>2, <1>3, <1>4, <1>5, <1>6, <1>7, <1>8, <1>9,
     <1>10, <1>11, <1>12, <1>13, <1>14, <1>15, <1>16, <1>17 DEF Handle

LEMMA OtherHeld ==
  ASSUME TypeOK, LockInv, HeldInv,
         \/ \E s \in Sessions : Reap(s)
         \/ Close \/ Environment
  PROVE  HeldInv'
<1> USE DEF TypeOK, HeldInv, HoldersInPlace, PoolHolderInPlace, RequestsOfFronts, Structs, Admitted,
            Borrowed, gatewayVars, reaperVars, structVars, poolVars, handlerVars
<1>1. ASSUME NEW s \in Sessions, Wake(s) PROVE HeldInv'
  BY <1>1 DEF Wake
<1>2. ASSUME NEW s \in Sessions, ReapLock(s) PROVE HeldInv'
  BY <1>2 DEF ReapLock, MutexFree
<1>3. ASSUME NEW s \in Sessions, ReapOwn(s) PROVE HeldInv'
  BY <1>3 DEF ReapOwn
<1>4. ASSUME NEW s \in Sessions, ReleaseOne(s) PROVE HeldInv'
  BY <1>4 DEF ReleaseOne
<1>5. ASSUME NEW s \in Sessions, ReleaseLast(s) PROVE HeldInv'
  BY <1>5 DEF ReleaseLast
<1>6. ASSUME NEW s \in Sessions, ReapEntryLock(s) PROVE HeldInv'
  BY <1>6 DEF ReapEntryLock, MutexFree
<1>7. ASSUME NEW s \in Sessions, ReapEntry(s) PROVE HeldInv'
  BY <1>7 DEF ReapEntry
<1>8. ASSUME NEW s \in Sessions, Forget(s) PROVE HeldInv'
  BY <1>8 DEF Forget
<1>9. CASE Close
  BY <1>9 DEF Close, CloseBegin, CloseFront, CloseFrontDone, CloseReturn
<1>10. CASE Environment
  BY <1>10 DEF Environment, Arrive, Disconnect, Expire, Crash
<1> QED
  BY <1>1, <1>2, <1>3, <1>4, <1>5, <1>6, <1>7, <1>8, <1>9, <1>10 DEF Reap

LEMMA HeldInvariant == Spec => []HeldInv
<1>1. Init => HeldInv
  BY DEF Init, HeldInv, HoldersInPlace, PoolHolderInPlace, RequestsOfFronts, Structs
<1>2. TypeOK /\ LockInv /\ HeldInv /\ [Next]_vars => HeldInv'
  <2>1. TypeOK /\ LockInv /\ HeldInv /\ Next => HeldInv'
    BY HandleHeld, OtherHeld DEF Next
  <2>2. HeldInv /\ UNCHANGED vars => HeldInv'
    BY DEF HeldInv, HoldersInPlace, PoolHolderInPlace, RequestsOfFronts,
           vars, reaperVars, structVars, poolVars, handlerVars
  <2> QED
    BY <2>1, <2>2
<1> QED
  BY <1>1, <1>2, TypeCorrect, LockInvariant, PTL DEF Spec

\* How far a handler or a reaper has come in the order: it holds no mutex
\* (2, or 1 before front.Wait returns), a frontend's, the pool's as well, or
\* one under which it dials or closes a backend and waits for no goroutine.
Level(a) ==
  IF a \in Handlers
  THEN IF pc[a] = "attaching" THEN 3 ELSE IF pc[a] = "dialing" THEN 5 ELSE 2
  ELSE CASE reaper[a] = "waiting" -> 1
         [] reaper[a] = "woken" -> 2
         [] reaper[a] = "holding" -> 3
         [] reaper[a] = "last" -> 4
         [] reaper[a] = "reaping" -> 5
         [] OTHER -> 0

LEMMA LevelsRise ==
  ASSUME TypeOK, LockInv, HeldInv, NEW a \in Handlers \cup Sessions, NEW b \in Awaits(a)
  PROVE  /\ b \in Handlers \cup Sessions /\ ~AtRest(b)
         /\ Level(a) \in 1..4 /\ Level(b) \in 2..5 /\ Level(a) < Level(b)
<1> USE DEF TypeOK, HeldInv, HoldersInPlace, PoolHolderInPlace, RequestsOfFronts, Structs, Level, AtRest
<1>1. CASE a \in Handlers
  <2>1. b \in HandlerAwaits(a) /\ b # None
    BY <1>1 DEF Awaits
  <2>2. CASE pc[a] = "attach"
    <3>1. state[a] \in Sessions /\ b = mu[state[a]]
      BY <1>1, <2>1, <2>2 DEF HandlerAwaits, Admitted
    <3> QED
      BY <1>1, <2>1, <2>2, <3>1
  <2>3. CASE pc[a] = "attaching"
    <3>1. b = poolMu
      BY <1>1, <2>1, <2>3 DEF HandlerAwaits
    <3> QED
      BY <1>1, <2>1, <2>3, <3>1
  <2>4. CASE pc[a] = "connect"
    <3>1. target[a] \in Structs /\ b = mu[target[a]]
      BY <1>1, <2>1, <2>4 DEF HandlerAwaits, Borrowed
    <3> QED
      BY <1>1, <2>1, <2>4, <3>1
  <2> QED
    BY <2>1, <2>2, <2>3, <2>4 DEF HandlerAwaits
<1>2. CASE a \in Sessions
  <2>1. a \notin Handlers /\ b \in ReaperAwaits(a) /\ b # None
    BY <1>2 DEF Awaits
  <2>2. CASE reaper[a] = "waiting"
    <3>1. b \in Handlers /\ from[b] = frontOf[a]
      BY <2>1, <2>2 DEF ReaperAwaits
    <3> QED
      BY <1>2, <2>1, <2>2, <3>1
  <2>3. CASE reaper[a] = "woken"
    <3>1. b = mu[a]
      BY <2>1, <2>3 DEF ReaperAwaits
    <3> QED
      BY <1>2, <2>1, <2>3, <3>1
  <2>4. CASE reaper[a] = "holding"
    <3>1. b = poolMu
      BY <2>1, <2>4 DEF ReaperAwaits
    <3> QED
      BY <1>2, <2>1, <2>4, <3>1
  <2>5. CASE reaper[a] = "last"
    <3>1. owner[a] \in Entries /\ b = mu[owner[a]]
      BY <1>2, <2>1, <2>5 DEF ReaperAwaits, LockInv, ReaperLocks
    <3> QED
      BY <1>2, <2>1, <2>5, <3>1
  <2> QED
    BY <2>1, <2>2, <2>3, <2>4, <2>5 DEF ReaperAwaits
<1> QED
  BY <1>1, <1>2

\* Handlers and reapers never wait for each other in a circle, nor for one
\* that has kept a mutex (bridge.go:76-83, 92-93, shared.go:26-34, 48-61).
THEOREM DeadlockFree == Spec => []NoDeadlock
<1>1. TypeOK /\ LockInv /\ HeldInv => NoDeadlock
  <2> SUFFICES ASSUME TypeOK, LockInv, HeldInv PROVE NoDeadlock
    OBVIOUS
  <2> DEFINE Actors == Handlers \cup Sessions
  <2>1. \A a \in Actors : \A b \in Awaits(a) :
          ~AtRest(b) /\ Level(a) \in 1..4 /\ Level(b) \in 2..5 /\ Level(a) < Level(b)
    BY LevelsRise
  <2>2. ASSUME NEW S \in SUBSET {a \in Actors : Awaits(a) # {}}, S # {},
               \A a \in S : Awaits(a) \cap S # {}
        PROVE  FALSE
    <3>1. \A a \in S : \E b \in S : Level(a) \in 1..4 /\ Level(b) \in 1..4 /\ Level(a) < Level(b)
      <4>1. \A a \in S : Level(a) \in 1..4
        BY <2>1
      <4>2. \A a \in S : \E b \in S : Level(a) < Level(b)
        BY <2>1, <2>2
      <4> QED
        BY <4>1, <4>2
    <3> HIDE DEF Level
    <3>2. \A a \in S : Level(a) # 4
      BY <3>1
    <3>3. \A a \in S : Level(a) # 3
      BY <3>1, <3>2
    <3>4. \A a \in S : Level(a) # 2
      BY <3>1, <3>2, <3>3
    <3>5. \A a \in S : Level(a) # 1
      BY <3>1, <3>2, <3>3, <3>4
    <3> QED
      BY <2>2, <3>1, <3>2, <3>3, <3>4, <3>5
  <2> QED
    BY <2>1, <2>2 DEF NoDeadlock
<1> QED
  BY <1>1, TypeCorrect, LockInvariant, HeldInvariant, PTL

-----------------------------------------------------------------------------
(* The counters: slots of the session table, call tokens and references of *)
(* the pool's entries.                                                     *)

Taken == {f \in Fronts : table[f] # None}
Holders(o) == {h \in Handlers : Holds(h, o)}

\* A session struct knows the frontend that the table has it under.
TableLeadsBack ==
  \A s \in Sessions : Registered(s) => frontOf[s] \in Fronts /\ table[frontOf[s]] = s

SlotInv == slots = Cardinality(Taken) /\ slots <= MaxSessions /\ TableLeadsBack

\* A handler that waits for the owner's token has an entry for its owner, not
\* its own session struct, of which it holds a token already.
BorrowsOfEntry == \A h \in Handlers : pc[h] = "borrow" => target[h] \in Entries

TokensCounted == \A o \in Structs : calls[o] = Cardinality(Holders(o)) /\ calls[o] <= ConcurrentCalls

CallInv == TokensCounted /\ BorrowsOfEntry

LEMMA TakenIsFinite == IsFiniteSet(Taken)
  BY FS_Subset DEF Taken

LEMMA HoldersFinite == ASSUME NEW o PROVE IsFiniteSet(Holders(o))
  BY FS_Subset DEF Holders

-----------------------------------------------------------------------------
(* Slots.                                                                  *)

\* A step that leaves the table alone and registers or forgets nobody.
SameTable ==
  /\ UNCHANGED <<slots, table, frontOf>>
  /\ \A s \in Sessions : Registered(s)' => Registered(s)

LEMMA SameTableSlots == ASSUME SlotInv, SameTable PROVE SlotInv'
<1>1. Taken' = Taken
  BY DEF SameTable, Taken
<1>2. TableLeadsBack'
  BY DEF SlotInv, TableLeadsBack, SameTable
<1> QED
  BY <1>1, <1>2 DEF SlotInv, SameTable

LEMMA GetFreshSlots ==
  ASSUME TypeOK, SlotInv, NEW h \in Handlers, NEW s \in Sessions, GetFresh(h, s)
  PROVE  SlotInv'
<1>1. from[h] \in Fronts /\ table[from[h]] = None /\ slots < MaxSessions
  BY DEF GetFresh, TypeOK, SessionOf, HasSlot
<1>2. reaper[s] = "none"
  BY FreshIsIn DEF GetFresh, FreshSession
<1>3. /\ table' = [table EXCEPT ![from[h]] = s] /\ slots' = slots + 1
      /\ frontOf' = [frontOf EXCEPT ![s] = from[h]]
      /\ reaper' = [reaper EXCEPT ![s] = "waiting"]
  BY DEF GetFresh
<1>4. Taken' = Taken \cup {from[h]} /\ from[h] \notin Taken
  BY <1>1, <1>3 DEF TypeOK, Taken
<1>5. Cardinality(Taken') = Cardinality(Taken) + 1
  BY <1>4, TakenIsFinite, FS_AddElement
<1>6. slots' = Cardinality(Taken') /\ slots' <= MaxSessions
  BY <1>1, <1>3, <1>5 DEF SlotInv, TypeOK
<1>7. TableLeadsBack'
  BY <1>1, <1>2, <1>3 DEF TypeOK, SlotInv, TableLeadsBack, Registered
<1> QED
  BY <1>6, <1>7 DEF SlotInv

LEMMA ForgetSlots ==
  ASSUME TypeOK, SlotInv, NEW s \in Sessions, Forget(s)
  PROVE  SlotInv'
<1>1. frontOf[s] \in Fronts /\ table[frontOf[s]] = s
  BY DEF Forget, SlotInv, TableLeadsBack, Registered
<1>2. /\ table' = [table EXCEPT ![frontOf[s]] = None] /\ slots' = slots - 1
      /\ reaper' = [reaper EXCEPT ![s] = "done"] /\ frontOf' = frontOf
  BY DEF Forget, SlotGivenBack
<1>3. Taken' = Taken \ {frontOf[s]} /\ frontOf[s] \in Taken
  BY <1>1, <1>2 DEF TypeOK, Taken
<1>4. Cardinality(Taken') = Cardinality(Taken) - 1
  BY <1>3, TakenIsFinite, FS_RemoveElement
<1>5. slots' = Cardinality(Taken') /\ slots' <= MaxSessions
  BY <1>2, <1>4 DEF SlotInv, TypeOK
<1>6. TableLeadsBack'
  BY <1>1, <1>2 DEF TypeOK, SlotInv, TableLeadsBack, Registered
<1> QED
  BY <1>5, <1>6 DEF SlotInv

LEMMA HandleSlots ==
  ASSUME TypeOK, SlotInv, NEW h \in Handlers, Handle(h)
  PROVE  SlotInv'
<1>1. CASE \E s \in Sessions : GetFresh(h, s)
  BY <1>1, GetFreshSlots
<1>2. CASE UNCHANGED <<gatewayVars, reaperVars>>
  <2>1. SameTable
    BY <1>2 DEF gatewayVars, reaperVars, SameTable, Registered
  <2> QED
    BY <2>1, SameTableSlots
<1> QED
  BY <1>1, <1>2
     DEF Handle, GetRefused, GetKnown, Reply, Admit, AttachRefused, AttachKnown, AttachLock,
         AttachPool, Borrow, BorrowRefused, ConnectRefused, ConnectKnown, Dial, DialOk,
         DialFail, Respond

LEMMA OtherSlots ==
  ASSUME TypeOK, SlotInv,
         \/ \E s \in Sessions : Reap(s)
         \/ Close \/ Environment \/ UNCHANGED vars
  PROVE  SlotInv'
<1>1. ASSUME NEW s \in Sessions, Forget(s) PROVE SlotInv'
  BY <1>1, ForgetSlots
<1>2. ASSUME NEW s \in Sessions,
             \/ Wake(s) \/ ReapLock(s) \/ ReapOwn(s) \/ ReleaseOne(s) \/ ReleaseLast(s)
             \/ ReapEntryLock(s) \/ ReapEntry(s)
      PROVE SlotInv'
  <2>1. UNCHANGED <<slots, table, frontOf>>
    BY <1>2 DEF Wake, ReapLock, ReapOwn, ReleaseOne, ReleaseLast, ReapEntryLock, ReapEntry,
                gatewayVars
  <2>2. Registered(s)
    BY <1>2 DEF Wake, ReapLock, ReapOwn, ReleaseOne, ReleaseLast, ReapEntryLock, ReapEntry,
                Registered
  <2>3. \A t \in Sessions \ {s} : reaper'[t] = reaper[t]
    BY <1>2 DEF Wake, ReapLock, ReapOwn, ReleaseOne, ReleaseLast, ReapEntryLock, ReapEntry,
                TypeOK
  <2> QED
    BY <2>1, <2>2, <2>3, SameTableSlots DEF SameTable, Registered
<1>3. CASE Close \/ Environment \/ UNCHANGED vars
  <2>1. UNCHANGED <<slots, table, reaper, frontOf>>
    BY <1>3 DEF Close, CloseBegin, CloseFront, CloseFrontDone, CloseReturn, Environment, Arrive,
                Disconnect, Expire, Crash, vars, gatewayVars, reaperVars
  <2> QED
    BY <2>1, SameTableSlots DEF SameTable, Registered
<1> QED
  BY <1>1, <1>2, <1>3 DEF Reap

LEMMA SlotInvariant == Spec => []SlotInv
<1>1. Init => SlotInv
  <2> SUFFICES ASSUME Init PROVE SlotInv
    OBVIOUS
  <2>1. Taken = {} /\ slots = 0 /\ TableLeadsBack
    BY DEF Init, Taken, TableLeadsBack, Registered
  <2> QED
    BY <2>1, FS_EmptySet DEF SlotInv
<1>2. TypeOK /\ SlotInv /\ [Next]_vars => SlotInv'
  BY HandleSlots, OtherSlots DEF Next
<1> QED
  BY <1>1, <1>2, TypeCorrect, PTL DEF Spec

\* One slot per registered frontend, no more slots than limits.Sessions, and
\* a token to receive whenever a reaper frees one (bridge.go:64-71, 84-86).
THEOREM SlotsCounted == Spec => []SlotsExact
<1>1. SlotInv => SlotsExact
  BY DEF SlotInv, SlotsExact, Taken, TableLeadsBack
<1> QED
  BY <1>1, SlotInvariant, PTL

-----------------------------------------------------------------------------
(* Call tokens.                                                            *)

\* A step after which every struct has the holders and the tokens of before.
SameTokens ==
  /\ calls' = calls
  /\ \A g \in Handlers, o \in Structs : Holds(g, o)' <=> Holds(g, o)

LEMMA SameTokensCalls == ASSUME TokensCounted, SameTokens PROVE TokensCounted'
<1>1. \A o \in Structs : Holders(o)' = Holders(o)
  BY DEF SameTokens, Holders
<1> QED
  BY <1>1 DEF TokensCounted, SameTokens, Structs

\* Every return gives back the tokens that the handler holds, and no other.
LEMMA ReturnCalls ==
  ASSUME TypeOK, CallInv, NEW h \in Handlers, Return(h)
  PROVE  CallInv'
<1>1. /\ pc' = [pc EXCEPT ![h] = "idle"] /\ state' = [state EXCEPT ![h] = None]
      /\ target' = [target EXCEPT ![h] = None]
  BY DEF Return
<1>2. ASSUME NEW o \in Structs
      PROVE  calls'[o] = Cardinality(Holders(o)') /\ calls'[o] <= ConcurrentCalls
  <2>1. calls'[o] = IF Holds(h, o) THEN calls[o] - 1 ELSE calls[o]
    BY DEF Return, GiveBack
  <2>2. Holders(o)' = Holders(o) \ {h}
    BY <1>1 DEF Holders, Holds, TypeOK, Admitted, Borrowed
  <2>3. Cardinality(Holders(o)') =
          IF h \in Holders(o) THEN Cardinality(Holders(o)) - 1 ELSE Cardinality(Holders(o))
    BY <2>2, HoldersFinite, FS_RemoveElement
  <2>4. h \in Holders(o) <=> Holds(h, o)
    BY DEF Holders
  <2>5. calls[o] \in Int /\ calls[o] = Cardinality(Holders(o)) /\ calls[o] <= ConcurrentCalls
    BY DEF TypeOK, CallInv, TokensCounted
  <2> QED
    BY <2>1, <2>3, <2>4, <2>5
<1>3. BorrowsOfEntry'
  BY <1>1 DEF CallInv, BorrowsOfEntry, TypeOK
<1> QED
  BY <1>2, <1>3 DEF CallInv, TokensCounted, Structs

\* A step that takes one token, of a struct that has one left and of which
\* the handler has none.
TakesToken(h, t) ==
  /\ calls[t] < ConcurrentCalls /\ ~Holds(h, t)
  /\ calls' = [calls EXCEPT ![t] = @ + 1]
  /\ Holds(h, t)'
  /\ \A g \in Handlers, o \in Structs : g # h \/ o # t => (Holds(g, o)' <=> Holds(g, o))

LEMMA TakesTokenCalls ==
  ASSUME TypeOK, TokensCounted, NEW h \in Handlers, NEW t \in Structs, TakesToken(h, t)
  PROVE  TokensCounted'
<1> SUFFICES ASSUME NEW o \in Structs
             PROVE  calls'[o] = Cardinality(Holders(o)') /\ calls'[o] <= ConcurrentCalls
  BY DEF TokensCounted, Structs
<1>1. calls[o] \in Int /\ calls[o] = Cardinality(Holders(o)) /\ calls[o] <= ConcurrentCalls
  BY DEF TypeOK, TokensCounted
<1>2. CASE o = t
  <2>1. Holders(t)' = Holders(t) \cup {h} /\ h \notin Holders(t)
    BY DEF TakesToken, Holders
  <2>2. Cardinality(Holders(t)') = Cardinality(Holders(t)) + 1
    BY <2>1, HoldersFinite, FS_AddElement
  <2>3. calls'[t] = calls[t] + 1 /\ calls[t] < ConcurrentCalls
    BY DEF TakesToken, TypeOK
  <2> QED
    BY <1>1, <1>2, <2>2, <2>3
<1>3. CASE o # t
  <2>1. Holders(o)' = Holders(o)
    BY <1>3 DEF TakesToken, Holders
  <2>2. calls'[o] = calls[o]
    BY <1>3 DEF TakesToken, TypeOK
  <2> QED
    BY <1>1, <2>1, <2>2
<1> QED
  BY <1>2, <1>3

LEMMA AdmitCalls ==
  ASSUME TypeOK, CallInv, NEW h \in Handlers, Admit(h)
  PROVE  CallInv'
<1>1. /\ pc[h] = "admit" /\ state[h] \in Sessions /\ state' = state
      /\ pc' = [pc EXCEPT ![h] = IF from[h] \in SharedFronts THEN "attach" ELSE "connect"]
      /\ target' = [target EXCEPT ![h] = state[h]]
  BY DEF Admit, TypeOK, Admitted
<1>2. calls[state[h]] < ConcurrentCalls /\ calls' = [calls EXCEPT ![state[h]] = @ + 1]
  BY DEF Admit
<1>3. ~Holds(h, state[h]) /\ Holds(h, state[h])'
  BY <1>1 DEF Holds, Admitted, Borrowed, TypeOK
<1>4. \A g \in Handlers, o \in Structs :
        g # h \/ o # state[h] => (Holds(g, o)' <=> Holds(g, o))
  BY <1>1 DEF Holds, Admitted, Borrowed, TypeOK
<1>5. TokensCounted'
  BY <1>1, <1>2, <1>3, <1>4, TakesTokenCalls DEF TakesToken, CallInv, Structs
<1>6. BorrowsOfEntry'
  BY <1>1 DEF CallInv, BorrowsOfEntry, TypeOK
<1> QED
  BY <1>5, <1>6 DEF CallInv

LEMMA BorrowCalls ==
  ASSUME TypeOK, CallInv, NEW h \in Handlers, Borrow(h)
  PROVE  CallInv'
<1>1. /\ pc[h] = "borrow" /\ state[h] \in Sessions /\ target[h] \in Entries
      /\ state' = state /\ target' = target /\ pc' = [pc EXCEPT ![h] = "connect"]
  BY DEF Borrow, TypeOK, Admitted, CallInv, BorrowsOfEntry
<1>2. calls[target[h]] < ConcurrentCalls /\ calls' = [calls EXCEPT ![target[h]] = @ + 1]
  BY DEF Borrow
<1>3. ~Holds(h, target[h]) /\ Holds(h, target[h])'
  BY <1>1 DEF Holds, Admitted, Borrowed, TypeOK
<1>4. \A g \in Handlers, o \in Structs :
        g # h \/ o # target[h] => (Holds(g, o)' <=> Holds(g, o))
  BY <1>1 DEF Holds, Admitted, Borrowed, TypeOK
<1>5. TokensCounted'
  BY <1>1, <1>2, <1>3, <1>4, TakesTokenCalls DEF TakesToken, CallInv, Structs
<1>6. BorrowsOfEntry'
  BY <1>1 DEF CallInv, BorrowsOfEntry, TypeOK
<1> QED
  BY <1>5, <1>6 DEF CallInv

\* The other steps of a handler take it from place to place with the tokens
\* that it has.
LEMMA MoveCalls ==
  ASSUME TypeOK, CallInv, NEW h \in Handlers,
         \/ GetKnown(h) \/ \E s \in Sessions : GetFresh(h, s)
         \/ AttachKnown(h) \/ AttachLock(h) \/ \E e \in Entries : AttachPool(h, e)
         \/ ConnectKnown(h) \/ Dial(h) \/ DialOk(h)
  PROVE  CallInv'
<1> USE DEF TypeOK, SameTokens, Holds, Admitted, Borrowed, CallInv, BorrowsOfEntry, structVars
<1>1. CASE GetKnown(h) \/ \E s \in Sessions : GetFresh(h, s)
  <2>1. SameTokens /\ BorrowsOfEntry'
    BY <1>1 DEF GetKnown, GetFresh
  <2> QED
    BY <2>1, SameTokensCalls
<1>2. CASE AttachKnown(h)
  <2>1. SameTokens /\ BorrowsOfEntry'
    BY <1>2 DEF AttachKnown, HasOwner
  <2> QED
    BY <2>1, SameTokensCalls
<1>3. CASE AttachLock(h)
  <2>1. SameTokens /\ BorrowsOfEntry'
    BY <1>3 DEF AttachLock
  <2> QED
    BY <2>1, SameTokensCalls
<1>4. ASSUME NEW e \in Entries, AttachPool(h, e) PROVE CallInv'
  <2>1. SameTokens /\ BorrowsOfEntry'
    BY <1>4 DEF AttachPool
  <2> QED
    BY <2>1, SameTokensCalls
<1>5. CASE ConnectKnown(h) \/ Dial(h) \/ DialOk(h)
  <2>1. SameTokens /\ BorrowsOfEntry'
    BY <1>5 DEF ConnectKnown, Dial, DialOk
  <2> QED
    BY <2>1, SameTokensCalls
<1> QED
  BY <1>1, <1>2, <1>3, <1>4, <1>5

LEMMA HandleCalls ==
  ASSUME TypeOK, CallInv, NEW h \in Handlers, Handle(h)
  PROVE  CallInv'
<1>1. CASE Return(h)
  BY <1>1, ReturnCalls
<1>2. CASE Admit(h)
  BY <1>2, AdmitCalls
<1>3. CASE Borrow(h)
  BY <1>3, BorrowCalls
<1> QED
  BY <1>1, <1>2, <1>3, MoveCalls
     DEF Handle, GetRefused, Reply, AttachRefused, BorrowRefused, ConnectRefused, DialFail, Respond

\* Reapers, Close and the environment leave handlers that hold tokens alone.
LEMMA OtherCalls ==
  ASSUME TypeOK, CallInv,
         \/ \E s \in Sessions : Reap(s)
         \/ Close \/ Environment \/ UNCHANGED vars
  PROVE  CallInv'
<1>1. calls' = calls /\ state' = state /\ target' = target
  BY DEF Reap, Wake, ReapLock, ReapOwn, ReleaseOne, ReleaseLast, ReapEntryLock, ReapEntry,
         Forget, Close, CloseBegin, CloseFront, CloseFrontDone, CloseReturn, Environment,
         Arrive, Disconnect, Expire, Crash, vars, structVars, handlerVars
<1>2. \A g \in Handlers : pc'[g] = pc[g] \/ (pc[g] = "idle" /\ pc'[g] = "get")
  BY DEF Reap, Wake, ReapLock, ReapOwn, ReleaseOne, ReleaseLast, ReapEntryLock, ReapEntry,
         Forget, Close, CloseBegin, CloseFront, CloseFrontDone, CloseReturn, Environment,
         Arrive, Disconnect, Expire, Crash, vars, handlerVars, TypeOK
<1>3. SameTokens
  BY <1>1, <1>2 DEF SameTokens, Holds, Admitted, Borrowed
<1>4. BorrowsOfEntry'
  BY <1>1, <1>2 DEF CallInv, BorrowsOfEntry
<1> QED
  BY <1>3, <1>4, SameTokensCalls DEF CallInv

\* Whichever return a handler takes it gives back the tokens it took, and no
\* struct serves more calls than limits.ConcurrentCalls (bridge.go:198-226).
THEOREM CallsCounted == Spec => []CallsExact
<1>1. Init => CallInv
  <2> SUFFICES ASSUME Init PROVE CallInv
    OBVIOUS
  <2>1. \A o \in Structs : calls[o] = 0 /\ Holders(o) = {}
    BY DEF Init, Holders, Holds, Admitted, Borrowed
  <2>2. BorrowsOfEntry
    BY DEF Init, BorrowsOfEntry
  <2> QED
    BY <2>1, <2>2, FS_EmptySet DEF CallInv, TokensCounted
<1>2. TypeOK /\ CallInv /\ [Next]_vars => CallInv'
  BY HandleCalls, OtherCalls DEF Next
<1>3. CallInv => CallsExact
  BY DEF CallInv, TokensCounted, CallsExact, Holders
<1> QED
  BY <1>1, <1>2, <1>3, TypeCorrect, PTL DEF Spec

-----------------------------------------------------------------------------
(* References of pool entries.                                             *)

Users(e) == {s \in Sessions : Attached(s, e)}

\* The pool's mutex is held by a reaper that releases the last reference.
PoolLocked == \A s \in Sessions : reaper[s] \in {"last", "reaping"} => poolMu = s

\* A frontend that is attaching, or has no reaper yet, has no owner.
OwnersInTime ==
  /\ \A s \in Sessions : reaper[s] = "none" => owner[s] = None
  /\ \A h \in Handlers :
       pc[h] = "attaching" => owner[state[h]] = None /\ Principal(h) # None

RefsCounted == \A e \in Entries : refs[e] = Cardinality(Users(e))

\* An entry in use or being reaped is in the pool, under its principal ...
UsedIsPooled ==
  \A e \in Entries, s \in Sessions :
    Attached(s, e) \/ Dying(s, e) => key[e] # None /\ entries[key[e]] = e

\* ... and the other way round.
PooledIsUsed ==
  \A p \in Principals : entries[p] # None =>
    /\ key[entries[p]] = p
    /\ \E s \in Sessions : Attached(s, entries[p]) \/ Dying(s, entries[p])

\* An entry that is being reaped has no users left.
DyingIsUnused == \A e \in Entries, s \in Sessions : Dying(s, e) => Users(e) = {}

PoolInv ==
  /\ PoolLocked /\ OwnersInTime /\ RefsCounted
  /\ UsedIsPooled /\ PooledIsUsed /\ DyingIsUnused

LEMMA UsersFinite == ASSUME NEW e PROVE IsFiniteSet(Users(e))
  BY FS_Subset DEF Users

-----------------------------------------------------------------------------
\* A step that leaves the pool and everybody's place in it alone.
SamePool ==
  /\ UNCHANGED poolVars
  /\ \A s \in Sessions, e \in Entries :
       (Attached(s, e)' <=> Attached(s, e)) /\ (Dying(s, e)' <=> Dying(s, e))
  /\ \A s \in Sessions :
       /\ reaper'[s] \in {"last", "reaping"} => reaper[s] \in {"last", "reaping"}
       /\ reaper'[s] = "none" => reaper[s] = "none"
  /\ \A h \in Handlers : pc'[h] = "attaching" =>
       pc[h] = "attaching" /\ state'[h] = state[h] /\ from'[h] = from[h]

LEMMA SamePoolInv == ASSUME TypeOK, PoolInv, SamePool PROVE PoolInv'
<1>1. PoolLocked' /\ OwnersInTime'
  BY DEF PoolInv, SamePool, PoolLocked, OwnersInTime, Principal, poolVars
<1>2. \A e \in Entries : Users(e)' = Users(e)
  BY DEF SamePool, Users
<1>3. RefsCounted' /\ DyingIsUnused'
  BY <1>2 DEF PoolInv, SamePool, RefsCounted, DyingIsUnused, poolVars
<1>4. UsedIsPooled'
  BY DEF PoolInv, SamePool, UsedIsPooled, poolVars
<1>5. PooledIsUsed'
  BY DEF PoolInv, SamePool, PooledIsUsed, poolVars, TypeOK
<1> QED
  BY <1>1, <1>3, <1>4, <1>5 DEF PoolInv

\* attach under the pool's mutex.
LEMMA AttachPoolInv ==
  ASSUME TypeOK, LockInv, PoolInv, NEW h \in Handlers, NEW e \in Entries, AttachPool(h, e),
         NEW s, s = state[h], NEW p, p = Principal(h)
  PROVE  PoolInv'
<1>1. /\ s \in Sessions /\ p \in Principals /\ owner[s] = None
      /\ reaper[s] \in {"waiting", "woken"} /\ pc[h] = "attaching" /\ mu[s] = h
  BY DEF AttachPool, TypeOK, LockInv, HandlerLocks, HandlerReapers, PoolInv, OwnersInTime,
         Principal, Admitted
<1>2. /\ owner' = [owner EXCEPT ![s] = e] /\ refs' = [refs EXCEPT ![e] = @ + 1]
      /\ entries' = [entries EXCEPT ![p] = e] /\ key' = [key EXCEPT ![e] = p]
      /\ pc' = [pc EXCEPT ![h] = "borrow"]
      /\ UNCHANGED <<reaper, poolMu, state, from>>
  BY DEF AttachPool, reaperVars
<1>3. entries[p] = e \/ (entries[p] = None /\ key[e] = None)
  BY FreshIsIn DEF AttachPool, EntryFor, FreshEntry
<1>4. \A t \in Sessions, d \in Entries : ~Dying(t, d)
  BY DEF AttachPool, PoolFree, PoolInv, PoolLocked, Dying
<1>5. \A t \in Sessions, d \in Entries :
        Attached(t, d)' <=> (Attached(t, d) \/ (t = s /\ d = e))
  BY <1>1, <1>2 DEF Attached, TypeOK
<1>6. \A t \in Sessions, d \in Entries : ~Dying(t, d)'
  BY <1>1, <1>2, <1>4 DEF Dying, TypeOK
<1>7. PoolLocked'
  <2>1. \A t \in Sessions : reaper[t] \notin {"last", "reaping"}
    BY DEF AttachPool, PoolFree, PoolInv, PoolLocked
  <2> QED
    BY <1>2, <2>1 DEF PoolLocked
<1>8. OwnersInTime'
  <2>1. \A t \in Sessions : reaper'[t] = "none" => owner'[t] = None
    BY <1>1, <1>2 DEF PoolInv, OwnersInTime, TypeOK
  <2>2. ASSUME NEW g \in Handlers, pc'[g] = "attaching"
        PROVE  owner'[state'[g]] = None /\ Principal(g)' # None
    <3>1. g # h /\ pc[g] = "attaching"
      BY <1>2, <2>2 DEF TypeOK
    <3>2. mu[state[g]] = g
      BY <3>1 DEF LockInv, HandlerLocks
    <3>3. state[g] # s
      BY <1>1, <3>1, <3>2
    <3> QED
      BY <1>1, <1>2, <3>1, <3>3 DEF PoolInv, OwnersInTime, Principal, TypeOK
  <2> QED
    BY <2>1, <2>2 DEF OwnersInTime
<1>9. RefsCounted'
  <2>1. Users(e)' = Users(e) \cup {s} /\ s \notin Users(e)
    BY <1>1, <1>5 DEF Users, Attached
  <2>2. Cardinality(Users(e)') = Cardinality(Users(e)) + 1
    BY <2>1, UsersFinite, FS_AddElement
  <2>3. refs'[e] = refs[e] + 1 /\ refs[e] = Cardinality(Users(e))
    BY <1>2 DEF TypeOK, PoolInv, RefsCounted
  <2>4. \A d \in Entries \ {e} : Users(d)' = Users(d) /\ refs'[d] = refs[d]
    BY <1>2, <1>5 DEF Users, TypeOK
  <2> QED
    BY <2>2, <2>3, <2>4 DEF PoolInv, RefsCounted
<1>10. UsedIsPooled'
  <2> SUFFICES ASSUME NEW d \in Entries, NEW t \in Sessions, Attached(t, d)'
               PROVE  key'[d] # None /\ entries'[key'[d]] = d
    BY <1>6 DEF UsedIsPooled
  <2>1. CASE d = e
    BY <1>1, <1>2, <2>1 DEF TypeOK
  <2>2. CASE d # e
    <3>1. key[d] # None /\ entries[key[d]] = d
      BY <1>5, <2>2 DEF PoolInv, UsedIsPooled
    <3> QED
      BY <1>1, <1>2, <1>3, <2>2, <3>1 DEF TypeOK
  <2> QED
    BY <2>1, <2>2
<1>11. PooledIsUsed'
  <2> SUFFICES ASSUME NEW q \in Principals, entries'[q] # None
               PROVE  /\ key'[entries'[q]] = q
                      /\ \E t \in Sessions : Attached(t, entries[q])'
    BY DEF PooledIsUsed
  <2>1. CASE q = p
    <3>1. entries'[q] = e /\ key'[e] = p
      BY <1>1, <1>2, <2>1 DEF TypeOK
    <3>2. Attached(s, entries[q])'
      BY <1>1, <1>2, <3>1 DEF Attached, TypeOK
    <3> QED
      BY <1>1, <2>1, <3>1, <3>2
  <2>2. CASE q # p
    <3>1. entries'[q] = entries[q] /\ entries[q] \in Entries
      BY <1>2, <2>2 DEF TypeOK
    <3>2. key[entries[q]] = q /\ \E t \in Sessions : Attached(t, entries[q])
      BY <1>4, <3>1 DEF PoolInv, PooledIsUsed
    <3>3. entries[q] # e
      BY <1>1, <1>3, <2>2, <3>2 DEF PoolInv, PooledIsUsed
    <3>4. PICK t \in Sessions : Attached(t, entries[q])
      BY <3>2
    <3>5. t # s
      BY <1>1, <3>1, <3>4 DEF Attached
    <3>6. Attached(t, entries[q])'
      BY <1>1, <1>2, <3>1, <3>4, <3>5 DEF Attached, TypeOK
    <3>7. key'[entries'[q]] = q
      BY <1>2, <3>1, <3>2, <3>3 DEF TypeOK
    <3> QED
      BY <3>6, <3>7
  <2> QED
    BY <2>1, <2>2
<1>12. DyingIsUnused'
  BY <1>6 DEF DyingIsUnused
<1> QED
  BY <1>7, <1>8, <1>9, <1>10, <1>11, <1>12 DEF PoolInv

LEMMA HandlePool ==
  ASSUME TypeOK, LockInv, PoolInv, NEW h \in Handlers, Handle(h)
  PROVE  PoolInv'
<1>1. ASSUME NEW e \in Entries, AttachPool(h, e) PROVE PoolInv'
  BY <1>1, AttachPoolInv
<1>2. ASSUME NEW s \in Sessions, GetFresh(h, s) PROVE PoolInv'
  <2>1. reaper[s] = "none" /\ owner[s] = None
    BY <1>2, FreshIsIn DEF GetFresh, FreshSession, PoolInv, OwnersInTime
  <2>2. SamePool
    BY <1>2, <2>1 DEF GetFresh, SamePool, Attached, Dying, TypeOK, poolVars
  <2> QED
    BY <2>2, SamePoolInv
<1>3. CASE AttachLock(h)
  <2>1. PoolLocked' /\ RefsCounted' /\ UsedIsPooled' /\ PooledIsUsed' /\ DyingIsUnused'
    BY <1>3 DEF AttachLock, PoolInv, PoolLocked, RefsCounted, UsedIsPooled, PooledIsUsed,
                DyingIsUnused, Users, Attached, Dying, reaperVars, poolVars
  <2>2. OwnersInTime'
    BY <1>3 DEF AttachLock, PoolInv, OwnersInTime, Principal, HasOwner, TypeOK, reaperVars, poolVars
  <2> QED
    BY <2>1, <2>2 DEF PoolInv
<1>4. ASSUME UNCHANGED <<reaperVars, poolVars>>,
             \A g \in Handlers : pc'[g] = "attaching" =>
               pc[g] = "attaching" /\ state'[g] = state[g] /\ from'[g] = from[g]
      PROVE  PoolInv'
  <2>1. SamePool
    BY <1>4 DEF SamePool, Attached, Dying, reaperVars, poolVars
  <2> QED
    BY <2>1, SamePoolInv
<1>5. CASE GetRefused(h) \/ Reply(h) \/ AttachRefused(h) \/ BorrowRefused(h)
           \/ ConnectRefused(h) \/ DialFail(h) \/ Respond(h)
  BY <1>4, <1>5 DEF GetRefused, Reply, AttachRefused, BorrowRefused, ConnectRefused, DialFail,
                    Respond, Return, TypeOK, poolVars
<1>6. CASE GetKnown(h) \/ Admit(h) \/ AttachKnown(h) \/ Borrow(h) \/ ConnectKnown(h)
           \/ Dial(h) \/ DialOk(h)
  BY <1>4, <1>6 DEF GetKnown, Admit, AttachKnown, Borrow, ConnectKnown, Dial, DialOk, TypeOK
<1> QED
  BY <1>1, <1>2, <1>3, <1>5, <1>6 DEF Handle

-----------------------------------------------------------------------------
(* Reapers.                                                                *)

\* What holds of a reaper that releases its reference.
LEMMA ReleaseFacts ==
  ASSUME TypeOK, PoolInv, NEW s \in Sessions,
         reaper[s] = "holding", owner[s] # None, PoolFree
  PROVE  /\ owner[s] \in Entries /\ Attached(s, owner[s])
         /\ refs[owner[s]] = Cardinality(Users(owner[s]))
         /\ Cardinality(Users(owner[s]) \ {s}) = refs[owner[s]] - 1
         /\ \A t \in Sessions : reaper[t] \notin {"last", "reaping"}
<1>1. owner[s] \in Entries /\ Attached(s, owner[s])
  BY DEF TypeOK, Attached
<1>2. s \in Users(owner[s])
  BY <1>1 DEF Users
<1>3. refs[owner[s]] = Cardinality(Users(owner[s]))
  BY <1>1 DEF PoolInv, RefsCounted
<1>4. Cardinality(Users(owner[s]) \ {s}) = Cardinality(Users(owner[s])) - 1
  BY <1>2, UsersFinite, FS_RemoveElement
<1>5. \A t \in Sessions : reaper[t] \notin {"last", "reaping"}
  BY DEF PoolFree, PoolInv, PoolLocked
<1> QED
  BY <1>1, <1>3, <1>4, <1>5

LEMMA ReleaseOnePool ==
  ASSUME TypeOK, PoolInv, NEW s \in Sessions, ReleaseOne(s), NEW e, e = owner[s]
  PROVE  PoolInv'
<1>1. /\ reaper[s] = "holding" /\ refs[e] # 1
      /\ refs' = [refs EXCEPT ![e] = @ - 1] /\ reaper' = [reaper EXCEPT ![s] = "cleaned"]
      /\ UNCHANGED <<owner, poolMu, entries, key, pc, state, from>>
  BY DEF ReleaseOne, LastUser, handlerVars
<1>2. /\ e \in Entries /\ Attached(s, e) /\ refs[e] = Cardinality(Users(e))
      /\ Cardinality(Users(e) \ {s}) = refs[e] - 1
      /\ \A t \in Sessions : reaper[t] \notin {"last", "reaping"}
  BY ReleaseFacts DEF ReleaseOne
<1>3. \A t \in Sessions, d \in Entries :
        Attached(t, d)' <=> (Attached(t, d) /\ t # s)
  BY <1>1 DEF Attached, TypeOK
<1>4. \A t \in Sessions, d \in Entries : ~Dying(t, d)'
  BY <1>1, <1>2 DEF Dying, TypeOK
<1>5. PoolLocked' /\ OwnersInTime'
  BY <1>1, <1>2 DEF PoolInv, PoolLocked, OwnersInTime, Principal, TypeOK
<1>6. Users(e)' = Users(e) \ {s}
  BY <1>2, <1>3 DEF Users
<1>7. \A d \in Entries \ {e} : Users(d)' = Users(d)
  BY <1>2, <1>3 DEF Users, Attached
<1>8. RefsCounted'
  <2>1. refs'[e] = refs[e] - 1 /\ \A d \in Entries \ {e} : refs'[d] = refs[d]
    BY <1>1, <1>2 DEF TypeOK
  <2> QED
    BY <1>2, <1>6, <1>7, <2>1 DEF PoolInv, RefsCounted
<1>9. UsedIsPooled'
  BY <1>1, <1>3, <1>4 DEF PoolInv, UsedIsPooled
<1>10. Users(e)' # {}
  <2>1. refs[e] - 1 # 0
    BY <1>1, <1>2 DEF TypeOK
  <2> QED
    BY <1>2, <1>6, <2>1, FS_EmptySet
<1>11. PooledIsUsed'
  <2> SUFFICES ASSUME NEW q \in Principals, entries[q] # None
               PROVE  key[entries[q]] = q /\ \E t \in Sessions : Attached(t, entries[q])'
    BY <1>1 DEF PooledIsUsed
  <2>1. entries[q] \in Entries /\ key[entries[q]] = q
    BY DEF TypeOK, PoolInv, PooledIsUsed
  <2>2. CASE entries[q] = e
    BY <1>1, <1>10, <2>1, <2>2 DEF Users
  <2>3. CASE entries[q] # e
    <3>1. PICK t \in Sessions : Attached(t, entries[q])
      BY <1>2 DEF PoolInv, PooledIsUsed, Dying
    <3>2. t # s
      BY <1>2, <2>3, <3>1 DEF Attached
    <3>3. Attached(t, entries[q])'
      BY <1>1, <3>1, <3>2 DEF Attached, TypeOK
    <3> QED
      BY <2>1, <3>3
  <2> QED
    BY <2>1, <2>2, <2>3
<1>12. DyingIsUnused'
  BY <1>4 DEF DyingIsUnused
<1> QED
  BY <1>5, <1>8, <1>9, <1>11, <1>12 DEF PoolInv

LEMMA ReleaseLastPool ==
  ASSUME TypeOK, PoolInv, NEW s \in Sessions, ReleaseLast(s), NEW e, e = owner[s]
  PROVE  PoolInv'
<1>1. /\ reaper[s] = "holding" /\ refs[e] = 1
      /\ refs' = [refs EXCEPT ![e] = @ - 1] /\ reaper' = [reaper EXCEPT ![s] = "last"]
      /\ poolMu' = s /\ UNCHANGED <<owner, entries, key, pc, state, from>>
  BY DEF ReleaseLast, LastUser, handlerVars
<1>2. /\ e \in Entries /\ Attached(s, e) /\ refs[e] = Cardinality(Users(e))
      /\ Cardinality(Users(e) \ {s}) = refs[e] - 1
      /\ \A t \in Sessions : reaper[t] \notin {"last", "reaping"}
  BY ReleaseFacts DEF ReleaseLast
<1>3. \A t \in Sessions, d \in Entries :
        Attached(t, d)' <=> (Attached(t, d) /\ t # s)
  BY <1>1 DEF Attached, TypeOK
<1>4. \A t \in Sessions, d \in Entries : Dying(t, d)' <=> (t = s /\ d = e)
  BY <1>1, <1>2 DEF Dying, TypeOK
<1>5. PoolLocked' /\ OwnersInTime'
  BY <1>1, <1>2 DEF PoolInv, PoolLocked, OwnersInTime, Principal, TypeOK
<1>6. Users(e)' = Users(e) \ {s}
  BY <1>2, <1>3 DEF Users
<1>7. \A d \in Entries \ {e} : Users(d)' = Users(d)
  BY <1>2, <1>3 DEF Users, Attached
<1>8. RefsCounted'
  <2>1. refs'[e] = refs[e] - 1 /\ \A d \in Entries \ {e} : refs'[d] = refs[d]
    BY <1>1, <1>2 DEF TypeOK
  <2> QED
    BY <1>2, <1>6, <1>7, <2>1 DEF PoolInv, RefsCounted
<1>9. UsedIsPooled'
  BY <1>1, <1>2, <1>3, <1>4 DEF PoolInv, UsedIsPooled
<1>10. PooledIsUsed'
  <2> SUFFICES ASSUME NEW q \in Principals, entries[q] # None
               PROVE  /\ key[entries[q]] = q
                      /\ \E t \in Sessions : Attached(t, entries[q])' \/ Dying(t, entries[q])'
    BY <1>1 DEF PooledIsUsed
  <2>1. entries[q] \in Entries /\ key[entries[q]] = q /\ entries'[q] = entries[q]
    BY <1>1 DEF TypeOK, PoolInv, PooledIsUsed
  <2>2. CASE entries[q] = e
    <3>1. Dying(s, entries[q])'
      BY <1>1, <2>1, <2>2 DEF Dying, TypeOK
    <3> QED
      BY <2>1, <3>1
  <2>3. CASE entries[q] # e
    <3>1. PICK t \in Sessions : Attached(t, entries[q])
      BY <1>2 DEF PoolInv, PooledIsUsed, Dying
    <3>2. t # s
      BY <1>2, <2>3, <3>1 DEF Attached
    <3>3. Attached(t, entries[q])'
      BY <1>1, <3>1, <3>2 DEF Attached, TypeOK
    <3> QED
      BY <2>1, <3>3
  <2> QED
    BY <2>2, <2>3
<1>11. DyingIsUnused'
  <2>1. Users(e)' = {}
    <3>1. Cardinality(Users(e) \ {s}) = 0
      BY <1>1, <1>2
    <3>2. IsFiniteSet(Users(e) \ {s})
      BY UsersFinite, FS_RemoveElement
    <3> QED
      BY <1>6, <3>1, <3>2, FS_EmptySet
  <2> QED
    BY <1>4, <2>1 DEF DyingIsUnused
<1> QED
  BY <1>5, <1>8, <1>9, <1>10, <1>11 DEF PoolInv

LEMMA ReapEntryPool ==
  ASSUME TypeOK, LockInv, PoolInv, NEW s \in Sessions, ReapEntry(s), NEW e, e = owner[s]
  PROVE  PoolInv'
<1>1. /\ reaper[s] = "reaping" /\ reaper' = [reaper EXCEPT ![s] = "cleaned"]
      /\ entries' = [entries EXCEPT ![key[e]] = None]
      /\ UNCHANGED <<owner, refs, key, pc, state, from>>
  BY DEF ReapEntry, handlerVars
<1>2. e \in Entries /\ Dying(s, e)
  BY <1>1 DEF TypeOK, LockInv, ReaperLocks, Dying
<1>3. key[e] \in Principals /\ entries[key[e]] = e /\ Users(e) = {}
  BY <1>2 DEF PoolInv, UsedIsPooled, DyingIsUnused, TypeOK
<1>4. \A t \in Sessions \ {s} : reaper[t] \notin {"last", "reaping"}
  BY <1>1 DEF PoolInv, PoolLocked
<1>5. \A t \in Sessions, d \in Entries : Attached(t, d)' <=> Attached(t, d)
  BY <1>1 DEF Attached, TypeOK
<1>6. \A t \in Sessions, d \in Entries : ~Dying(t, d)'
  BY <1>1, <1>4 DEF Dying, TypeOK
<1>7. PoolLocked' /\ OwnersInTime'
  BY <1>1, <1>4 DEF PoolInv, PoolLocked, OwnersInTime, Principal, TypeOK
<1>8. \A d \in Entries : Users(d)' = Users(d)
  BY <1>5 DEF Users
<1>9. RefsCounted'
  BY <1>1, <1>8 DEF PoolInv, RefsCounted
<1>10. UsedIsPooled'
  <2> SUFFICES ASSUME NEW d \in Entries, NEW t \in Sessions, Attached(t, d)
               PROVE  key[d] # None /\ entries'[key[d]] = d
    BY <1>1, <1>5, <1>6 DEF UsedIsPooled
  <2>1. d # e
    BY <1>3 DEF Users
  <2>2. key[d] \in Principals /\ entries[key[d]] = d
    BY DEF PoolInv, UsedIsPooled, TypeOK
  <2> QED
    BY <1>1, <1>3, <2>1, <2>2 DEF TypeOK
<1>11. PooledIsUsed'
  <2> SUFFICES ASSUME NEW q \in Principals, entries'[q] # None
               PROVE  /\ key[entries'[q]] = q
                      /\ \E t \in Sessions : Attached(t, entries[q])'
    BY <1>1 DEF PooledIsUsed
  <2>1. entries'[q] = entries[q] /\ entries[q] \in Entries /\ q # key[e]
    BY <1>1, <1>3 DEF TypeOK
  <2>2. key[entries[q]] = q
    BY <2>1 DEF PoolInv, PooledIsUsed
  <2>3. PICK t \in Sessions : Attached(t, entries[q]) \/ Dying(t, entries[q])
    BY <2>1 DEF PoolInv, PooledIsUsed
  <2>4. Attached(t, entries[q])
    BY <1>2, <1>4, <2>1, <2>2, <2>3 DEF Dying
  <2>5. Attached(t, entries[q])'
    BY <1>1, <2>1, <2>4 DEF Attached, TypeOK
  <2> QED
    BY <2>1, <2>2, <2>5
<1>12. DyingIsUnused'
  BY <1>6 DEF DyingIsUnused
<1> QED
  BY <1>7, <1>9, <1>10, <1>11, <1>12 DEF PoolInv

LEMMA OtherPool ==
  ASSUME TypeOK, LockInv, PoolInv,
         \/ \E s \in Sessions : Reap(s)
         \/ Close \/ Environment \/ UNCHANGED vars
  PROVE  PoolInv'
<1>1. ASSUME NEW s \in Sessions, Wake(s) \/ ReapLock(s) \/ ReapOwn(s) \/ ReapEntryLock(s) \/ Forget(s)
      PROVE  PoolInv'
  <2>1. SamePool
    BY <1>1 DEF SamePool, Wake, ReapLock, ReapOwn, ReapEntryLock, Forget, Attached, Dying, TypeOK,
                poolVars, handlerVars
  <2> QED
    BY <2>1, SamePoolInv
<1>2. ASSUME NEW s \in Sessions, ReleaseOne(s) \/ ReleaseLast(s) \/ ReapEntry(s) PROVE PoolInv'
  BY <1>2, ReleaseOnePool, ReleaseLastPool, ReapEntryPool
<1>3. CASE Close \/ Environment \/ UNCHANGED vars
  <2>1. UNCHANGED <<reaper, poolVars>>
    BY <1>3 DEF Close, CloseBegin, CloseFront, CloseFrontDone, CloseReturn, Environment, Arrive,
                Disconnect, Expire, Crash, vars, reaperVars
  <2>2. \A g \in Handlers : pc'[g] = "attaching" =>
          pc[g] = "attaching" /\ state'[g] = state[g] /\ from'[g] = from[g]
    BY <1>3 DEF Close, CloseBegin, CloseFront, CloseFrontDone, CloseReturn, Environment, Arrive,
                Disconnect, Expire, Crash, vars, handlerVars, TypeOK
  <2>3. SamePool
    BY <2>1, <2>2 DEF SamePool, Attached, Dying, poolVars
  <2> QED
    BY <2>3, SamePoolInv
<1> QED
  BY <1>1, <1>2, <1>3 DEF Reap

LEMMA PoolInvariant == Spec => []PoolInv
<1>1. Init => PoolInv
  <2> SUFFICES ASSUME Init PROVE PoolInv
    OBVIOUS
  <2>1. \A s \in Sessions, e \in Entries : ~Attached(s, e) /\ ~Dying(s, e)
    BY DEF Init, Attached, Dying
  <2>2. \A e \in Entries : Users(e) = {}
    BY <2>1 DEF Users
  <2>3. RefsCounted
    BY <2>2, FS_EmptySet DEF Init, RefsCounted
  <2>4. PoolLocked /\ OwnersInTime /\ PooledIsUsed
    BY DEF Init, PoolLocked, OwnersInTime, PooledIsUsed
  <2> QED
    BY <2>1, <2>3, <2>4 DEF PoolInv, UsedIsPooled, DyingIsUnused
<1>2. TypeOK /\ LockInv /\ PoolInv /\ [Next]_vars => PoolInv'
  BY HandlePool, OtherPool DEF Next
<1> QED
  BY <1>1, <1>2, LockInvariant, TypeCorrect, PTL DEF Spec

-----------------------------------------------------------------------------
\* One reference per attached frontend, and an entry is in the pool under its
\* principal exactly while it has users or is being reaped (shared.go:37-64):
\* a new frontend of the principal neither misses it nor joins a dead one.
THEOREM ReferencesCounted == Spec => []RefsExact
<1>1. TypeOK /\ PoolInv => RefsExact
  <2> SUFFICES ASSUME TypeOK, PoolInv, NEW e \in Entries
               PROVE  /\ refs[e] = Cardinality({s \in Sessions : Attached(s, e)})
                      /\ (refs[e] > 0 \/ \E s \in Sessions : Dying(s, e))
                           <=> (key[e] # None /\ entries[key[e]] = e)
    BY DEF RefsExact
  <2>1. refs[e] = Cardinality(Users(e)) /\ IsFiniteSet(Users(e))
    BY UsersFinite DEF PoolInv, RefsCounted
  <2>2. refs[e] > 0 <=> Users(e) # {}
    BY <2>1, FS_EmptySet, FS_CardinalityType
  <2>3. Users(e) # {} <=> \E s \in Sessions : Attached(s, e)
    BY DEF Users
  <2>4. (\E s \in Sessions : Attached(s, e) \/ Dying(s, e))
          => key[e] # None /\ entries[key[e]] = e
    BY DEF PoolInv, UsedIsPooled
  <2>5. key[e] # None /\ entries[key[e]] = e
          => \E s \in Sessions : Attached(s, e) \/ Dying(s, e)
    BY DEF PoolInv, PooledIsUsed, TypeOK
  <2> QED
    BY <2>1, <2>2, <2>3, <2>4, <2>5 DEF Users
<1> QED
  BY <1>1, PoolInvariant, TypeCorrect, PTL
=============================================================================
