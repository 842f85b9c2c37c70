------------------------------ MODULE Gateway ------------------------------
(***************************************************************************)
(* The session gateway of internal/bridge: bridge.go and shared.go.        *)
(*                                                                         *)
(* A request of a frontend session runs in a goroutine of its own, the     *)
(* handler; a goroutine per registered frontend, the reaper, waits for the *)
(* frontend to end and then closes what it owned; Gateway.Close runs in a  *)
(* goroutine of its own.  They share the session table and its slots       *)
(* (under g.mu), the fields of every session struct (under its mu) and the *)
(* pool of the shared endpoint (under p.mu).                               *)
(*                                                                         *)
(* A critical section that waits for nothing while it holds its lock is    *)
(* one step; a section that takes a second lock, dials or closes a backend *)
(* while it holds a lock is split at that point.  g.mu is only held by     *)
(* sections of the first kind, so it needs no variable.                    *)
(*                                                                         *)
(* A definition that stands directly before the one it varies, with a      *)
(* longer name and the same parameters, is a plausible bug; the list of    *)
(* mutants in PROJECT.json says which property notices it.                 *)
(***************************************************************************)
EXTENDS Integers, FiniteSets

CONSTANTS
  Fronts,          \* frontend sessions (*mcp.ServerSession), each used once
  Handlers,        \* goroutines that run the receiving middleware
  Sessions,        \* session structs that get may allocate
  Entries,         \* pooledBackend structs (with their session) for attach
  Principals,      \* authenticated callers, TokenInfo.UserID
  PrincipalOf,     \* the caller a frontend is bound to, None without a token
  None,            \* nil
  SharedFronts,    \* those of the endpoint with backend_scope "shared"; the
                   \* others are of endpoints with scope "session"
  MaxSessions,     \* limits.Sessions
  ConcurrentCalls, \* limits.ConcurrentCalls
  Drains           \* front.Wait() returns only once its handlers returned

ASSUME GatewayAssumption ==
  /\ IsFiniteSet(Fronts) /\ IsFiniteSet(Handlers) /\ IsFiniteSet(Sessions)
  /\ MaxSessions \in Nat \ {0}
  /\ ConcurrentCalls \in Nat \ {0}
  /\ SharedFronts \subseteq Fronts /\ Drains \in BOOLEAN
  /\ PrincipalOf \in [Fronts -> Principals \cup {None}]
  /\ None \notin Fronts \cup Handlers \cup Sessions \cup Entries \cup Principals
  /\ Sessions \cap Entries = {}
  /\ Sessions \cap Handlers = {}

VARIABLES
  open,      \* frontends that have not ended (client gone, DELETE, idle, Close)
  phase,     \* of Gateway.Close: "serving", "closing" or "closed"
  closing,   \* the frontend that Close is closing
  pending,   \* the frontends that Close has still to close
  slots,     \* len(g.slots)
  table,     \* g.sessions
  reaper,    \* where the reaper of a session struct is
  frontOf,   \* the frontend a reaper waits for
  mu,        \* holder of a session struct's mutex
  backend,   \* session.backend and the fate of what it points to
  failed,    \* session.failed
  calls,     \* len(session.calls)
  cancelled, \* session.cancel was called
  owner,     \* session.owner; session.release is set together with it
  poolMu,    \* holder of p.mu across steps
  entries,   \* p.entries
  refs,      \* pooledBackend.refs
  key,       \* the principal an entry's release closure captured
  pc,        \* where a handler is
  from,      \* the frontend of its request
  state,     \* its session struct
  target,    \* the struct it calls through: state, or the shared owner
  expired    \* its callCtx is done

gatewayVars == <<open, phase, closing, pending, slots, table>>
reaperVars  == <<reaper, frontOf>>
structVars  == <<mu, backend, failed, calls, cancelled>>
poolVars    == <<owner, poolMu, entries, refs, key>>
handlerVars == <<pc, from, state, target, expired>>
vars == <<gatewayVars, reaperVars, structVars, poolVars, handlerVars>>

Structs == Sessions \cup Entries

\* Handlers that hold a token of state.calls, and those that also hold one
\* of the shared owner's calls.
Admitted == {"attach", "attaching", "borrow", "connect", "dialing", "forward"}
Borrowed == {"connect", "dialing", "forward"}

Holds(h, o) == \/ pc[h] \in Admitted /\ state[h] = o
               \/ pc[h] \in Borrowed /\ target[h] = o

\* Every session context descends from the gateway's context.
CtxDoneOnlyByGateway(o) == phase # "serving"
CtxDone(o) == cancelled[o] \/ phase # "serving"

\* A mutex that can be locked, and the pool's.
MutexIgnored(o) == TRUE
MutexFree(o) == mu[o] = None
PoolIgnored == TRUE
PoolFree == poolMu = None

\* get serves only until Close has begun.
AcceptsAlways == TRUE
Accepts == phase = "serving"

\* The session struct of a frontend, and a slot for a new one.
SessionOf(f) == table[f]
HasSlot == slots < MaxSessions
SlotKept == slots
SlotGivenBack == slots - 1

Principal(h) == PrincipalOf[from[h]]

\* A new struct: any unused one is as good as another.
Fresh(S) == IF S = {} THEN {} ELSE {CHOOSE x \in S : TRUE}
FreshSession == Fresh({s \in Sessions : reaper[s] = "none"})
FreshEntry == Fresh({e \in Entries : key[e] = None})

\* The shared backend that a frontend is attached to already.
OwnerAssumed(s) == TRUE
HasOwner(s) == owner[s] # None

\* attach's entry of principal p: the pool's, or a new one.
EntryOfAnyPrincipal(p) ==
  LET made == {entries[q] : q \in Principals} \ {None}
  IN IF made = {} THEN FreshEntry ELSE made
EntryFor(p) == IF entries[p] = None THEN FreshEntry ELSE {entries[p]}

\* release finds that the reference it gives back is the last one.
LastUserBeforeDecrement(e) == refs[e] = 0
LastUserOffByOne(e) == refs[e] \in {1, 2}
LastUser(e) == refs[e] = 1

Init ==
  /\ open = Fronts
  /\ phase = "serving" /\ closing = None /\ pending = {}
  /\ slots = 0
  /\ table = [f \in Fronts |-> None]
  /\ reaper = [s \in Sessions |-> "none"]
  /\ frontOf = [s \in Sessions |-> None]
  /\ mu = [o \in Structs |-> None]
  /\ backend = [o \in Structs |-> "none"]
  /\ failed = [o \in Structs |-> FALSE]
  /\ calls = [o \in Structs |-> 0]
  /\ cancelled = [o \in Structs |-> FALSE]
  /\ owner = [s \in Sessions |-> None]
  /\ poolMu = None
  /\ entries = [p \in Principals |-> None]
  /\ refs = [e \in Entries |-> 0]
  /\ key = [e \in Entries |-> None]
  /\ pc = [h \in Handlers |-> "idle"]
  /\ from = [h \in Handlers |-> None]
  /\ state = [h \in Handlers |-> None]
  /\ target = [h \in Handlers |-> None]
  /\ expired = [h \in Handlers |-> FALSE]

-----------------------------------------------------------------------------
(* The environment: requests arrive, frontends end, deadlines pass and     *)
(* backends die.                                                           *)

\* A request of an open frontend gets a handler.
Arrive(h, f) ==
  /\ pc[h] = "idle" /\ f \in open
  /\ pc' = [pc EXCEPT ![h] = "get"]
  /\ from' = [from EXCEPT ![h] = f]
  /\ UNCHANGED <<gatewayVars, reaperVars, structVars, poolVars, state, target, expired>>

\* The frontend's connection ends: EOF, DELETE or idle expiry.
Disconnect(f) ==
  /\ f \in open
  /\ open' = open \ {f}
  /\ UNCHANGED <<phase, closing, pending, slots, table, reaperVars, structVars, poolVars, handlerVars>>

\* callCtx ends: the deadline, the client's cancellation, or the AfterFunc
\* that the session context runs some time after it is cancelled.
Expire(h) ==
  /\ pc[h] \in Admitted /\ ~expired[h]
  /\ expired' = [expired EXCEPT ![h] = TRUE]
  /\ UNCHANGED <<gatewayVars, reaperVars, structVars, poolVars, pc, from, state, target>>

\* A connected backend process or upstream session dies on its own.
Crash(o) ==
  /\ backend[o] = "live"
  /\ backend' = [backend EXCEPT ![o] = "dead"]
  /\ UNCHANGED <<gatewayVars, reaperVars, mu, failed, calls, cancelled, poolVars, handlerVars>>

-----------------------------------------------------------------------------
(* A handler: get, the call slot, attach, the owner's slot, connect,       *)
(* forward.                                                                *)

\* The deferred receives: the tokens a returning handler gives back.
GiveBackOwn(h) ==
  [o \in Structs |-> IF pc[h] \in Admitted /\ state[h] = o THEN calls[o] - 1 ELSE calls[o]]
GiveBack(h) == [o \in Structs |-> IF Holds(h, o) THEN calls[o] - 1 ELSE calls[o]]

\* Every return of the middleware.
Return(h) ==
  /\ calls' = GiveBack(h)
  /\ pc' = [pc EXCEPT ![h] = "idle"]
  /\ from' = [from EXCEPT ![h] = None]
  /\ state' = [state EXCEPT ![h] = None]
  /\ target' = [target EXCEPT ![h] = None]
  /\ expired' = [expired EXCEPT ![h] = FALSE]

GetRefused(h) ==
  /\ pc[h] = "get"
  /\ \/ ~Accepts
     \/ SessionOf(from[h]) = None /\ ~HasSlot
  /\ Return(h)
  /\ UNCHANGED <<gatewayVars, reaperVars, mu, backend, failed, cancelled, poolVars>>

GetKnown(h) ==
  /\ pc[h] = "get" /\ Accepts
  /\ SessionOf(from[h]) # None
  /\ pc' = [pc EXCEPT ![h] = "admit"]
  /\ state' = [state EXCEPT ![h] = SessionOf(from[h])]
  /\ UNCHANGED <<gatewayVars, reaperVars, structVars, poolVars, from, target, expired>>

GetFresh(h, s) ==
  /\ pc[h] = "get" /\ Accepts
  /\ SessionOf(from[h]) = None /\ HasSlot
  /\ s \in FreshSession
  /\ slots' = slots + 1
  /\ table' = [table EXCEPT ![from[h]] = s]
  /\ reaper' = [reaper EXCEPT ![s] = "waiting"]
  /\ frontOf' = [frontOf EXCEPT ![s] = from[h]]
  /\ pc' = [pc EXCEPT ![h] = "admit"]
  /\ state' = [state EXCEPT ![h] = s]
  /\ UNCHANGED <<open, phase, closing, pending, structVars, poolVars, from, target, expired>>

\* Answered without a backend: initialize, ping and the notifications, a
\* method or name the policy refuses, or no token left in state.calls.
Reply(h) ==
  /\ pc[h] = "admit"
  /\ Return(h)
  /\ UNCHANGED <<gatewayVars, reaperVars, mu, backend, failed, cancelled, poolVars>>

Admit(h) ==
  /\ pc[h] = "admit" /\ calls[state[h]] < ConcurrentCalls
  /\ calls' = [calls EXCEPT ![state[h]] = @ + 1]
  /\ pc' = [pc EXCEPT ![h] = IF from[h] \in SharedFronts THEN "attach" ELSE "connect"]
  /\ target' = [target EXCEPT ![h] = state[h]]
  /\ UNCHANGED <<gatewayVars, reaperVars, mu, backend, failed, cancelled, poolVars, from, state, expired>>

\* No authenticated principal, or the frontend's context is done when attach
\* holds its mutex.
AttachRefused(h) ==
  /\ pc[h] = "attach"
  /\ \/ Principal(h) = None
     \/ MutexFree(state[h]) /\ CtxDone(state[h])
  /\ Return(h)
  /\ UNCHANGED <<gatewayVars, reaperVars, mu, backend, failed, cancelled, poolVars>>

AttachKnown(h) ==
  /\ pc[h] = "attach" /\ Principal(h) # None
  /\ MutexFree(state[h]) /\ ~CtxDone(state[h])
  /\ HasOwner(state[h])
  /\ target' = [target EXCEPT ![h] = owner[state[h]]]
  /\ pc' = [pc EXCEPT ![h] = "borrow"]
  /\ UNCHANGED <<gatewayVars, reaperVars, structVars, poolVars, from, state, expired>>

\* The frontend's mutex is held while attach waits for the pool's.
AttachLock(h) ==
  /\ pc[h] = "attach" /\ Principal(h) # None
  /\ MutexFree(state[h]) /\ ~CtxDone(state[h])
  /\ ~HasOwner(state[h])
  /\ mu' = [mu EXCEPT ![state[h]] = h]
  /\ pc' = [pc EXCEPT ![h] = "attaching"]
  /\ UNCHANGED <<gatewayVars, reaperVars, backend, failed, calls, cancelled, poolVars, from, state, target, expired>>

\* attach under p.mu: the entry of the principal, or a fresh one.
AttachPool(h, e) ==
  /\ pc[h] = "attaching" /\ PoolFree
  /\ e \in EntryFor(Principal(h))
  /\ entries' = [entries EXCEPT ![Principal(h)] = e]
  /\ key' = [key EXCEPT ![e] = Principal(h)]
  /\ refs' = [refs EXCEPT ![e] = @ + 1]
  /\ owner' = [owner EXCEPT ![state[h]] = e]
  /\ mu' = [mu EXCEPT ![state[h]] = None]
  /\ target' = [target EXCEPT ![h] = e]
  /\ pc' = [pc EXCEPT ![h] = "borrow"]
  /\ UNCHANGED <<gatewayVars, reaperVars, backend, failed, calls, cancelled, poolMu, from, state, expired>>

Borrow(h) ==
  /\ pc[h] = "borrow" /\ calls[target[h]] < ConcurrentCalls
  /\ calls' = [calls EXCEPT ![target[h]] = @ + 1]
  /\ pc' = [pc EXCEPT ![h] = "connect"]
  /\ UNCHANGED <<gatewayVars, reaperVars, mu, backend, failed, cancelled, poolVars, from, state, target, expired>>

BorrowRefused(h) ==
  /\ pc[h] = "borrow" /\ calls[target[h]] = ConcurrentCalls
  /\ Return(h)
  /\ UNCHANGED <<gatewayVars, reaperVars, mu, backend, failed, cancelled, poolVars>>

ConnectRefused(h) ==
  /\ pc[h] = "connect" /\ MutexFree(target[h])
  /\ failed[target[h]]
  /\ Return(h)
  /\ UNCHANGED <<gatewayVars, reaperVars, mu, backend, failed, cancelled, poolVars>>

ConnectKnown(h) ==
  /\ pc[h] = "connect" /\ MutexFree(target[h])
  /\ ~failed[target[h]] /\ backend[target[h]] # "none"
  /\ pc' = [pc EXCEPT ![h] = "forward"]
  /\ UNCHANGED <<gatewayVars, reaperVars, structVars, poolVars, from, state, target, expired>>

\* The struct's mutex is held for as long as dial takes.
Dial(h) ==
  /\ pc[h] = "connect" /\ MutexFree(target[h])
  /\ ~failed[target[h]] /\ backend[target[h]] = "none"
  /\ mu' = [mu EXCEPT ![target[h]] = h]
  /\ pc' = [pc EXCEPT ![h] = "dialing"]
  /\ UNCHANGED <<gatewayVars, reaperVars, backend, failed, calls, cancelled, poolVars, from, state, target, expired>>

\* dial runs under the caller's context and cannot succeed once it is done.
DialOk(h) ==
  /\ pc[h] = "dialing" /\ ~expired[h]
  /\ backend' = [backend EXCEPT ![target[h]] = "live"]
  /\ mu' = [mu EXCEPT ![target[h]] = None]
  /\ pc' = [pc EXCEPT ![h] = "forward"]
  /\ UNCHANGED <<gatewayVars, reaperVars, failed, calls, cancelled, poolVars, from, state, target, expired>>

DialFailKeepingMutex(h) ==
  /\ pc[h] = "dialing"
  /\ failed' = [failed EXCEPT ![target[h]] = TRUE]
  /\ Return(h)
  /\ UNCHANGED <<gatewayVars, reaperVars, mu, backend, cancelled, poolVars>>

DialFail(h) ==
  /\ pc[h] = "dialing"
  /\ failed' = [failed EXCEPT ![target[h]] = TRUE]
  /\ mu' = [mu EXCEPT ![target[h]] = None]
  /\ Return(h)
  /\ UNCHANGED <<gatewayVars, reaperVars, backend, cancelled, poolVars>>

\* forward returns, with the backend's result or with an error.
Respond(h) ==
  /\ pc[h] = "forward"
  /\ Return(h)
  /\ UNCHANGED <<gatewayVars, reaperVars, mu, backend, failed, cancelled, poolVars>>

-----------------------------------------------------------------------------
(* The reaper that get starts with every session struct.                   *)

Wake(s) ==
  /\ reaper[s] = "waiting" /\ frontOf[s] \notin open
  /\ Drains => \A h \in Handlers : from[h] # frontOf[s]
  /\ reaper' = [reaper EXCEPT ![s] = "woken"]
  /\ cancelled' = [cancelled EXCEPT ![s] = TRUE]
  /\ UNCHANGED <<gatewayVars, frontOf, mu, backend, failed, calls, poolVars, handlerVars>>

ReapLock(s) ==
  /\ reaper[s] = "woken" /\ MutexFree(s)
  /\ mu' = [mu EXCEPT ![s] = s]
  /\ reaper' = [reaper EXCEPT ![s] = "holding"]
  /\ UNCHANGED <<gatewayVars, frontOf, backend, failed, calls, cancelled, poolVars, handlerVars>>

\* backend.Close of what the struct points to; nil stays nil.
Closed(o) == IF backend[o] = "none" THEN "none" ELSE "closed"

ReapOwn(s) ==
  /\ reaper[s] = "holding" /\ owner[s] = None
  /\ backend' = [backend EXCEPT ![s] = Closed(s)]
  /\ mu' = [mu EXCEPT ![s] = None]
  /\ reaper' = [reaper EXCEPT ![s] = "cleaned"]
  /\ UNCHANGED <<gatewayVars, frontOf, failed, calls, cancelled, poolVars, handlerVars>>

\* release by a frontend that is not the last one.
ReleaseOne(s) ==
  /\ reaper[s] = "holding" /\ owner[s] # None /\ PoolFree
  /\ ~LastUser(owner[s])
  /\ refs' = [refs EXCEPT ![owner[s]] = @ - 1]
  /\ mu' = [mu EXCEPT ![s] = None]
  /\ reaper' = [reaper EXCEPT ![s] = "cleaned"]
  /\ UNCHANGED <<gatewayVars, frontOf, backend, failed, calls, cancelled, owner, poolMu, entries, key, handlerVars>>

\* release by the last one: p.mu stays held until the entry is gone.
ReleaseLastEarly(s) ==
  /\ reaper[s] = "holding" /\ owner[s] # None /\ PoolFree
  /\ LastUser(owner[s])
  /\ refs' = [refs EXCEPT ![owner[s]] = @ - 1]
  /\ entries' = [entries EXCEPT ![key[owner[s]]] = None]
  /\ cancelled' = [cancelled EXCEPT ![owner[s]] = TRUE]
  /\ reaper' = [reaper EXCEPT ![s] = "last"]
  /\ UNCHANGED <<gatewayVars, frontOf, mu, backend, failed, calls, owner, poolMu, key, handlerVars>>

ReleaseLast(s) ==
  /\ reaper[s] = "holding" /\ owner[s] # None /\ PoolFree
  /\ LastUser(owner[s])
  /\ refs' = [refs EXCEPT ![owner[s]] = @ - 1]
  /\ poolMu' = s
  /\ cancelled' = [cancelled EXCEPT ![owner[s]] = TRUE]
  /\ reaper' = [reaper EXCEPT ![s] = "last"]
  /\ UNCHANGED <<gatewayVars, frontOf, mu, backend, failed, calls, owner, entries, key, handlerVars>>

ReapEntryLock(s) ==
  /\ reaper[s] = "last" /\ MutexFree(owner[s])
  /\ mu' = [mu EXCEPT ![owner[s]] = s]
  /\ reaper' = [reaper EXCEPT ![s] = "reaping"]
  /\ UNCHANGED <<gatewayVars, frontOf, backend, failed, calls, cancelled, poolVars, handlerVars>>

ReapEntry(s) ==
  /\ reaper[s] = "reaping"
  /\ backend' = [backend EXCEPT ![owner[s]] = Closed(owner[s])]
  /\ mu' = [mu EXCEPT ![owner[s]] = None, ![s] = None]
  /\ entries' = [entries EXCEPT ![key[owner[s]]] = None]
  /\ poolMu' = None
  /\ reaper' = [reaper EXCEPT ![s] = "cleaned"]
  /\ UNCHANGED <<gatewayVars, frontOf, failed, calls, cancelled, owner, refs, key, handlerVars>>

\* The receive from g.slots happens under g.mu: it must never have to wait.
Forget(s) ==
  /\ reaper[s] = "cleaned" /\ slots > 0
  /\ table' = [table EXCEPT ![frontOf[s]] = None]
  /\ slots' = SlotGivenBack
  /\ reaper' = [reaper EXCEPT ![s] = "done"]
  /\ UNCHANGED <<open, phase, closing, pending, frontOf, structVars, poolVars, handlerVars>>

-----------------------------------------------------------------------------
(* Gateway.Close.                                                          *)

CloseBeginWithoutFronts ==
  /\ phase = "serving"
  /\ phase' = "closing"
  /\ UNCHANGED <<open, closing, pending, slots, table, reaperVars, structVars, poolVars, handlerVars>>

CloseBegin ==
  /\ phase = "serving"
  /\ phase' = "closing"
  /\ pending' = {f \in Fronts : table[f] # None}
  /\ UNCHANGED <<open, closing, slots, table, reaperVars, structVars, poolVars, handlerVars>>

CloseFront(f) ==
  /\ phase = "closing" /\ closing = None /\ f \in pending
  /\ closing' = f
  /\ open' = open \ {f}
  /\ UNCHANGED <<phase, pending, slots, table, reaperVars, structVars, poolVars, handlerVars>>

CloseFrontDone ==
  /\ closing # None
  /\ Drains => \A h \in Handlers : from[h] # closing
  /\ pending' = pending \ {closing}
  /\ closing' = None
  /\ UNCHANGED <<open, phase, slots, table, reaperVars, structVars, poolVars, handlerVars>>

\* g.wg.Wait: every reaper has returned.
NoWait == TRUE
ReapersDone == \A s \in Sessions : reaper[s] \in {"none", "done"}

CloseReturn ==
  /\ phase = "closing" /\ pending = {} /\ closing = None
  /\ ReapersDone
  /\ phase' = "closed"
  /\ UNCHANGED <<open, closing, pending, slots, table, reaperVars, structVars, poolVars, handlerVars>>

-----------------------------------------------------------------------------
Handle(h) ==
  \/ GetRefused(h) \/ GetKnown(h) \/ (\E s \in Sessions : GetFresh(h, s))
  \/ Reply(h) \/ Admit(h)
  \/ AttachRefused(h) \/ AttachKnown(h) \/ AttachLock(h)
  \/ (\E e \in Entries : AttachPool(h, e))
  \/ Borrow(h) \/ BorrowRefused(h)
  \/ ConnectRefused(h) \/ ConnectKnown(h)
  \/ Dial(h) \/ DialOk(h) \/ DialFail(h) \/ Respond(h)

Reap(s) ==
  \/ Wake(s) \/ ReapLock(s) \/ ReapOwn(s) \/ ReleaseOne(s) \/ ReleaseLast(s)
  \/ ReapEntryLock(s) \/ ReapEntry(s) \/ Forget(s)

Close == CloseBegin \/ (\E f \in Fronts : CloseFront(f)) \/ CloseFrontDone \/ CloseReturn

Environment ==
  \/ \E h \in Handlers, f \in Fronts : Arrive(h, f)
  \/ \E f \in Fronts : Disconnect(f)
  \/ \E h \in Handlers : Expire(h)
  \/ \E o \in Structs : Crash(o)

Next ==
  \/ \E h \in Handlers : Handle(h)
  \/ \E s \in Sessions : Reap(s)
  \/ Close
  \/ Environment

Spec == Init /\ [][Next]_vars

-----------------------------------------------------------------------------
(* Fairness.  A goroutine that can go on does, and weakly fair is enough:  *)
(* a mutex is held from one step to another only a limited number of       *)
(* times, and for its short sections a sync.Mutex hands itself to one that *)
(* has waited for a millisecond.  The deadline of callCtx always comes,    *)
(* and a forward whose context is done returns.  Nothing is assumed of     *)
(* requests, clients and operators, nor that a backend closes: process.go  *)
(* bounds it for a child, but the closing request of an HTTP upstream is   *)
(* under no deadline (backend.go:44-66), be it sent by a reaper or by a    *)
(* dial that turns its session down (backend.go:65).  So a reaper that     *)
(* closes a backend and a dial may take for ever.                          *)

Closes(s) == reaper[s] = "holding" /\ owner[s] = None /\ backend[s] # "none"
ClosesShared(s) == reaper[s] = "reaping" /\ backend[owner[s]] # "none"
Overdue(h) == pc[h] = "dialing" /\ expired[h]

Fairness ==
  /\ \A h \in Handlers : WF_vars(Expire(h) \/ (pc[h] # "dialing" /\ Handle(h)))
  /\ \A s \in Sessions : WF_vars(~Closes(s) /\ ~ClosesShared(s) /\ Reap(s))
  /\ WF_vars((\E f \in Fronts : CloseFront(f)) \/ CloseFrontDone \/ CloseReturn)

FairSpec == Spec /\ Fairness

-----------------------------------------------------------------------------
(* Safety.                                                                 *)

\* Type correctness: no handler follows a nil session, owner or backend.
TypeOK ==
  /\ open \subseteq Fronts /\ pending \subseteq Fronts
  /\ phase \in {"serving", "closing", "closed"}
  /\ closing \in Fronts \cup {None}
  /\ slots \in Nat
  /\ table \in [Fronts -> Sessions \cup {None}]
  /\ reaper \in [Sessions -> {"none", "waiting", "woken", "holding", "last",
                              "reaping", "cleaned", "done"}]
  /\ frontOf \in [Sessions -> Fronts \cup {None}]
  /\ mu \in [Structs -> Handlers \cup Sessions \cup {None}]
  /\ backend \in [Structs -> {"none", "live", "dead", "closed"}]
  /\ failed \in [Structs -> BOOLEAN]
  /\ calls \in [Structs -> Int]
  /\ cancelled \in [Structs -> BOOLEAN]
  /\ owner \in [Sessions -> Entries \cup {None}]
  /\ poolMu \in Sessions \cup {None}
  /\ entries \in [Principals -> Entries \cup {None}]
  /\ refs \in [Entries -> Int]
  /\ key \in [Entries -> Principals \cup {None}]
  /\ pc \in [Handlers -> {"idle", "get", "admit", "attach", "attaching",
                          "borrow", "connect", "dialing", "forward"}]
  /\ from \in [Handlers -> Fronts \cup {None}]
  /\ state \in [Handlers -> Sessions \cup {None}]
  /\ target \in [Handlers -> Structs \cup {None}]
  /\ expired \in [Handlers -> BOOLEAN]
  /\ \A h \in Handlers : /\ pc[h] # "idle" => from[h] # None
                         /\ pc[h] \in Admitted \cup {"admit"} => state[h] # None
                         /\ pc[h] \in Borrowed \cup {"borrow"} => target[h] # None

\* A session struct that is not forgotten yet, and one that still counts as a
\* user of its shared backend.
Registered(s) == reaper[s] \notin {"none", "done"}
Attached(s, e) == owner[s] = e /\ reaper[s] \in {"waiting", "woken", "holding"}
Dying(s, e) == owner[s] = e /\ reaper[s] \in {"last", "reaping"}

\* A backend that runs or is being started for struct o.
Running(o) == \/ backend[o] \in {"live", "dead"}
              \/ \E h \in Handlers : pc[h] = "dialing" /\ target[h] = o

\* One slot per registered frontend (bridge.go:64-71 against 84-86).  Forget
\* receives from g.slots under g.mu: were there no token to receive, the
\* whole gateway would stop.
SlotsExact ==
  /\ slots = Cardinality({f \in Fronts : table[f] # None})
  /\ slots <= MaxSessions
  /\ \A s \in Sessions : Registered(s) => table[frontOf[s]] = s

\* Whichever of its early returns a handler takes, it gives back exactly the
\* tokens it took (bridge.go:198-226), and no struct serves more calls at a
\* time than the limit.
CallsExact ==
  \A o \in Structs :
    /\ calls[o] = Cardinality({h \in Handlers : Holds(h, o)})
    /\ calls[o] <= ConcurrentCalls

\* One reference per attached frontend, not per request (shared.go:23), and
\* the pool keeps an entry until its last frontend has reaped it.
RefsExact ==
  \A e \in Entries :
    /\ refs[e] = Cardinality({s \in Sessions : Attached(s, e)})
    /\ (refs[e] > 0 \/ \E s \in Sessions : Dying(s, e))
         <=> (key[e] # None /\ entries[key[e]] = e)

\* A backend that runs or is being started has a cleanup ahead of it that
\* will close it (bridge.go:77-83, shared.go:56-61): none is orphaned.
NoOrphan ==
  /\ \A s \in Sessions : Running(s) => reaper[s] \in {"waiting", "woken", "holding"}
  /\ \A e \in Entries : Running(e) => \E s \in Sessions : Attached(s, e) \/ Dying(s, e)

\* However calls and cleanups interleave, a call only reaches a backend of
\* its own frontend or, in shared scope, of its own principal (shared.go:9-10,
\* bridge.go:208-228).
Isolation ==
  \A h \in Handlers : pc[h] \in Borrowed =>
    IF from[h] \in SharedFronts
    THEN target[h] \in Entries /\ key[target[h]] = Principal(h) /\ Principal(h) # None
    ELSE target[h] \in Sessions /\ frontOf[target[h]] = from[h]

\* Concurrent first calls start one backend: while a handler dials, the
\* struct is its own, has no backend and has not failed (bridge.go:92-100).
OneDial ==
  \A h \in Handlers : pc[h] = "dialing" =>
    /\ backend[target[h]] = "none" /\ ~failed[target[h]]
    /\ \A g \in Handlers \ {h} : pc[g] = "dialing" => target[g] # target[h]

\* A principal never has two shared backends of an endpoint, not even a new
\* one beside a dying one (shared.go:62-63), and no two calls start one
\* (bridge.go:92-100).
OneBackend ==
  /\ \A d, e \in Entries : Running(d) /\ Running(e) /\ key[d] = key[e] => d = e
  /\ OneDial

\* The goroutines that a handler waits for, and the reaper of a session
\* struct: the holder of a mutex, or the handlers that front.Wait waits for.
\* No goroutine waits for Close.
HandlerAwaits(h) ==
  CASE pc[h] = "attach" /\ Principal(h) # None -> {mu[state[h]]}
    [] pc[h] = "attaching" -> {poolMu}
    [] pc[h] = "connect" -> {mu[target[h]]}
    [] OTHER -> {}

ReaperAwaits(s) ==
  CASE reaper[s] = "waiting" -> {h \in Handlers : Drains /\ from[h] = frontOf[s]}
    [] reaper[s] = "woken" -> {mu[s]}
    [] reaper[s] = "holding" /\ owner[s] # None -> {poolMu}
    [] reaper[s] = "last" -> {mu[owner[s]]}
    [] OTHER -> {}

Awaits(a) == (IF a \in Handlers THEN HandlerAwaits(a) ELSE ReaperAwaits(a)) \ {None}
AtRest(a) ==
  IF a \in Handlers THEN pc[a] = "idle" ELSE reaper[a] \in {"none", "cleaned", "done"}

\* Handlers and reapers never wait for each other in a circle, through the
\* mutexes of frontends, of the pool and of its backends that they hold
\* (bridge.go:76-83, 92-93, shared.go:26-34, 48-61) or through front.Wait, and
\* never for one that has returned and kept a mutex.
NoDeadlock ==
  /\ \A a \in Handlers \cup Sessions : \A b \in Awaits(a) : ~AtRest(b)
  /\ \A S \in SUBSET {a \in Handlers \cup Sessions : Awaits(a) # {}} :
       S # {} => \E a \in S : Awaits(a) \cap S = {}

\* Once Close has returned, nothing the gateway started runs, and every slot,
\* reference and pool entry is given back (bridge.go:39-52).
ClosedMeansClean ==
  phase = "closed" =>
    /\ \A o \in Structs : ~Running(o)
    /\ slots = 0
    /\ \A f \in Fronts : table[f] = None
    /\ \A e \in Entries : refs[e] = 0
    /\ \A p \in Principals : entries[p] = None

\* A step that closes the shared backend finds no frontend attached and no
\* call under way: one frontend's disconnect leaves its peers their backend
\* (shared_test.go:31-34).
ClosesUnused ==
  \A e \in Entries : backend[e] # backend'[e] /\ backend'[e] = "closed" =>
    /\ \A s \in Sessions : ~Attached(s, e)
    /\ \A h \in Handlers : ~(pc[h] \in Borrowed /\ target[h] = e)

NoPeerClose == [][ClosesUnused]_vars

\* A frontend whose cleanup has passed its mutex gets no shared backend any
\* more (shared.go:23-25): the cleanup would not release it.
AttachesInTime ==
  \A s \in Sessions : owner'[s] # owner[s] => reaper[s] \in {"waiting", "woken"}

LateAttachRefused == [][AttachesInTime]_vars

\* What the tests say of a cancelled call, "cancellation destroyed shared
\* process" (shared_test.go:87-100), of every call: one whose context is done
\* spoils the shared backend for no other frontend.
CancelSpares ==
  \A h \in Handlers, s \in Sessions :
    /\ pc[h] = "dialing" /\ expired[h] /\ ~failed[target[h]]
    /\ s # state[h] /\ owner[s] = target[h] /\ reaper[s] = "waiting"
    => ~failed'[target[h]]

CancelSparesPeers == [][CancelSpares]_vars

-----------------------------------------------------------------------------
(* The lease of SharedLease that the pool implements.                      *)

UsersOf(p) ==
  {f \in Fronts : \E s \in Sessions : /\ frontOf[s] = f
                                      /\ \E e \in Entries : key[e] = p /\ Attached(s, e)}

GenerationOf(p) ==
  IF entries[p] = None THEN "cold"
  ELSE IF failed[entries[p]] \/ backend[entries[p]] = "dead" THEN "spoiled"
  ELSE IF backend[entries[p]] = "live" THEN "up"
  ELSE "cold"

Lease == INSTANCE SharedLease WITH
  users <- [p \in Principals |-> UsersOf(p)],
  gen <- [p \in Principals |-> GenerationOf(p)]

\* Every step of the gateway is a step of the lease or leaves it alone.
ImplementsLease == Lease!Spec

-----------------------------------------------------------------------------
(* The gateway that Daemon runs: what Frontends knows of this one.         *)

Up(o) == backend[o] \in {"live", "dead"}

StageOf(f) ==
  IF table[f] # None THEN IF f \in open THEN "registered" ELSE "ended"
  ELSE IF \E s \in Sessions : frontOf[s] = f /\ reaper[s] = "done" THEN "reaped" ELSE "none"

\* A session struct uses itself, and the entry that it has a reference to.
Using(s, o) == s = o \/ Attached(s, o) \/ Dying(s, o)
Uses(f, o) == \E s \in Sessions : frontOf[s] = f /\ Using(s, o)
HasBackend(f) == \E o \in Structs : Up(o) /\ Uses(f, o)

ArrivedOf(f) == {h \in Handlers : pc[h] = "get" /\ from[h] = f}
ServingOf(f) == {h \in Handlers : pc[h] \notin {"idle", "get"} /\ from[h] = f}

Promise == INSTANCE Frontends WITH
  Requests <- Handlers,
  closed <- phase # "serving",
  front <- [f \in Fronts |-> StageOf(f)],
  backend <- [f \in Fronts |-> HasBackend(f)],
  arrived <- [f \in Fronts |-> ArrivedOf(f)],
  serving <- [f \in Fronts |-> ServingOf(f)]

\* What Daemon takes for granted of its gateway holds of this one: with all
\* its goroutines it does nothing to a frontend that Frontends does not do,
\* starts no backend for one that has been reaped, reaps none that has a
\* backend or a request left, has no backend that is no frontend's, and
\* returns from Close when all are reaped (bridge.go:39-106, shared.go:18-66).
ImplementsFrontends ==
  /\ Promise!FrontsSpec
  /\ [](\A o \in Structs : Up(o) => \E f \in Fronts : Uses(f, o))
  /\ [](phase = "closed" => Promise!ReapersDone)

-----------------------------------------------------------------------------
(* Liveness, except for what hangs on a backend that does not close.  That *)
(* nobody stays for ever where he has to leave, []<>(left), is here the    *)
(* same as that he leaves: a frontend does not open again, nor the gateway.*)

\* Frontends that call through one backend: those of a principal share it.
Peers(f) ==
  IF f \in SharedFronts THEN {g \in SharedFronts : PrincipalOf[g] = PrincipalOf[f]} ELSE {f}

\* A dial of the backend of f is past its deadline and never returns; closing
\* the backend of f never does; closing some shared backend never does.
DialHangs(f) == \E h \in Handlers : <>[](Overdue(h) /\ from[h] \in Peers(f))
CloseHangs(f) == \E s \in Sessions : <>[](Closes(s) /\ frontOf[s] = f)
PoolHangs == \E s \in Sessions : <>[]ClosesShared(s)

\* Every handler answers, whatever the other handlers and the reapers do with
\* the mutexes that they hold through dial and Close.  What may keep it for
\* ever is a dial of its own backend that hangs, its own or a peer's, and on
\* the shared endpoint a Close that hangs, of any principal's backend, since
\* release closes it under the pool's mutex (shared.go:49-61); no other
\* principal's dial and no backend of another frontend (bridge.go:91-107,
\* 198-236).
CallEnds ==
  \A f \in Fronts :
    \/ DialHangs(f) \/ (f \in SharedFronts /\ PoolHangs)
    \/ \A h \in Handlers : []<>(from[h] # f)

\* A frontend that ended is cleaned up and forgotten (bridge.go:75-87), unless
\* a dial of its backend hangs, of which front.Wait waits for the caller, or a
\* Close does: its own backend's or, on the shared endpoint, any.
FrontReaped ==
  \A f \in Fronts :
    \/ DialHangs(f) \/ CloseHangs(f) \/ (f \in SharedFronts /\ PoolHangs)
    \/ []<>(f \in open \/ table[f] = None)

\* Gateway.Close returns (bridge.go:48-51) unless some dial or Close hangs:
\* it has no deadline of its own.
CloseCompletes ==
  \/ PoolHangs \/ \E f \in Fronts : DialHangs(f) \/ CloseHangs(f)
  \/ []<>(phase # "closing")

=============================================================================
