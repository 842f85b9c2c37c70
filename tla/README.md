# mcp-host-bridge in TLA+

mcp-host-bridge exposes MCP servers of a host (child processes on stdio, or
upstream HTTP servers) through one authenticated gateway with an explicit
allowlist. This directory holds TLA+ models of it, the TLC configurations that
check them on small instances, and proofs checked by TLAPS. References such as
`bridge.go:55-90` are to `src/internal/bridge/` unless a path is given.

## The system

| component | state it keeps | operations |
|---|---|---|
| session gateway (`bridge.go`) | `Gateway.slots`, `sessions`, `closed`; per session `owner`, `release`, `backend`, `failed`, `calls`, context, mutex | the receiving middleware (get, method switch, call slot, attach, connect, forward), a reaper goroutine per frontend, `Close` |
| shared pool (`shared.go`) | per endpoint `entries`: principal to backend session and reference count | `attach`, `release` |
| exposure and metadata (`bridge.go`, `metadata.go`) | none between requests | method switch, `forward`, compaction, `bridge_describe_tool` |
| stdio process (`process.go`, `process_unix.go`) | child, process group, `done`, `once`, connection | `Connect`, the `cmd.Wait` goroutine, `Close` |
| output bounds (`bounds.go`) | `lineBound`: pending frame, error; `totalBound`: remaining, failed | `Read`, `RoundTrip` |
| relay (`cmd/mcp-host-bridge/relay.go`) | a gateway of its own whose backend is the daemon | `relayTarget` |
| HTTP front (`http.go`) | streamable handlers of the SDK, a session's idle timer | exact hosts and routing |
| dialling (`backend.go`) | none | `childEnv`, `dial` |
| access control (`internal/access`) | keys read at start | `Middleware`, `Metadata` |
| configuration (`internal/config`) | none | `Load`, `Validate`, `Registry`, `Resolve` |
| daemon (`cmd/mcp-host-bridge/main.go`) | the listener | serve, shutdown, `stdio`, `inventory` |

How they interact: the SDK runs a goroutine per request, which enters the
middleware (*handler* below). `get` finds or registers the frontend's session
struct and starts its *reaper*. With `backend_scope` `session` the struct
itself owns the backend; with `shared` it is attached to the pool's entry of
its principal. `connect` dials under the struct's mutex; `forward` translates
the request, filters the answer and may run the metadata helper. When the
frontend ends, its reaper closes or releases the backend and frees the slot.
`Gateway.Close` closes the frontends and waits for the reapers. Every stdio
backend is a process group that `processConnection.Close` takes down, every
backend's output passes one of the two bounds.

What is hard: three kinds of goroutines over three kinds of mutexes that are
nested (session, pool, backend session) and held through dial and close;
references and tokens that must be given back on every early return; a call's
deadline that ends a dial made for others; concurrent closers of a process
whose descendants outlive it; byte limits at their boundary; pagination with
cursors that a backend chooses. `PROJECT.json` lists these hazards with their
lines and the properties that watch them.

## The modules

**Gateway** models `bridge.go` and `shared.go`. A handler's program counter
`pc` names where it is: `get`, `admit` (the method switch), `attach`,
`attaching` (it holds its frontend's mutex and waits for the pool's),
`borrow` (the owner's call token), `connect`, `dialing` (it holds the
struct's mutex), `forward`. A reaper is `waiting` in `front.Wait`, `woken`
(context cancelled, wants the mutex), `holding` it, `last` (it holds the pool's
mutex too and wants the entry's), `reaping` (it holds all three), `cleaned`,
`done`. A critical section that waits for nothing is one step; one that takes
another lock, dials or closes is split there, with `mu` and `poolMu` recording
who holds what. `Return` is every return of the middleware, with its deferred
receives. One shared endpoint is modelled (a pool belongs to one endpoint, and
endpoints share only the table and the slots); frontends outside
`SharedFronts` are of session-scoped endpoints. `Crash` is a backend's death,
`Expire` the end of `callCtx`. A dial may fail at any time and succeeds only
while the context it runs under is alive.

`Drains` is an assumption about the SDK: that `front.Wait` returns only when
no handler of the frontend is in flight. The code relies on it without saying
so, since `connect` never looks at `s.ctx`: `NoOrphan`, `OneBackend`,
`NoPeerClose`, `Isolation`, `ClosedMeansClean` and the two refinements are
checked with `Drains = TRUE`. What does not rest on it (slots, tokens, references,
late attach) is checked with `Drains = FALSE`; the proofs show that `Isolation`
does not rest on it either. `NoDeadlock` is checked with it because it adds a
wait, that of `front.Wait` for the handlers; it is proved with and without.

Who waits for whom is `Awaits`: a handler or a reaper for the holder of the
mutex that it wants, a reaper in `front.Wait` for the handlers of its frontend.
`NoDeadlock` says that no set of them has every member waiting for another
member, and that nobody waits for one that has come to its end.

**SharedLease** is the promise of the pool, in terms of a principal's users
and the generation of its backend: one at a time, sticky once spoiled, renewed
only after the last user has left. `Gateway!ImplementsLease` maps the pool's
entries, references and backends to it.

**Frontends** is the promise of the whole gateway to the process that runs it:
frontends that register, have a backend (`Connect`, of their own or one that
they lease together), end and are reaped (`Clean`, `Forget`), their requests,
and `closed`. It knows nothing of structs, mutexes, principals or the pool.
`Gateway!ImplementsFrontends` maps the session table, the reapers, the handlers
and the users of every struct to it, and adds that no backend is without a
frontend and that `Close` returns only when all are reaped. A frontend of
Frontends has a backend if one is up that its struct is, or is attached to; it
is no longer `registered` once its connection has ended, and `reaped` when its
slot is given back.

**ProcessClose** models `process.go` and `process_unix.go`: the child, its
descendants (members of the group, detached with or without stderr), the
`cmd.Wait` goroutine, which ends only when every holder of stderr is gone
(`process.go:36` gives it a copy to make), and any number of callers of
`Close` through `sync.Once`. Pids have no identity: reuse of a pid after the
child is reaped is not modelled.

**LineBound** and **OutputTotal** model `bounds.go`. A frame is a sequence of
bytes of two kinds and the newline, valid or not as JSON; the child's output
is any such sequence of bounded length, cut by the buffer wherever it falls.

**Endpoint** models what a client sees: the method switch, `forward`, and
`describeTool` over a backend that chooses pages and cursors freely, behind
the daemon (`relayed = FALSE`) or behind a relay that applies the same policy
before the daemon does. Any list request of the helper may fail
(`DescribeError`, `metadata.go:122-125`). `answer` tells that error (`error`)
from the helper's own verdict that the tool is unavailable or that a cursor came
back (`failed`); the client gets the same words for both (`bridge.go:232-234`).
What a listing shows of a tool is what Compaction's `CompactTool` makes of it.

**Compaction** is `compactTool`: a tool is a text and two JSON values, a text
is `short`, `long` or `cut`, and `ShortenSchema` is the walk of
`shortenSchema`, a recursive function on the values. Which values there are
(`JSON`) and how deep one is nested (`Height`) are parameters: a value is
deeper than those it holds, and is a value still when these are exchanged
(`JSONAssumption`). **MCEndpoint** gives Endpoint's instance its values.
Against the walk stands a reference definition that knows nothing
of the walk: `Texts` lists the texts of a value with their paths, `IsGuidance`
reads a path from its front as JSON Schema would, and `WellCompacted` says that
the texts at such paths are shortened and all others are as they were. Which
keywords lead to schemas the two have in common (`MapKeys`, `SchemaKeys`): a
keyword of JSON Schema that the code's lists lack would not be noticed.

**Policy** has no state: it says what the processes decide from a policy file,
an environment and a request. `Validate` (`config.go`), `Protects` and
`Principal` (`access.Middleware` and its verifiers), `Admits` (the HTTP front),
`ServesStdio` (`main.go:72-81`), `Relays` and `RelayServer` (`relayTarget`),
`Handshake` and `Accepts` (`dial`). A secret is one of five kinds, a JWT one
that passes the library's checks or not.

**Relay** puts a relay process in front of a daemon, with a clock. `policy`
holds what the file and the two processes' environments come to (`Start`),
`seconds` and `limit` are idle_seconds as either process read it. The relay's
`conn` is the sticky outcome of its one dial; `session`, `busy` and `idle` are
the daemon's side, `ping` and `beat` the loop behind `options.KeepAlive`. The
ping loop, the session's timer and what ends them are the SDK's: a tick every
interval, a deadline of half an interval, the client session closed when a ping
fails; a request stops the idle timer and its end restarts it. `Tick` does not
pass a timer that is due by more than `Late`. One relay has at most one
session, so one of each is enough; another client's relay is another instance.

**Daemon** models the process from start to exit (`main.go:29-105`,
`relay.go:22-26`): the select between the listener and the signal, the shutdown
timer that starts before `Gateway.Close`, `Close` with the list of frontends it
took, `Shutdown`, and the deferred `Close` of every return. Requests reach the
server until `Shutdown` is called, on open connections even after the listener
has failed. Daemon extends
Frontends: its actions decide when a request arrives, a frontend ends and the
gateway is closed, and let the gateway do the rest. So the two halves of the
program meet in one module: Gateway is shown to do nothing that Frontends does
not, and Daemon to leave nothing behind with a gateway that does no more. When a
request is answered and a reaper comes to its end is what Gateway's `CallEnds`
and `FrontReaped` say; Daemon promises its end (`SignalEnds`) only unless one of
the two hangs.

**MCGateway** gives Gateway's instances their principals and symmetry sets.
**GatewayProofs** (types, mutexes, counters), **GatewayBackends** (whose backend
runs and until when, the two refinements), **ProcessCloseProofs**,
**LineBoundProofs**, **OutputTotalProofs**, **EndpointProofs**,
**DaemonProofs** and **RelayProofs** hold the proofs.

In every module a definition with a longer name directly before another one of
the same parameters (`ReleaseLastEarly` before `ReleaseLast`) is the form that
a plausible bug would give it. No specification uses it; putting it in place
of the other shows that the property named in `PROJECT.json`, "mutants",
notices.

## The runs

| run | module, configuration | what it shows |
|---|---|---|
| gw_shared | 2 frontends of one principal, 3 handlers, 2 tokens, `Drains` | `NoOrphan`, `OneBackend`, `NoPeerClose`, `ImplementsLease`, `ImplementsFrontends` |
| gw_mixed | 2 principals on the shared endpoint, a session-scoped frontend, 2 slots for the 3, 1 token | `NoDeadlock`, `Isolation`, `ClosedMeansClean` |
| gw_weak | 2 frontends, 2 handlers, 1 token, no `Drains` | `TypeOK`, `SlotsExact`, `CallsExact`, `RefsExact`, `LateAttachRefused` |
| gw_ends | 2 frontends of two principals, 2 handlers, 2 tokens, fairness | `CallEnds`, `FrontReaped`, `CloseCompletes` |
| gw_cancel | as gw_shared, 2 handlers | finds `CancelSparesPeers` violated |
| process | 2 descendants, 2 closers, 2 responses, fairness | `GroupGone`, `NothingLost`, `ClosedAfterKill`, `CloseReturns`, `WaiterEnds` |
| line_bound | limit 4, buffer 3, output up to 8 bytes, reads up to 3 | `OnlyGoodLines`, `NoGoodLineLost`, `HoldsOneFrame` |
| output_total | limit 6, bodies up to 10, reads up to 8 | `Bounded`, `VerdictExact` |
| endpoint | 2 kinds, 1 item and one of the helper's name, 3 cursors, 2 pages for the helper, schemas 4 deep, fairness | `ListedIsCallable`, `ListingComplete`, `ListingCompacted`, `DescribeFinds`, `DaemonGuidance`, `DescribeEnds` |
| relay | every policy file and two environments, idle times of 12 and 36 units, timers up to 2 units late, fairness | `HeartbeatHolds`, `RelayLetIn`, `NobodyShutOut`, `OrphanReclaimed`, `LossNoticed` |
| daemon | 2 frontends, 2 requests, fairness | `ExitLeavesNothing`, `WorkIsFinished`, `SignalEnds` |
| relay_guidance | as endpoint | finds `FullGuidance` violated |

Bounds. A frontend registers once (it never comes back once it has ended), so
as many session structs as frontends are enough; an entry is used once, and
needs a frontend that attaches, so as many entries as shared frontends are
enough. Two frontends of a principal give every order of attach, release, last
release and renewal; the third handler gives a call in flight beside two that
compete. In gw_ends, where liveness rules out symmetry, the two handlers meet at
one frontend's backend, one waiting for the mutex that the other holds through
its dial, while the other principal's frontend is served, released and reaped.
There, `EndsBound` leaves out that the first handler serves the second frontend,
which is like the first, and that backends die, which no guard sees; what
handlers of two frontends with one backend do to each other is in gw_shared. In
daemon two requests give one in service beside one that arrives,
of one frontend or of two. Tokens are exceeded in every run, slots in gw_mixed: three frontends
compete for two slots, and any two of them, of one scope or of both, of one
principal or of two, meet. That instance has two session structs only, so a
third frontend that finds a slot given back does not go on; that slots stay
exact through any number of them is proved (`SlotsCounted`). In gw_weak a
handler may outlive its frontend's cleanup and register the frontend again: the
bound on session structs cuts that short (a handler then waits in `get` for
ever, which no safety property minds). In LineBound the limit exceeds the
buffer, so that frames come in one, two or three chunks, and outputs of twice
the limit follow a bad frame with a good one. In Endpoint three cursors give
every shape of chain and cycle at a helper's limit of two pages (64 in the
code). Its backends vary either in their pages or in their schemas: the two
walks do not meet, and a value of every shape on every page would multiply what
needs only to be added. The schemas are all chains of four out of a text
keyword, a map keyword, a schema keyword, a literal keyword and lists, with a
text at the end: the walk looks at the keys of an object one by one, so that a
value with several keys is the sum of its chains, and four levels suffice for a
property that is called like a keyword, a list where a schema stands, and a
literal inside a schema inside a schema.

In Relay a second has 12 units, so that an interval has 4 and a ping 2; with
timers up to 2 late a live relay's session is idle for up to 10 of its 12
units. The second timeout, three times the first, makes a daemon that was
started with the shorter one close the session of a live relay, which
`LossNoticed` needs. The initial states are all 264 valid combinations of the
fields that the decisions depend on, times 100 pairs of environments; they
collapse to 10 outcomes.

`CHECK_DEADLOCK FALSE` is set where the system may stop: a gateway that has
closed, a process that is gone or has exited, a client that has its answer, a
body read to its end.

Fairness. `Gateway!Fairness`: a goroutine that can go on does. Weak fairness per
goroutine is enough although the steps wait for mutexes: one is held from step
to step only a limited number of times (through one dial and one cleanup of a
struct, one release of an entry), and for the short sections in between
`sync.Mutex` hands itself to whoever has waited for a millisecond. The
deadline of `callCtx` always comes (`bridge.go:204`), and a forward whose context
is done returns, as the SDK's calls do. Nothing is assumed of clients, requests
or an operator who might call `Close`.

Nor is a backend assumed to close. `process.go` bounds `Close` for a child
(`CloseReturns`), but the request that closes a session of an HTTP upstream is
under no deadline: `backend.go:44-47` gives the client none, and `Close` takes no
context. It is sent by a reaper, with the frontend's mutex held (`bridge.go:81`)
or the pool's and the backend's too (`shared.go:59`), or by a dial that turns its
session down (`backend.go:65`), with the backend's. So fairness leaves out a
reaper's step that closes a backend and the end of a dial: either may never
come, and the three properties name whom that keeps. A dial that hangs
(`DialHangs`) keeps the calls and the cleanups of the frontends of its backend,
no others; a Close that hangs keeps its own frontend's cleanup (`CloseHangs`)
and on a shared endpoint, where it holds the pool's mutex, the calls and cleanups
of all principals (`PoolHangs`); any of them keeps `Gateway.Close`, which has no
deadline of its own. Without these exceptions TLC finds each of the three
properties violated.

ProcessClose: the goroutines of `Close` and
`cmd.Wait` run and timers fire; no process is assumed to do anything. Daemon:
run goes on, a request is read (`ReadTimeout`) and let in or declined, Close
closes the frontends in its list and their reapers run, but for the step that
closes a backend; nothing makes a client leave, a listener fail or a signal
come, a request be answered or a backend close: `SignalEnds` excepts a request
that is in service for ever and a backend that is being closed for ever. Relay: the
clock runs, a due ping is sent, a ping that stays unanswered fails (its
deadline), an idle session expires, and a call ends (the daemon's deadline,
`bridge.go:204`); no process is made to start or end, no message to arrive.
Endpoint: the loop of `describeTool` goes on, because its requests are answered
or fail, with `callCtx` at the latest.

## Where the code and its documents differ

* `gw_cancel`: the shared backend is dialled under the context of the caller
  that came first (`bridge.go:228`). If that call times out or is cancelled
  during the dial, the start counts as failed, stickily, for every frontend of
  the principal. `shared_test.go:87-100` tests that a cancelled call leaves
  the shared process alone, but cancels only after the backend is up.
* `relay_guidance`: a relay keeps `description_limit` (`relay.go:46-47`) and
  answers `bridge_describe_tool` itself, from the daemon's listing, which is
  already shortened. `docs/metadata.md:14-15` promises the complete original
  guidance. `DaemonGuidance` shows that the daemon alone keeps the promise.

## The proofs

All are for any number of frontends, handlers, session structs, entries,
principals, descendants, callers, bytes, items and cursors. They assume what
the modules' ASSUMEs say: finite sets of actors, positive limits, `None`
distinct from everything, structs of the two kinds distinct from each other and
from handlers; in Endpoint, that a backend's cursors are finitely many (only
`ListingComplete` needs it), that the empty cursor is one and that the schemas
which a backend sends are JSON; of JSON, that its values are nested to a finite
depth and closed under what the walk makes of them; in Relay, that a
third of a second is no less than the shortest interval (333 ms and 100 ms in
the code) and that timers are late by less than a quarter of the idle timeout.

Six theorems of GatewayBackends have `Drains` as a hypothesis besides, marked
*D* below. It is needed: a handler that outlives its frontend's cleanup passes
`attach` (it found its owner before) and `connect` (which does not look at
`s.ctx`), and starts a backend that nobody closes. It is the assumption about
the SDK's `front.Wait` described above, which the code makes as well, and no
contradiction: gw_shared and gw_mixed run under it. In Frontends it is the guard
of `Clean` and `Forget` (no request in service), which `FrontendsImplemented`
derives from it, and by way of Frontends `NothingLeft` rests on it. No other
proof does.

| theorem | states | inductive invariant |
|---|---|---|
| `GatewayProofs!TypeCorrect` | `TypeOK` | `TypeOK` itself |
| `GatewayProofs!OneDialAtATime` | `OneDial` | `TypeOK`, `LockInv` |
| `GatewayProofs!DeadlockFree` | `NoDeadlock` | `TypeOK`, `LockInv`, `HeldInv` |
| `GatewayProofs!NoLateAttach` | `LateAttachRefused` | `TypeOK`, `LockInv` |
| `GatewayProofs!SlotsCounted` | `SlotsExact` | `TypeOK`, `SlotInv` |
| `GatewayProofs!CallsCounted` | `CallsExact` | `TypeOK`, `CallInv` |
| `GatewayProofs!ReferencesCounted` | `RefsExact` | `TypeOK`, `LockInv`, `PoolInv` |
| `GatewayBackends!CallsIsolated` | `Isolation` | `MatchInv` on `TypeOK`, `LockInv`, `SlotInv`, `PoolInv` |
| `GatewayBackends!NoneOrphaned` *D* | `NoOrphan` | `GoneForGood`, `UpInv` on the above |
| `GatewayBackends!OneEach` *D* | `OneBackend`, of which `OneDial` is a part | the same |
| `GatewayBackends!PeersKeepBackend` *D* | `NoPeerClose` | the same |
| `GatewayBackends!ClosedIsClean` *D* | `ClosedMeansClean` | the same, `ClosedInv` |
| `GatewayBackends!LeaseImplemented` *D* | `ImplementsLease` | the same, `LeaseInv` |
| `GatewayBackends!FrontendsImplemented` *D* | `ImplementsFrontends` | the same, `FrontsInv` |
| `ProcessCloseProofs!NoMemberSurvives` | `GroupGone` | `GroupInv` |
| `ProcessCloseProofs!ConnectionClosedLast` | `ClosedAfterKill` | `GroupInv` |
| `ProcessCloseProofs!NothingIsLost` | `NothingLost` | `PipeInv` |
| `LineBoundProofs!GoodLinesOnly` | `OnlyGoodLines` | `LineInv` |
| `LineBoundProofs!GoodLinesAll` | `NoGoodLineLost` | `LineInv` |
| `LineBoundProofs!FrameHeld` | `HoldsOneFrame` | `LineInv` |
| `EndpointProofs!ListedMayBeCalled` | `ListedIsCallable` | `EndpointInv` |
| `EndpointProofs!NothingLeftOut` | `ListingComplete` | `EndpointInv` |
| `EndpointProofs!DescribeSearchesAll` | `DescribeFinds` | `EndpointInv` |
| `EndpointProofs!GuidanceIsOriginal` | `DaemonGuidance` | `EndpointInv` |
| `EndpointProofs!CompactedOnce` | what one compaction does to any schema | none: by depth |
| `EndpointProofs!ListedAsGiven` | `ShownAsGiven` | itself, on `EndpointInv` |
| `EndpointProofs!ListingIsCompacted` | `ListingCompacted` | `ShownAsGiven`, `GivenSchemas` |
| `DaemonProofs!NothingLeft` | `ExitLeavesNothing` | `StopInv` |
| `DaemonProofs!WorkFinished` | `WorkIsFinished` | `StopInv` |
| `DaemonProofs!GatewayOfProcess` | `FrontsSpec` | `StopInv` |
| `RelayProofs!HeartbeatKeeps` | `HeartbeatHolds` | `TypeOK`, `Timing` |
| `RelayProofs!RelayIsLetIn` | `RelayLetIn` | itself: the policy is read once |
| `RelayProofs!NobodyIsShutOut` | `NobodyShutOut` | itself |
| `OutputTotalProofs!BodyBounded` | `Bounded` | `TotalInv` |
| `OutputTotalProofs!BodyVerdict` | `VerdictExact` | `TotalInv` |

Why the invariants are needed:

* `TypeOK` is more than types: it says which program counters carry a session
  struct and which a target, and that is why no handler follows a nil pointer.
* `LockInv` ties the holder of every session mutex to a program counter: a
  handler that holds a mutex is at `attaching` or `dialing`, a reaper at
  `holding`, `last` or `reaping`. That alone gives exclusion. It also says that
  a handler's struct has a reaper, and that a reaper past its mutex has
  cancelled the struct's context first, which is what attach's look at
  `s.ctx.Err()` (`shared.go:25`) rests on.
* `HeldInv` is the other direction of `LockInv`: who is recorded as the holder of
  a mutex is at a place that gives it back, so that no one waits for a goroutine
  that has returned. With both, everyone has a level (`Level`): before
  `front.Wait` returns, without a mutex, with a frontend's, with the pool's too,
  with one under which a backend is dialled or closed. `LevelsRise` shows that a
  goroutine only waits for one of a higher level, which is the order in which
  the code takes its mutexes; a set of goroutines that all wait for each other
  would have no member of the highest level.
* `SlotInv` needs `TableLeadsBack`: a reaper frees the slot of *its* frontend,
  so the table entry that it deletes must be there and be its own.
* `CallInv` needs `BorrowsOfEntry`: a handler that takes its second token takes
  it from an entry, never from the struct of which it has the first.
* `PoolInv` says in one piece what attach and release keep between them under
  two mutexes: while an entry is being reaped the pool's mutex is taken
  (`PoolLocked`), so no one attaches (`AttachPool` needs it free); an attached
  or dying entry is in the pool under its principal (`UsedIsPooled`); an entry
  in the pool has a user, or a reaper that is about to remove it
  (`PooledIsUsed`, `DyingIsUnused`); and the count is the users (`RefsCounted`).
  The last release is then the step at which the users become none.
* `MatchInv` follows a call from its request to the backend: a handler works with
  the struct that the table has for its own frontend (`FrontsMatch`), what it
  forwards to is that struct or its owner (`TargetsMatch`), and an owner is an
  entry of the frontend's principal (`OwnersMatch`). The last holds although
  attach answers from memory (`shared.go:32`), because an entry never changes
  its principal.
* `GoneForGood` is where `Drains` comes in: a frontend whose reaper has woken is
  not open and has no handler, and since only an open frontend sends requests it
  never has one again. So no dial is under way, and none begins, for a struct
  whose reaper has looked at it. `UpInv` is what this gives: a backend that is up
  belongs to a struct whose reaper still waits (`OwnHaveReaper`) or to an entry
  that somebody uses or is reaping (`EntriesHaveReaper`); it also says which
  structs are still as they were made. With `UsedIsPooled` two entries with a
  backend cannot have one principal, which is `OneBackend`.
* `ClosedInv`: nobody opens after Close, so that the reapers stay done; the
  slots, references and entries are then zero by their counts.
* `LeaseInv` is all of these together but the last. A step of the gateway is
  mapped to one of SharedLease by what it does to the entry in the pool: attach to
  a new user, a dial, a crash and a release to theirs, the last release and the
  reaping of the entry to renewal. For every other step it is shown that users,
  generations and backends are as before.
* `FrontsInv` is `LeaseInv` and `ClosedInv`. `UserInTable` is the step that the
  refinement of Frontends turns on: a struct that leans on a backend that is up
  is the one that the table has for its frontend and has a reaper still at work.
  So who gets a backend is not reaped (`DialFronts`, which gives it to all that
  lease it), a cleanup takes its own frontend's and no one else's
  (`CleanedFronts`: the last release of an entry finds no other user, by
  `DyingIsUnused` and `PoolLocked`), and who is forgotten has none left
  (`ForgetFronts`). That a request in service holds the cleanup back is
  `GoneForGood`.
* `GroupInv`: a caller that has returned from `Close` knows the `sync.Once` over,
  and from the SIGKILL on no member of the group runs, nor ever will, because
  only members fork into it. `PipeInv` is one sum.
* `LineInv`: what was handed on and what is pending are together the beginning of
  the child's output up to the end of a good line (`HandedInv`); the frame in
  the making is what was read since, without an end of line in it (`FrameInv`);
  and a Read that ends the stream is at a bad line or at the end of the output
  (`EndInv`). The reference, `GoodBytes`, is a CHOOSE: that there is exactly one
  place of its kind is proved from the least element of a set of naturals
  (`GoodBytesExists`, `GoodBytesGreatest`, `GoodBytesReached`).
* `EndpointInv`: the walk over the pages has the first one and all successors of
  those it has seen (`Walk`), so that it has been wherever a path of cursors
  leads (`PathInside`: the first cursor of the path that it has not seen would
  follow one that it has). `ListInv` says what of these pages has been shown.
  `DescribeInv` says besides that the helper goes through them in their order,
  for a tool that is on none of the pages so far; with that the limit of pages
  cuts off nothing that is on one of them, and a list request that fails does so
  before the tool was seen.
* `GivenSchemas`: what a backend sends is JSON and stays what it was. The rest of
  `ListingIsCompacted` is about one value, however deep. That the recursive
  definitions of `ShortenSchema` and `Texts` define functions is not free:
  `Recursion` builds them level by level from a step that looks only at what
  is nested less deep (`WalkedLocal`, `TextsInLocal`). `WalkGuided` then is an
  induction over the depth (`ByHeight`, which takes the set of values with the
  property in place of a predicate): `GuidanceStep` says what one step of a path
  into a schema, a list of schemas or schemas by name does to the question
  whether guidance lies at its end, and `MemberGuided` that the walk goes on at
  exactly these. `CompactedTwice` is what a relay adds to its daemon: nothing.
* `StopInv`: a backend or a request in service belongs to a frontend that is
  not reaped (`Unreaped`); from where run has called `Close` no frontend
  registers, and once `Close` has returned all are reaped (`Stopped`), so that
  the requests that still reach the server are never in service.
* `Timing` bounds the two clocks together: while no ping is under way the
  session has been idle for no longer than the loop has waited, which is at
  most an interval and its lateness; from the tick until the ping arrives, for
  an interval and its lateness more. `Margins` is the arithmetic that both fit
  into the idle timeout. `SecretLetsIn` and `DoorsOpen` go through the
  decisions of the four places once, for every record they could be given.
* `TotalInv` relates what the reader was given, what remains of the limit and
  what remains of the body.

A lemma per action shows that it keeps the invariant, in the order in which
the module states the actions.

## Only model-checked

Liveness under fairness (`CallEnds`, `FrontReaped`, `CloseCompletes`,
`CloseReturns`, `WaiterEnds`, `DescribeEnds`, `SignalEnds`, `OrphanReclaimed`,
`LossNoticed`) is out of the prover's reach. Every other property of a run
that passes is a theorem.

## Not modelled

Hashing and the JWT checks of the library (a verdict on the token in Policy),
the resource metadata document, `/healthz` and the paths of the mux; requests
that the middleware refuses before `get` (`bridge.go:139-151`), which touch no
state; errors of the body under `totalBound`, which it passes on, and whether
the answer of a handler that has returned reaches its client; the SDK's
session handling beyond the idle timer (`Disconnect` stands for every way a
frontend ends); `childEnv` and the wiring of HTTP transports; numeric ranges,
identifiers and duplicate entries in `Validate`, and `Registry` and `Resolve`,
which look definitions up in files; reuse of process numbers; `privateResult`,
which clears two fields; `inventory`, the demo server, the scripts.
`PROJECT.json` gives the reason for each.

## Plan

1. Done: Gateway with SharedLease, ProcessClose, LineBound, OutputTotal,
   Endpoint with Compaction, Daemon, Relay with Policy.
2. Done: the proofs. Every invariant and every action property that a passing run
   checks is a theorem, and so are the refinements of SharedLease and Frontends.
3. Done: Daemon on Frontends, which Gateway implements.
