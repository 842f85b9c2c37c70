------------------------------ MODULE Endpoint ------------------------------
(***************************************************************************)
(* What one endpoint exposes of its backend: the method switch of the      *)
(* middleware, forward and the metadata helper (bridge.go, metadata.go).   *)
(* A client reaches the backend through one gateway, the daemon, or through *)
(* two with the same policy: a relay in front of it (relay.go).            *)
(*                                                                         *)
(* The client either lists one kind of item page by page and then uses an  *)
(* item of that kind, or asks the helper for the full guidance of a tool:  *)
(* requests share nothing in the gateway but the policy, so that one of    *)
(* either in a behaviour is enough.                                        *)
(***************************************************************************)
EXTENDS FiniteSets, Compaction

CONSTANTS
  Kinds,     \* of "tools", "prompts" and "resources"
  Names,     \* names of items
  Helper,    \* bridge_describe_tool
  Cursors,   \* the backend's page cursors
  First,     \* the empty cursor: the first page, and none after the last
  NoPage,    \* in place of the page of an item that the backend does not list
  MaxPages,  \* pages that the helper reads, 64 in the code
  Guidances,        \* what a backend may say of an item ...
  SchemaGuidances,  \* ... and of one with any schema
  HelperGuidance,   \* what descriptorTool says of the helper
  Untold            \* in place of an answer of describeTool

ASSUME EndpointAssumption ==
  /\ "tools" \in Kinds /\ Kinds \subseteq {"tools", "prompts", "resources"}
  /\ Helper \notin Names /\ First \in Cursors /\ NoPage \notin Cursors
  /\ MaxPages \in Nat \ {0} /\ IsFiniteSet(Cursors)
  /\ \A g \in Guidances \cup SchemaGuidances : g.input \in JSON /\ g.output \in JSON

Offered == Names \cup {Helper}

VARIABLES
  relayed,   \* a relay stands before the daemon
  policy,    \* the allowlist of each kind
  compact,   \* description_limit > 0
  page,      \* the backend's page of an item of a kind
  next,      \* the cursor that follows a page, First after the last one
  guidance,  \* what the backend says of an item
  phase,     \* "start", "listing", "listed", "describing" or "done"
  kind,      \* what the client lists
  at,        \* the cursor of the next page: the client's, or describeTool's
  seen,      \* the cursors asked for so far
  listed,    \* what the client has been shown
  helpers,   \* ... and on how many pages the helper was
  name,      \* the item that is called or described
  pages,     \* describeTool's loop counter
  answer,    \* the outcome of the call, or what describeTool comes to: it finds
             \* the tool ("described"), says that it is unavailable or that a
             \* cursor came back ("failed"), or passes on an error ("error")
  told       \* what describeTool says of the item

configVars == <<relayed, policy, compact, page, next, guidance>>
listVars == <<kind, listed, helpers>>
vars == <<configVars, listVars, phase, at, seen, name, pages, answer, told>>

\* A policy that Validate accepts, and any backend: with its items on any
\* pages, or with any schema, since the walk over pages and the walk over a
\* schema do not meet.
Init ==
  /\ relayed \in BOOLEAN
  /\ policy \in [Kinds -> SUBSET Offered] /\ compact \in BOOLEAN
  /\ compact => Helper \notin policy["tools"]
  /\ \E k \in Kinds : policy[k] # {}
  /\ \/ /\ page \in [Offered -> Cursors \cup {NoPage}] /\ next \in [Cursors -> Cursors]
        /\ guidance \in [Offered -> Guidances]
     \/ /\ page = [n \in Offered |-> First] /\ next = [c \in Cursors |-> First]
        /\ guidance \in {[n \in Offered |-> g] : g \in SchemaGuidances}
  /\ phase = "start" /\ kind = "tools" /\ at = First /\ seen = {}
  /\ listed = {} /\ helpers = 0 /\ name = Helper /\ pages = 0
  /\ answer = "none" /\ told = Untold

-----------------------------------------------------------------------------
Item(n, g) == [name |-> n, guidance |-> g]

BackendPage(k, c) == {Item(n, guidance[n]) : n \in {m \in Offered : page[m] = c}}

HelperOnEveryPage(k, c) ==
  IF k = "tools" /\ compact THEN {Item(Helper, HelperGuidance)} ELSE {}
HelperItem(k, c) ==
  IF k = "tools" /\ compact /\ c = First THEN {Item(Helper, HelperGuidance)} ELSE {}

KeptWithHelper(k, items) == {i \in items : i.name \in policy[k] \/ i.name = Helper}
Kept(k, items) == {i \in items : i.name \in policy[k]}

\* forward's answer to a list request, made of the next layer's page.
Forward(k, c, items) ==
  {Item(i.name, IF k = "tools" /\ compact THEN CompactTool(i.guidance) ELSE i.guidance) :
     i \in Kept(k, items)}
  \cup HelperItem(k, c)

\* What the outermost gateway's backend session shows it, and its client.
Upstream(k, c) ==
  IF relayed THEN Forward(k, c, BackendPage(k, c)) ELSE BackendPage(k, c)
View(k, c) == Forward(k, c, Upstream(k, c))

-----------------------------------------------------------------------------
(* Listing.                                                                *)

ListStart(k) ==
  /\ phase = "start" /\ policy[k] # {}
  /\ phase' = "listing" /\ kind' = k
  /\ UNCHANGED <<configVars, at, seen, listed, helpers, name, pages, answer, told>>

\* The client gives up once a cursor comes back.
ListPage ==
  /\ phase = "listing"
  /\ listed' = listed \cup View(kind, at)
  /\ helpers' = helpers + IF \E i \in View(kind, at) : i.name = Helper THEN 1 ELSE 0
  /\ seen' = seen \cup {at} /\ at' = next[at]
  /\ phase' = CASE next[at] = First -> "listed"
                [] next[at] # First /\ next[at] \in seen' -> "done"
                [] OTHER -> "listing"
  /\ UNCHANGED <<configVars, kind, name, pages, answer, told>>

-----------------------------------------------------------------------------
(* tools/call, prompts/get and resources/read, of any item.                *)

Allowed(k, n) == n \in policy[k]

\* The helper's name is the gateway's own while the endpoint is compacted.
IsHelper(k, n) == k = "tools" /\ compact /\ n = Helper

Answer(a) == answer' = a /\ phase' = "done"

\* A gateway passes on what its policy allows and refuses the rest; the relay
\* and the daemon decide alike.
Call(n) ==
  /\ phase = "listed" /\ ~IsHelper(kind, n)
  /\ name' = n /\ Answer(IF Allowed(kind, n) THEN "executed" ELSE "refused")
  /\ UNCHANGED <<configVars, listVars, at, seen, pages, told>>

-----------------------------------------------------------------------------
(* describeTool, in the outermost gateway.                                 *)

DescribeStart(n) ==
  /\ phase = "start" /\ compact
  /\ name' = n
  /\ IF Allowed("tools", n) THEN phase' = "describing" /\ UNCHANGED answer
     ELSE Answer("refused")
  /\ UNCHANGED <<configVars, listVars, at, seen, pages, told>>

DescribeStops ==
  /\ phase = "describing"
  /\ pages = MaxPages \/ at \in seen
  /\ Answer("failed")
  /\ UNCHANGED <<configVars, listVars, name, at, seen, pages, told>>

Reading == phase = "describing" /\ pages < MaxPages /\ at \notin seen

OriginalOfView(c) == View("tools", c)
Original(c) == Upstream("tools", c)

\* The list request fails: the backend answers with an error, has died or is
\* late for callCtx.
DescribeError ==
  /\ Reading /\ Answer("error")
  /\ UNCHANGED <<configVars, listVars, name, at, seen, pages, told>>

DescribeFound ==
  /\ Reading
  /\ \E i \in Original(at) : i.name = name /\ told' = i.guidance
  /\ Answer("described")
  /\ UNCHANGED <<configVars, listVars, name, at, seen, pages>>

Absent == \A i \in Original(at) : i.name # name

\* The counters of the loop, per page.
UnboundedCounters == UNCHANGED <<seen, pages>>
CountTwice == seen' = seen \cup {at} /\ pages' = pages + 2
Counters == seen' = seen \cup {at} /\ pages' = pages + 1

DescribeNext ==
  /\ Reading /\ Absent
  /\ IF next[at] = First THEN Answer("failed") /\ UNCHANGED <<at, seen, pages>>
     ELSE at' = next[at] /\ Counters /\ UNCHANGED <<phase, answer>>
  /\ UNCHANGED <<configVars, listVars, name, told>>

Describe == DescribeStops \/ DescribeError \/ DescribeFound \/ DescribeNext

Next ==
  \/ \E k \in Kinds : ListStart(k)
  \/ ListPage
  \/ \E n \in Offered : Call(n)
  \/ \E n \in Offered : DescribeStart(n)
  \/ DescribeStops \/ DescribeError \/ DescribeFound \/ DescribeNext

Spec == Init /\ [][Next]_vars

\* The loop of describeTool runs on: a list request is answered, or it fails
\* when callCtx ends at the latest.
FairSpec == Spec /\ WF_vars(Describe)

-----------------------------------------------------------------------------
\* What a client sees in a listing it may use, and what it may use is in the
\* listing if the backend has it: no call of a listed item is refused and
\* none of another is executed, whatever the backend offers under the
\* helper's name, with a relay and without one (bridge.go:139-181,
\* 242-303).
Shown(n) == \E i \in listed : i.name = n
ListedIsCallable ==
  /\ Shown(name) => answer # "refused"
  /\ answer = "executed" /\ page[name] \in seen => Shown(name)

\* Item n is on one of the first m pages.
Path(p, k) == p[0] = First /\ \A j \in 1..k : p[j] = next[p[j - 1]] /\ p[j] # First
Findable(n, m) ==
  \E k \in 0..m - 1 : \E p \in [0..k -> Cursors] : Path(p, k) /\ page[n] = p[k]

\* A listing that came to its end shows each allowed item that the backend
\* listed, and the helper once (bridge.go:263-266).
ListingComplete ==
  phase = "listed" =>
    /\ \A n \in Offered :
         n \in policy[kind] /\ Findable(n, Cardinality(Cursors))
         => Shown(n)
    /\ compact /\ kind = "tools" => helpers = 1

\* In a compacted listing every description of a tool and of its schemas is
\* within the limit, and every other text is as the backend gave it: "Only
\* descriptions at schema-valued locations are shortened" (docs/metadata.md),
\* not a property of that name or a literal in a default value, however often
\* the listing is compacted.  Any other listing is left as it is.
ListingCompacted ==
  \A i \in listed :
    LET given == guidance[i.name]
    IN CASE kind # "tools" \/ ~compact -> i.guidance = given
         [] kind = "tools" /\ compact /\ i.name # Helper ->
              /\ i.guidance.text = Shorten(given.text)
              /\ WellCompacted(i.guidance.input, given.input)
              /\ WellCompacted(i.guidance.output, given.output)
         [] OTHER -> TRUE

\* The helper calls a tool unavailable only if it is on none of the first
\* pages, and passes on the error of a list request (which it may meet at any
\* page: the backend fails, or callCtx ends) only while the tool is on none of
\* the pages that it has got so far: what it has once been shown it answers
\* with (metadata.go:116-140).
DescribeFinds ==
  /\ answer = "failed" => ~Findable(name, MaxPages)
  /\ answer = "error" => page[name] \notin seen

\* The daemon's helper answers with the backend's own description
\* (metadata.go:122-132).
DaemonGuidance == answer = "described" /\ ~relayed => told = guidance[name]

\* "Call it with tool_name to retrieve the complete original guidance for an
\* allowed tool" (docs/metadata.md:14-15), behind a relay as well.
FullGuidance == answer = "described" => told = guidance[name]

\* A backend whose cursors never end or go round does not keep the helper
\* for ever (metadata.go:114-121).
DescribeEnds == phase = "describing" ~> phase # "describing"
=============================================================================
