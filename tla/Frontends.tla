----------------------------- MODULE Frontends -----------------------------
(***************************************************************************)
(* What a gateway is to the process that runs it: frontends that register, *)
(* have a backend, end and are reaped, the requests that they send, and    *)
(* Close.  Daemon is built on it; Gateway, which has the inside (structs,  *)
(* mutexes, the pool), is shown to implement it.                           *)
(***************************************************************************)
CONSTANTS
  Fronts,    \* frontend sessions
  Requests   \* what their clients send, one after the other

VARIABLES
  closed,    \* g.closed
  front,     \* "none", "registered", "ended" or "reaped"
  backend,   \* whether a backend runs that the frontend has or shares
  arrived,   \* its requests that have reached the server ...
  serving    \* ... and those at work in the gateway

frontVars == <<closed, front, backend, arrived, serving>>

Registered == {f \in Fronts : front[f] = "registered"}

\* g.wg.Wait() in Close: every reaper is done.
ReapersIgnored == TRUE
ReapersDone == \A f \in Fronts : front[f] \in {"none", "reaped"}

FrontsInit ==
  /\ closed = FALSE
  /\ front = [f \in Fronts |-> "none"]
  /\ backend = [f \in Fronts |-> FALSE]
  /\ arrived = [f \in Fronts |-> {}]
  /\ serving = [f \in Fronts |-> {}]

Arrive(f, r) ==
  /\ \A g \in Fronts : r \notin arrived[g] \cup serving[g]
  /\ arrived' = [arrived EXCEPT ![f] = @ \cup {r}]
  /\ UNCHANGED <<closed, front, backend, serving>>

\* get finds the frontend's session or registers one, unless the gateway is
\* closed.  A frontend may have ended since its request arrived.
GetEvenClosed(f, r) ==
  /\ r \in arrived[f] /\ front[f] # "reaped"
  /\ arrived' = [arrived EXCEPT ![f] = @ \ {r}]
  /\ serving' = [serving EXCEPT ![f] = @ \cup {r}]
  /\ \E now \in (IF front[f] = "none" THEN {"registered", "ended"} ELSE {front[f]}) :
       front' = [front EXCEPT ![f] = now]
  /\ UNCHANGED <<closed, backend>>
Get(f, r) ==
  /\ r \in arrived[f] /\ ~closed /\ front[f] # "reaped"
  /\ arrived' = [arrived EXCEPT ![f] = @ \ {r}]
  /\ serving' = [serving EXCEPT ![f] = @ \cup {r}]
  /\ \E now \in (IF front[f] = "none" THEN {"registered", "ended"} ELSE {front[f]}) :
       front' = [front EXCEPT ![f] = now]
  /\ UNCHANGED <<closed, backend>>

\* Not authorized, a host or origin that is not allowed, an ended session, no
\* slot left, a closed gateway.
Decline(f, r) ==
  /\ r \in arrived[f]
  /\ arrived' = [arrived EXCEPT ![f] = @ \ {r}]
  /\ UNCHANGED <<closed, front, backend, serving>>

\* While a request of f is served, connect starts a backend, for f and the
\* frontends that lease it too, or attach leases one that runs.  A dial that
\* is about to succeed does so even if its context ends meanwhile.
Connect(f, F) ==
  /\ serving[f] # {} /\ f \in F
  /\ \A g \in F : front[g] \in {"registered", "ended"}
  /\ backend' = [g \in Fronts |-> g \in F \/ backend[g]]
  /\ UNCHANGED <<closed, front, arrived, serving>>

Answer(f, r) ==
  /\ r \in serving[f]
  /\ serving' = [serving EXCEPT ![f] = @ \ {r}]
  /\ UNCHANGED <<closed, front, backend, arrived>>

\* Frontends end by themselves, or because Close closes them.
End(F) ==
  /\ F \subseteq Registered
  /\ front' = [f \in Fronts |-> IF f \in F THEN "ended" ELSE front[f]]

\* The reaper, which front.Wait() holds back until requests are answered,
\* closes or releases the backend and then forgets the frontend.
Clean(f) ==
  /\ front[f] = "ended" /\ serving[f] = {} /\ backend[f]
  /\ backend' = [backend EXCEPT ![f] = FALSE]
  /\ UNCHANGED <<closed, front, arrived, serving>>
ForgetBusy(f) ==
  /\ front[f] = "ended" /\ ~backend[f]
  /\ front' = [front EXCEPT ![f] = "reaped"]
  /\ UNCHANGED <<closed, backend, arrived, serving>>
Forget(f) ==
  /\ front[f] = "ended" /\ serving[f] = {} /\ ~backend[f]
  /\ front' = [front EXCEPT ![f] = "reaped"]
  /\ UNCHANGED <<closed, backend, arrived, serving>>

\* Frontends end, Close begins, or both: on stdio the one frontend has ended
\* when the deferred Close is called.
EndOrClose ==
  \E F \in SUBSET Fronts :
    /\ End(F) /\ closed' \in {closed, TRUE}
    /\ UNCHANGED <<backend, arrived, serving>>

FrontsNext ==
  \/ EndOrClose
  \/ \E f \in Fronts, r \in Requests : Arrive(f, r) \/ Get(f, r) \/ Decline(f, r) \/ Answer(f, r)
  \/ \E f \in Fronts, F \in SUBSET Fronts : Connect(f, F)
  \/ \E f \in Fronts : Clean(f) \/ Forget(f)

\* The type invariant.
FrontsOK ==
  /\ closed \in BOOLEAN
  /\ front \in [Fronts -> {"none", "registered", "ended", "reaped"}]
  /\ backend \in [Fronts -> BOOLEAN]
  /\ arrived \in [Fronts -> SUBSET Requests] /\ serving \in [Fronts -> SUBSET Requests]

FrontsSpec == FrontsInit /\ [][FrontsNext]_frontVars
=============================================================================
