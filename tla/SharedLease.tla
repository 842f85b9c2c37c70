---------------------------- MODULE SharedLease ----------------------------
(***************************************************************************)
(* What the pool of a shared endpoint promises (shared.go): per principal, *)
(* one backend at a time, leased to the frontends that use it.  A failed   *)
(* or crashed backend is spoiled for all of them, and nobody joins a       *)
(* principal's next generation before the last user of this one has left   *)
(* and its backend is reaped.                                              *)
(***************************************************************************)
CONSTANTS Fronts, Principals

VARIABLES
  users,  \* the frontends that lease a principal's backend
  gen     \* "cold" (no backend), "up" or "spoiled"

vars == <<users, gen>>

Init ==
  /\ users = [p \in Principals |-> {}]
  /\ gen = [p \in Principals |-> "cold"]

\* A frontend leases one backend, of one principal.
Join(p, f) ==
  /\ \A q \in Principals : f \notin users[q]
  /\ users[p] # {} \/ gen[p] = "cold"
  /\ users' = [users EXCEPT ![p] = @ \cup {f}]
  /\ gen' = gen

Start(p) ==
  /\ users[p] # {} /\ gen[p] = "cold"
  /\ gen' = [gen EXCEPT ![p] = "up"]
  /\ users' = users

\* The start fails, or the backend dies.
Spoil(p) ==
  /\ \/ gen[p] = "up"
     \/ gen[p] = "cold" /\ users[p] # {}
  /\ gen' = [gen EXCEPT ![p] = "spoiled"]
  /\ users' = users

Leave(p, f) ==
  /\ f \in users[p]
  /\ users' = [users EXCEPT ![p] = @ \ {f}]
  /\ gen' = gen

Reap(p) ==
  /\ users[p] = {} /\ gen[p] # "cold"
  /\ gen' = [gen EXCEPT ![p] = "cold"]
  /\ users' = users

Next ==
  \E p \in Principals :
    \/ Start(p) \/ Spoil(p) \/ Reap(p)
    \/ \E f \in Fronts : Join(p, f) \/ Leave(p, f)

Spec == Init /\ [][Next]_vars
=============================================================================
