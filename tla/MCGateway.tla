----------------------------- MODULE MCGateway -----------------------------
(* Instances of Gateway for TLC.                                           *)
EXTENDS Gateway, TLC

CONSTANTS f1, f2, f3, alice, bob, h1

OnePrincipal == [f \in Fronts |-> alice]
TwoPrincipals == [f \in Fronts |-> IF f = f2 THEN bob ELSE alice]

\* Handlers are alike, and so are frontends of one principal.
Symmetry == Permutations(Handlers)
PeerSymmetry == Permutations(Handlers) \cup Permutations(Fronts)

\* Of gw_ends, where liveness rules out symmetry: frontends are alike, so that
\* one handler may well serve no other than f1, and so are live and dead
\* backends, which no guard tells apart.
EndsBound ==
  /\ from'[h1] # f2
  /\ \A o \in Structs : backend'[o] = "dead" => backend[o] = "dead"
=============================================================================
