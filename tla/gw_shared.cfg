CONSTANTS
  f1 = f1
  f2 = f2
  f3 = f3
  alice = alice
  bob = bob
  h1 = h1
  None = None
  Fronts = {f1, f2}
  Handlers = {h1, h2, h3}
  Sessions = {s1, s2}
  Entries = {e1, e2}
  Principals = {alice, bob}
  PrincipalOf <- OnePrincipal
  SharedFronts = {f1, f2}
  MaxSessions = 2
  ConcurrentCalls = 2
  Drains = TRUE
SPECIFICATION Spec
CHECK_DEADLOCK FALSE
SYMMETRY PeerSymmetry
INVARIANTS NoOrphan OneBackend
PROPERTIES NoPeerClose ImplementsLease ImplementsFrontends
