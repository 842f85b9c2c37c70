CONSTANTS
  f1 = f1
  f2 = f2
  f3 = f3
  alice = alice
  bob = bob
  h1 = h1
  None = None
  Fronts = {f1, f2}
  Handlers = {h1, h2}
  Sessions = {s1, s2}
  Entries = {e1, e2}
  Principals = {alice, bob}
  PrincipalOf <- TwoPrincipals
  SharedFronts = {f1, f2}
  MaxSessions = 2
  ConcurrentCalls = 2
  Drains = TRUE
SPECIFICATION FairSpec
ACTION_CONSTRAINT EndsBound
CHECK_DEADLOCK FALSE
PROPERTIES CallEnds FrontReaped CloseCompletes
