SPECIFICATION FairSpec
CONSTANTS
  IdleSeconds = {1, 3}
  Second = 12
  MinBeat = 4
  Late = 2
INVARIANTS HeartbeatHolds RelayLetIn NobodyShutOut
PROPERTIES OrphanReclaimed LossNoticed
