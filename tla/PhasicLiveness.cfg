SPECIFICATION FairSpec
CONSTANTS
  r1 = r1 r2 = r2 p1 = p1 p2 = p2
  Requests <- TwoRequests
  PhaseNames <- OneName
  InitialPhase = p1
  MAX_PHASES = 2
  QueueRecharge = 1
  None = None
  Failures = FALSE
  MaxStops = 0
  MaxRestarts = 0
CHECK_DEADLOCK FALSE
PROPERTIES GenerationEnds QueuedIsBuilt
