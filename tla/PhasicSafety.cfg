SPECIFICATION Spec
CONSTANTS
  r1 = r1 r2 = r2 p1 = p1 p2 = p2
  Requests <- TwoRequests
  PhaseNames <- OneName
  InitialPhase = p1
  MAX_PHASES = 2
  QueueRecharge = 1
  None = None
  Failures = TRUE
  MaxStops = 1
  MaxRestarts = 1
CHECK_DEADLOCK FALSE
SYMMETRY RequestSymmetry
INVARIANTS
  TypeOK OnePhaseAtATime StopReachesInference HandledOnce PhaseBudget
PROPERTIES LostOnlyWhilePlanning Implements
