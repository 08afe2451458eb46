SPECIFICATION Spec
CONSTANTS
  c1 = c1 c2 = c2
  Calls <- TwoCalls
  WithFiles <- TwoCalls
  Redeploying <- NoCall
  Protected <- SecondCall
  OneToOne = FALSE
  InPool <- TwoContainers
  Tick = Tick
  Base = Base
  None = None
  MaxAttempts = 2
  HasCommands = FALSE
  MaxFaults = 2
  MaxTries = 5
  MaxRestarts = 0
CHECK_DEADLOCK FALSE
INVARIANTS
  DeploymentInFlight FreshSession OwnerFilesWrittenOrLost
PROPERTIES Implements
