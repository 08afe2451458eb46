SPECIFICATION Spec
CONSTANTS
  c1 = c1 c2 = c2
  Calls <- TwoCalls
  WithFiles <- TwoCalls
  Redeploying <- NoCall
  OneToOne = TRUE
  InPool <- TwoContainers
  Protected <- NoCall
  Tick = Tick
  Base = Base
  None = None
  MaxAttempts = 2
  HasCommands = TRUE
  MaxFaults = 1
  MaxTries = 3
  MaxRestarts = 0
CHECK_DEADLOCK FALSE
INVARIANTS WatchedAtRest
