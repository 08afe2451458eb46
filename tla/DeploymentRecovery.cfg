SPECIFICATION FairSpec
CONSTANTS
  c1 = c1 c2 = c2
  Calls <- TwoCalls
  WithFiles <- NoCall
  Redeploying <- TwoCalls
  Protected <- NoCall
  OneToOne = TRUE
  InPool <- TwoContainers
  Tick = Tick
  Base = Base
  None = None
  MaxAttempts = 2
  HasCommands = TRUE
  MaxFaults = 1
  MaxTries = 2
  MaxRestarts = 1
CHECK_DEADLOCK FALSE
PROPERTIES LastLoopSettles
INVARIANTS TypeOK
