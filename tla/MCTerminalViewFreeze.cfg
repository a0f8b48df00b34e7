CONSTANTS
  Cap = 2
  MaxOutput = 5
  MaxTurns = 0
SPECIFICATION FairSpec
PROPERTIES OutputIsShown
CHECK_DEADLOCK FALSE
