CONSTANTS
  MaxAttempts = 3
  MaxConnects = 2
  None = None
SPECIFICATION FairSpec
INVARIANTS TypeOK SessionIsCurrent ConnectedDisarmsTimeout EndIsShown
PROPERTIES ConnectingSettles StaleSessionsAreClosed
CHECK_DEADLOCK FALSE
