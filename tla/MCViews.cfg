CONSTANTS
  Cap = 4
  MaxOutput = 7
  MaxTurns = 2
  MaxRecords = 2
  MaxClears = 1
  MaxEnds = 1
  MaxMounts = 2
  MaxAsked = 2
  Section = {"hosts", "keychain", "logs"}
  MaxClicks = 5
  MaxMessages = 2
  None = None
SPECIFICATION ViewsSpec
INVARIANTS ViewTypesOK ShownInOrder WindowIsAsLeft
PROPERTIES ViewsCatchUp
CHECK_DEADLOCK FALSE
