CONSTANTS
  Request = {r1, r2, r3}
  Call = {l1, l2, l3, l4}
  Client = {c1, c2}
  Right = {connect, view}
  Subject = {me, other}
  Actors = {me}
  MaxCrashes = 2
  MaxClears = 1
  MaxEdits = 4
  MaxSteps = 5
  None = None
SPECIFICATION FilesSpec
SYMMETRY Symmetry
INVARIANTS FilesTypesOK HeldIsAudited SerialsAreUnique LossesAreExplained SharedVaultIsKept DenialsWin
CHECK_DEADLOCK FALSE
