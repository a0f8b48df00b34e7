CONSTANTS
  Wizard = {w1}
  Page = {p1, p2}
  Edit = {e1, e2}
  Rotation = {r1}
  Server = {s1}
  Host = {h1}
  Blank = blank
  Password = {blank, other}
  MaxCrashes = 1
  None = None
SPECIFICATION Spec
SYMMETRY Symmetry
INVARIANTS LossNeedsStaleSave
PROPERTIES ForeignVaultIsKept
CHECK_DEADLOCK FALSE
