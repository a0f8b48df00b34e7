CONSTANTS
  Wizard = {w1}
  Page = {p1, p2}
  Edit = {e1, e2}
  Rotation = {}
  Server = {s1}
  Host = {h1, h2}
  Blank = blank
  Password = {blank, other}
  MaxCrashes = 0
  None = None
SPECIFICATION Spec
SYMMETRY Symmetry
INVARIANTS EditsAreAtomic
CHECK_DEADLOCK FALSE
