CONSTANTS
  Caller = {k1, k2, k3}
  InputCap = 1
  EventCap = 16
  WideText = FALSE
  MaxOutput = 6
SPECIFICATION Spec
SYMMETRY Symmetry
INVARIANTS EndIsLogged

CHECK_DEADLOCK FALSE
