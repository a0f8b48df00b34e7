CONSTANTS
  Caller = {k1, k2, k3}
  InputCap = 1
  EventCap = 4
  WideText = TRUE
  MaxOutput = 1
SPECIFICATION FairSpec
INVARIANTS TypeOK RunningSessionIsFound
PROPERTIES MirrorFollowsLifecycle CloseEndsSession CallersReturn EndIsReported
CHECK_DEADLOCK FALSE
