CONSTANTS
  Results = {r1}
  Deliveries = {d1, d2}
  ClockSkew = 1
  Second = 1
  Timeout = 4
  Lag = 0
  HostOffsets <- Offsets
  MaxTime = 5
SPECIFICATION Spec
INVARIANT OneOpenDispatch
CHECK_DEADLOCK FALSE
