CONSTANTS
  Results = {r1}
  Deliveries = {d1, d2}
  ClockSkew = 1
  Second = 2
  Timeout = 1
  Lag = 1
  HostOffsets <- Offsets
  MaxTime = 4
SPECIFICATION Spec
INVARIANT OneRunningHandler
CHECK_DEADLOCK FALSE
