CONSTANTS
  Invocations = {i1}
  Requests = {q1, q2}
  IssueTimes <- Issued
  ClockSkew = 1
  Second = 1
  Timeout = 1
  TotalDeadline = 2
  Lag = 0
  Swing = 1
  MaxTime = 5
SPECIFICATION Spec
INVARIANT AtMostOnce
CHECK_DEADLOCK FALSE
