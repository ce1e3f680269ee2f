CONSTANTS
  Invocations = {i1}
  Requests = {q1, q2}
  IssueTimes <- Issued
  ClockSkew = 1
  Second = 3
  Timeout = 1
  TotalDeadline = 2
  Lag = 1
  Swing = 1
  MaxTime = 5
SPECIFICATION FairSpec
INVARIANTS
  TypeOK
  AtMostOnce
PROPERTIES
  KeepsPromise
  TimeoutNamesItsCause
  InvocationsEnd
CHECK_DEADLOCK FALSE
