CONSTANTS
  Results = {r1}
  Deliveries = {d1, d2}
  ClockSkew = 1
  Second = 3
  Timeout = 1
  Lag = 1
  HostOffsets <- Offsets
  MaxTime = 7
SPECIFICATION FairSpec
INVARIANTS
  TypeOK
  OneOpenDispatch
  HeldNonceIsBacked
  NoRepeatInWindow
PROPERTIES
  ImplementsRedelivery
  OnlyOwnerReleases
  DeliveriesEnd
  FailureReleases
CHECK_DEADLOCK FALSE
