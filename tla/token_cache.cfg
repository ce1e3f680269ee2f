CONSTANTS
  Calls = {c1, c2}
  Tokens = {k1}
  StaticKey = StaticKey
  NoCall = NoCall
  Lifetimes <- MCLifetimes
  UnsaidLifetimes <- MCUnsaidLifetimes
  DefaultExpiresIn = 3
  ExpirySkew = 2
  RoundTrip = 1
  MaxGrants = 3
  MaxTime = 4
SPECIFICATION FairSpec
INVARIANTS
  TypeOK
  NeverDeadOnArrival
  RetryIsFresh
  SingleFlight
PROPERTIES
  ImplementsOneToken
  CallsReturn
CHECK_DEADLOCK FALSE
