CONSTANTS
  Calls = {c1, c2}
  Tokens = {k1, k2}
  StaticKey = StaticKey
  NoCall = NoCall
  Lifetimes <- MCLifetimes
  UnsaidLifetimes <- MCUnsaidLifetimes
  DefaultExpiresIn = 3
  ExpirySkew = 2
  RoundTrip = 1
  MaxGrants = 3
  MaxTime = 2
SPECIFICATION Spec
INVARIANT BurnsOnlyRefused
CHECK_DEADLOCK FALSE
