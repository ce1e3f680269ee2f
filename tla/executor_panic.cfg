CONSTANTS
  Runs = {r1, r2}
  NoRun = NoRun
  Scopes = {s1, s2}
  MaxPools = 1
  MaxPooledPrograms = 1
SPECIFICATION Spec
INVARIANT PanickedNotPooled
CHECK_DEADLOCK FALSE
