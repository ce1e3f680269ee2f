CONSTANTS
  Runs = {r1, r2, r3}
  NoRun = NoRun
  Scopes = {s1, s2}
  MaxPools = 1
  MaxPooledPrograms = 1
SPECIFICATION Spec
SYMMETRY Symmetry
INVARIANTS
  TypeOK
  ProgramExclusive
  NoStrayGoroutine
  ScopeIsolated
  IdleBounded
PROPERTY ImplementsSoloRun
CHECK_DEADLOCK FALSE
