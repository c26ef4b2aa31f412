SPECIFICATION Spec
SYMMETRY Symmetry
CONSTANTS
  Callers = {c1, c2}
  Nobody = Nobody
  Quota = 1
  PerMs = 2
  PerMonth = 4
  MaxTime = 5
  MaxCalls = 3
INVARIANTS
  TypeOK
  CounterExact
  OvershootBounded
  ChargedOnce
  MissedOnlyLate
PROPERTIES
  CursorForward
