SPECIFICATION Spec
CONSTANTS
  Callers = {c1}
  Nobody = Nobody
  Quota = 1
  PerMs = 2
  PerMonth = 4
  MaxTime = 3
  MaxCalls = 1
INVARIANTS
  EveryEventCharged
