SPECIFICATION Spec
CONSTANTS
  Callers = {c1, c2}
  Rotating = TRUE
  Mixed = 4
  Bound <- BoundTransient
INVARIANTS
  FlagMeansDead
