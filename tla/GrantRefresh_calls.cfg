SPECIFICATION FairSpec
CONSTANTS
  Callers = {c1, c2}
  Rotating = TRUE
  Mixed = 4
  Bound <- BoundCalls
INVARIANTS
  TypeOK
  NoReplay
  RefreshOnce
  RefreshInv
PROPERTIES
  KeepsPromise
  CallEnds
