SPECIFICATION FairSpec
CONSTANTS
  Callers = {c1, c2}
  Keys = {k1}
  NoKey = NoKey
  FileQuota = 1
INVARIANTS
  TypeOK
  PerformedOnce
  OffIsOff
  FilesBounded
PROPERTIES
  CallEnds
