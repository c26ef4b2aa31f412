SPECIFICATION Spec
CHECK_DEADLOCK FALSE
SYMMETRY Symmetry
CONSTANTS
  Requests = {r1, r2}
  Admins = {a1, a2}
  Credentials = {c1}
  Boot <- Booted
  Writes <- Manifests
  Scopes <- Minted
  Plans = {"free", "pro"}
  TOOL_BUDGET = 2
  PerMinute = 1
  Minute = 2
  MaxTime = 4
  MaxBegun = 4
INVARIANTS
  TypeOK
  ListsAgree
  EvenSample
  RateKept
  AuditTrue
  PlanTold
