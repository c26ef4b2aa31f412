SPECIFICATION Spec
CHECK_DEADLOCK FALSE
SYMMETRY Symmetry
CONSTANTS
  Requests = {r1, r2}
  Admins = {a1}
  Credentials = {c1}
  Boot <- Booted
  Writes <- Manifests
  Scopes <- Minted
  Plans = {"pro"}
  TOOL_BUDGET = 2
  PerMinute = 2
  Minute = 1
  MaxTime = 1
  MaxBegun = 2
INVARIANTS
  SearchIsCallable
