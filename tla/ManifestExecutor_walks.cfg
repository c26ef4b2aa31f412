SPECIFICATION Spec
CHECK_DEADLOCK FALSE
CONSTANTS
  Known <- Manifests
  InQuery <- QueryArguments
  Defaulted <- DefaultedArguments
  PageSize = 2
  MaxItems = 4
  MaxFaults = 1
  Now = 10
INVARIANTS
  TypeOK
  SecretStaysHome
  WritesOnce
  VerdictRight
  WalkExact
PROPERTIES
  WalkEnds
