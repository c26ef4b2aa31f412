SPECIFICATION FairSpec
CHECK_DEADLOCK FALSE
CONSTANTS
  g1 = g1
  g2 = g2
  s1 = s1
  s2 = s2
  s3 = s3
  Replicas = {r1, r2}
  Migrations = 2
  Sessions = {s1, s2, s3}
  Grants = {g1, g2}
  GrantOf <- Shared
  POOL_MAX = 3
  MaxCrashes = 1
INVARIANTS
  TypeOK
  MigratedOnce
  LocalUsable
  OneClient
PROPERTIES
  BootEnds
  RefreshEnds
