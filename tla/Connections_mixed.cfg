SPECIFICATION Spec
CONSTANTS
  gmail = gmail
  gcal = gcal
  stripe = stripe
  google = google
  stripeKey = stripeKey
  Runs = {r1, r2, r3}
  Prefixes <- Providers
  KeyPrefixes = {stripe}
  Grants = {google, stripeKey}
  GrantOf <- Backing
  States = {s1, s2}
  None = None
  Bound = 4
SYMMETRY Symmetry
INVARIANTS
  TypeOK
  TradedOnce
  NoOrphan
  Usable
CHECK_DEADLOCK FALSE
