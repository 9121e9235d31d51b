SPECIFICATION FairSpec
CONSTANTS
  a1 = a1
  m1 = m1
  m2 = m2
  m3 = m3
  Aid = {a1}
  Manifest = {m1, m2, m3}
  ManifestAid <- OneAgent
  ManifestExpires <- FirstExpires
  Supported = {m1, m2}
  Jti = {j1}
  Request = {r1, r2}
  Sweeper = {s1, s2}
  NoExpiry = NoExpiry
  None = None
  Lifetime = 1
  Guard = 1
  RetentionEnabled = TRUE
  MaxClock = 5
  MaxUses = 2
  MaxCrashes = 1
  MaxDeletes = 1
INVARIANTS
  StoredAsEnrolled
  ExpiredAtMostOnce
PROPERTIES
  ImplementsRegistrar
  TokenIsOneTime
  DeregisteredStays
  AgentsRetire
CHECK_DEADLOCK FALSE
