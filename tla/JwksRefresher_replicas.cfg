SPECIFICATION FairSpec
CONSTANTS
  Proc = {p1, p2}
  Anchor = {t1, t2}
  Issuer = {i1, i2}
  JwksUrl = {}
  NoUrl = NoUrl
  MaxVersion = 1
  MaxFaults = 2
  MaxAdminOps = 1
INVARIANTS
  ServedKeysMatchUrls
PROPERTIES
  ImplementsCache
  CacheCatchesUp
CHECK_DEADLOCK FALSE
