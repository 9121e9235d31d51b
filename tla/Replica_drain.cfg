SPECIFICATION FairSpec
CONSTANTS
  k1 = k1
  Ip = {i1}
  Token = {k1}
  NoToken = NoToken
  ApiKey = {k1}
  IssuerKey = {}
  Prefix <- Prefixed
  Production = TRUE
  LimitEnabled = TRUE
  Limit <- Limits
  WindowMs = 2
  MaxTime = 4
  MaxDrops = 1
  Hook = {flush}
  Prober = {lb}
  MaxPosts = 1
  Disabled = {}
INVARIANTS
  WindowBound
  OneTimerPerJob
PROPERTIES
  NoReturnToService
  Exits
CHECK_DEADLOCK FALSE
