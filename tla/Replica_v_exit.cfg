SPECIFICATION Spec
CONSTANTS
  k1 = k1
  Ip = {i1}
  Token = {k1}
  NoToken = NoToken
  ApiKey = {k1}
  IssuerKey = {}
  Prefix <- Prefixed
  Production = TRUE
  LimitEnabled = TRUE
  Limit <- Limits
  WindowMs = 2
  MaxTime = 4
  MaxDrops = 1
  Hook = {}
  Prober = {lb}
  MaxPosts = 1
  Disabled = {}
INVARIANT
  ExitIsNoticed
CHECK_DEADLOCK FALSE
