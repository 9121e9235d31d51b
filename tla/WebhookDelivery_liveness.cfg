SPECIFICATION FairSpec
CONSTANTS
  w1 = w1
  Proc = {p1}
  Webhook = {w1}
  Delivery = {d1}
  Target <- OneTarget
  Attempt = {a1, a2}
  MaxAttempts = 2
  FlushBatchLimit = 500
  FailureThreshold = 4
  SuccessThreshold = 1
  MaxTickets = 7
  MaxFaults = 2
  MaxAdminOps = 1
PROPERTIES
  Settles
  DisabledHookDrains
CHECK_DEADLOCK FALSE
