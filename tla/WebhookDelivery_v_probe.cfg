SPECIFICATION Spec
CONSTANTS
  w1 = w1
  Proc = {p1}
  Webhook = {w1}
  Delivery = {d1, d2}
  Target <- OneTarget
  Attempt = {a1, a2}
  MaxAttempts = 1
  FlushBatchLimit = 500
  FailureThreshold = 1
  SuccessThreshold = 1
  MaxTickets = 2
  MaxFaults = 2
  MaxAdminOps = 0
SYMMETRY Symmetry
INVARIANT ProbeIsHeld
CHECK_DEADLOCK FALSE
