SPECIFICATION Spec
CONSTANTS
  w1 = w1
  Proc = {p1, p2}
  Webhook = {w1}
  Delivery = {d1}
  Target <- OneTarget
  Attempt = {a1, a2}
  MaxAttempts = 2
  FlushBatchLimit = 500
  FailureThreshold = 2
  SuccessThreshold = 1
  MaxTickets = 3
  MaxFaults = 3
  MaxAdminOps = 1
SYMMETRY Symmetry
INVARIANTS
  TicketsAreUnique
  DeliveredWasAcked
  BreakersConsistent
  AuditedOncePerActivation
CHECK_DEADLOCK FALSE
