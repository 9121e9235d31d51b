SPECIFICATION Spec
CONSTANTS
  t1 = t1
  d1 = d1
  d2 = d2
  Tct = {t1}
  Dlg = {d1, d2}
  Parent <- Chain
  Issuer = {i1}
  None = None
  Legacy = {}
  Worker = {r1}
INVARIANT NoHalfAppliedRevocation
CHECK_DEADLOCK FALSE
