SPECIFICATION Spec
CONSTANTS
  t1 = t1
  d1 = d1
  d2 = d2
  Tct = {t1}
  Dlg = {d1, d2}
  Parent <- Chain
  Issuer = {i1, i2}
  None = None
  Legacy = {t1}
  Worker = {r1, r2}
SYMMETRY Symmetry
INVARIANTS
  EntriesAreProjected
PROPERTIES
  RevocationIsPermanent
  EntryIssuerIsNeverChanged
CHECK_DEADLOCK FALSE
