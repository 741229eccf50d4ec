CONSTANTS
  u1 = u1
  u2 = u2
  u3 = u3
  u4 = u4
  e1 = e1
  e2 = e2
  Uploads = {u1, u2, u3, u4}
  Emails = {e1, e2}
  None = None
SPECIFICATION Spec
INVARIANTS TypeOK SuccessIsStored VectorsExplained
PROPERTY IdentityKept
SYMMETRY Symmetry
CHECK_DEADLOCK FALSE
