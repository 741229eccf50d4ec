CONSTANTS
  i1 = i1
  i2 = i2
  u1 = u1
  u2 = u2
  r1 = r1
  r2 = r2
  Invitations = {i1, i2}
  Pages = {u1, u2}
  Requests = {r1, r2}
  None = None
SPECIFICATION Spec
INVARIANTS TypeOK GuardIsExclusive HeldForAReason SentMeansMailed RepeatedMailsExplained
PROPERTIES OnlyOwnGuardReleased
SYMMETRY Symmetry
CHECK_DEADLOCK FALSE
