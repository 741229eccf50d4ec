CONSTANTS
  Threads = {t1, t2}
  None = None
SYMMETRY Symmetry
SPECIFICATION Spec
INVARIANTS TypeOK OneModelServes NoneForAReason
