SPECIFICATION Spec
CONSTANTS
  p1 = p1
  p2 = p2
  p3 = p3
  k1 = k1
  k2 = k2
  Procs = {p1, p2, p3}
  initproc = p1
  NFILE = 3
  NOFILE = 3
  Pages = {k1, k2}
  PIPESIZE = 2
  WRAP = 4
  Sizes = {1, 3}
  MaxCalls = 6
  None = None
SYMMETRY MCSymmetry
CHECK_DEADLOCK FALSE
INVARIANTS
  RefsCounted
  EndsCounted
  RingIntact
  NoLostWakeup
