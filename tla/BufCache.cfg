SPECIFICATION Spec
CONSTANTS
  p1 = p1
  p2 = p2
  k1 = k1
  k2 = k2
  k3 = k3
  k4 = k4
  Procs = {p1, p2}
  Nobody = Nobody
  Blocks = {k1, k2, k3, k4}
  NoBlock = NoBlock
  Vals = {0, 1}
  NBUF = 3
  LOGSIZE = 1
SYMMETRY MCSymmetry
INVARIANTS
  Shared
  Awaited
PROPERTIES
  ImplementsStore
