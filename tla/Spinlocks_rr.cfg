CONSTANTS
  c0 = c0
  c1 = c1
  p1 = p1
  p2 = p2
  CPUs = {c0, c1}
  CPU0 = c0
  Procs = {p1, p2}
  STCF = FALSE
  Free = Free
SPECIFICATION Spec
SYMMETRY ProcSymmetry
INVARIANTS
  NoPanic
  NoDeadlock
