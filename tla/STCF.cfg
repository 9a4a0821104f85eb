SPECIFICATION MCSpec
CONSTANTS
  c0 = c0
  c1 = c1
  NPROC = 3
  CPUs <- MCCPUs
  STCF_INIT_REMAIN = 5
  Times <- MCTimes
  Naps <- MCNaps
  MaxTicks = 2
  MaxPid = 3
  MaxCalls = 2
VIEW MCView
SYMMETRY MCSymmetry
INVARIANTS
  OnOneCPU
  Adopted
  WaitMissesNone
  Charged
  NapLength
