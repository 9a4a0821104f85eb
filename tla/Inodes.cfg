SPECIFICATION Spec
CONSTANTS
  p1 = p1
  p2 = p2
  Procs = {p1, p2}
  Nobody = Nobody
  Inums <- MCInums
  DataBlocks <- MCBlocks
  NINODE = 5
  NDIRECT = 1
  NINDIRECT = 1
  Image <- MCImage
  Start = 4
  Calls <- MCCalls
  MaxCalls = 3
  MaxCrashes = 1
SYMMETRY Symmetry
CHECK_DEADLOCK FALSE
INVARIANTS
  RefsCounted
  BlocksOwned
  NoPanic
  CrashConsistent
