SPECIFICATION FairSpec
CONSTANTS
  p1 = p1
  p2 = p2
  p3 = p3
  b1 = b1
  b2 = b2
  boot = boot
  old = old
  new = new
  none = none
  Procs <- MCProcs
  Boot = boot
  Blocks <- MCBlocks
  Vals <- MCVals
  Zero = old
  NotCached = none
  NoBlock = none
  MAXOPBLOCKS = 1
  LOGSIZE = 3
  nlog = 3
  OpBlocks = 1
INVARIANTS
  Saved
  NoPanic
  NoLostWakeup
PROPERTIES
  ImplementsDisk
  Woken
