SPECIFICATION Spec
CONSTANTS
  na = na
  nb = nb
  NoName = NoName
  Names = {na, nb}
  Threads = {t1}
  Vals = {1}
  NumInodes = 4
  NumBlocks = 3
  D_BLOCK = 1
  PerBlock = 2
  Paths <- RootAndA
  Writes <- FewWrites
  MaxCrashes = 1
INVARIANTS
  Accounted
  NoDangling
PROPERTIES
  ImplementsTree
