SPECIFICATION ShellSpec
CONSTANTS
  nseg = 3
  Capacity = 1
  Items = 2
  Garbage <- MCGarbage
  Failing = {"pipe", "fork"}
  MaxFails = 2
  Commands <- MCCommands
  Slips <- MCSlips
  Names <- MCNames
  Hash <- MCHash
  InitCap = 1
  Direct <- MCDirect
  Executables <- MCExecutables
  Copying <- MCCopying
  Dirs <- MCDirs
  MaxLines = 3
  PipeBy = 2
CHECK_DEADLOCK FALSE
INVARIANTS
  TwoHolders
  Outcome
  ParsedAsWanted
  Remembered
PROPERTIES
  Returns
