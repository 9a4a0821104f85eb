SPECIFICATION ScheduleSpec
CONSTANTS
  r1 = r1
  r2 = r2
  w1 = w1
  w2 = w2
  w3 = w3
  Readers <- MCReaders
  Writers <- MCWriters
  ReadRounds = 2
  WriteRounds = 1
INVARIANTS
  Exclusion
  NoLostWakeup
  UnusedAtDestroy
PROPERTIES
  ImplementsBoard
  Returns
