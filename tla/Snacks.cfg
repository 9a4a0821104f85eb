SPECIFICATION SnacksSpec
CONSTANTS
  c1 = c1
  c2 = c2
  a1 = a1
  a2 = a2
  a3 = a3
  Cooks <- MCCooks
  Attendees <- MCAttendees3
  BUF_C = 2
  SNACKS_PER_ATTENDEE = 1
  MaxTrays = 4
INVARIANTS
  SlotAccounting
  OneOwner
PROPERTIES
  ImplementsFIFO
  Ends
