CONSTANTS
  Lens = {1, 3}
  Timeout = 2
  TickSpan = 5
  MaxSends = 3

SPECIFICATION FairSpec

INVARIANTS
  TypeOK

PROPERTIES
  StableWhileSending
  GivesUpOnTime
  ImplementsWire
  SendReturns

CHECK_DEADLOCK FALSE
