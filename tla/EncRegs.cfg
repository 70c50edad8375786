CONSTANTS
  Patience = 1
  MiiDummyByte = FALSE
  MaxRestarts = 2

SPECIFICATION RegsFairSpec

INVARIANTS
  RightBank
  Configured

PROPERTIES
  FrozenWhileReceiving
  BitsKeptApart
  WaitsForPhy
  CallsReturn
