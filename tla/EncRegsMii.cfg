CONSTANTS
  Patience = 1
  MiiDummyByte = TRUE
  MaxRestarts = 0

SPECIFICATION RegsFairSpec

PROPERTIES
  WaitsForPhy
