CONSTANTS
  TableSize = 2
  Ips = {a, b, c}
  Macs = {m, n}
  Buffers = {1, 2}
  None = none
  MaxAge = 3
  MaxPending = 2
  Rerequest = 2

SPECIFICATION Spec

INVARIANTS
  TableSound
  RightAddress

PROPERTIES
  WaitingKept
