CONSTANTS
  RingSize = 9
  Radix = 4
  HdrSize = 1
  FcsSize = 1
  MaxLen = 2
  FrameLens = {2, 4}
  ResetRdpt = 6
  GarbageHeaders <- MCGarbage
  MaxFrames = 6

SPECIFICATION Spec

INVARIANTS
  UnreadIntact

CHECK_DEADLOCK FALSE
