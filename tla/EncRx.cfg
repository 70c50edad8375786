CONSTANTS
  RingSize = 9
  Radix = 4
  HdrSize = 1
  FcsSize = 1
  MaxLen = 2
  FrameLens = {2, 4}
  ResetRdpt = 6
  GarbageHeaders <- MCGarbage
  MaxFrames = 7

SPECIFICATION FairSpec

INVARIANTS
  TypeOK
  CountMatches
  RingInStep
  SafeUntilExposed
  EmptyRingHasRoom

PROPERTIES
  ImplementsFifo
  EveryStoredFrameIsRead

CHECK_DEADLOCK FALSE
