CONSTANTS
  Window = 6
  Watermark = 2
  MaxStream = 8
  Span = 64
  WndSpan = 10
  Isn = 60
  SegPool = 3

SPECIFICATION FairSpec

INVARIANTS
  OoseqSound
  AckExact

PROPERTIES
  OnlyQueuedOverruns
  ImplementsStream
  AllDelivered

CHECK_DEADLOCK FALSE
