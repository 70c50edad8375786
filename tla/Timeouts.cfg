CONSTANTS
  Cyclic <- MCCyclic
  Tcp = "tcp"
  Interval <- MCInterval
  PoolSize = 3
  MaxPcbs = 2
  Span = 16
  MaxLag = 2

SPECIFICATION FairSpec

INVARIANTS
  TimersScheduled
  Sorted

PROPERTIES
  ImplementsQueue
  TimersRun
