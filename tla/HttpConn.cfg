CONSTANTS
  Clients = {c1, c2, c3}
  NoClient = none
  MaxPcbs = 2
  SegPool = 2
  Wnd = 3
  MaxRtx = 1

SPECIFICATION FairSpec

INVARIANTS
  InputPcbLive
  PoolsExact

PROPERTIES
  EstablishedKept
  EndedReleased
