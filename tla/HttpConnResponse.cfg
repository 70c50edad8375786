CONSTANTS
  Clients = {c1, c2, c3}
  NoClient = none
  MaxPcbs = 2
  SegPool = 2
  Wnd = 3
  MaxRtx = 1

SPECIFICATION Spec

PROPERTY ResponseSent
