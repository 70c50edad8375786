CONSTANTS
  Ids = {x, y}
  Size = 3
  MaxPbufs = 10
  NumReass = 5
  ReassMaxAge = 1
  PoolSize = 4
  MaxFrame = 2
  Pcbs = {p, q}
  Slots = {a, b}
  OoseqMaxAge = 2
  ArpMaxAge = 2

SPECIFICATION FairSpec

INVARIANTS
  BuffersExact
  WholeDatagrams
  OoseqGivesWay

PROPERTIES
  RoomAgain
