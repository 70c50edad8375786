CONSTANTS
  End = 16
  Hdr = 1
  MinSize = 2
  Sizes = {1, 2, 3, 4, 6}

SPECIFICATION Spec

INVARIANTS
  HeapSound
  SearchComplete
