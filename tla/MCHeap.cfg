SPECIFICATION Spec
CONSTANTS
  HeapStart = 1000
  HeapEnd = 1120
  Hdr = 12
  MinSplit = 16
  Wrap = 65536
  Requests <- MCRequests
  MaxLive = 3
INVARIANTS
  Tiled
  UsedIsHeld
PROPERTIES
  ImplementsAllocator
