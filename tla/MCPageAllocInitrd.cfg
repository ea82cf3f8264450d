CONSTANTS
  h1 = h1
  h2 = h2
  Harts = {h1, h2}
  NPages = 6
  RcMax = 3
  MaxRefs = 3
  MaxCount = 2
  PageSize = 4096
  InitrdFirst = 3
  InitrdPages = 2
SPECIFICATION Spec
INVARIANT InitrdNeverHandedOut
