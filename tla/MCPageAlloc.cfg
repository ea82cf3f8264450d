CONSTANTS
  h1 = h1
  h2 = h2
  Harts = {h1, h2}
  NPages = 5
  RcMax = 3
  MaxRefs = 3
  MaxCount = 2
  PageSize = 4096
  InitrdFirst = 3
  InitrdPages = 1
SPECIFICATION FairSpec
INVARIANTS
  MutualExclusion
  CheckedStillTrue
  RcExact
  FreshPagesExclusive
  FreshPagesZeroed
PROPERTIES PoolSpec LockReleased
