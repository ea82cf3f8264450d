CONSTANTS
  Harts = {h1, h2}
  Classes = {1, 2}
  Hdr = 1
  PageLen = 7
  ChunkPages = 1
  NPages = 5
  Sizes = {1, 2, 7}
  MaxLive = 2
SPECIFICATION Spec
INVARIANTS UsedListExact FreeListsSound LiveDisjoint PagesBalanced
CHECK_DEADLOCK FALSE
