CONSTANTS
  Harts = {h1}
  Classes = {1, 2}
  Hdr = 1
  PageLen = 7
  ChunkPages = 1
  NPages = 5
  Sizes = {1, 2, 7}
  MaxLive = 4
SPECIFICATION Spec
INVARIANT InsideChunk
CHECK_DEADLOCK FALSE
