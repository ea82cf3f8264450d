CONSTANTS
  Items = {a, b}
  None = None
  InitSize = 3
  MaxLen = 4
  Keys = {"a", "b", "c", "d"}
  Vals = {v, w}
  Hash <- MCHash
  Sizes <- MCSizes
  InitialSize = 2
  MaxCollision = 2
  MaxEntries = 4
  MaxCap = 8
  NoEntry = NoEntry
  Junk = Junk
SPECIFICATION ContainersSpec
INVARIANTS InBounds FifoUntilGrown BucketsBounded LookupsAgree
PROPERTY InsertEnds
CHECK_DEADLOCK FALSE
