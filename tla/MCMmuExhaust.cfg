CONSTANTS
  Fanout = 4
  KernelMap <- MCKernelMap
  FirstHeap = 3
  NHeap = 8
  UserPages = {2, 17, 21, 40}
  Perms <- MCPerms
  MaxRoots = 2
  Watched = {0, 1, 2, 5, 16, 17, 18, 20, 21, 25, 40, 63}
SPECIFICATION Spec
INVARIANT UserFramesAllocated
CHECK_DEADLOCK FALSE
