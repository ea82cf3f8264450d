CONSTANTS
  h1 = h1
  h2 = h2
  Harts = {h1, h2}
  NTasks = 2
  MaxPid = 3
  TaskCauses = {"external", "ecall", "badcall", "breakpoint", "fault"}
  IdleCauses = {"external"}
  Ticks = 1
  NextBound = 4
SPECIFICATION Spec
SYMMETRY HartSymmetry
CHECK_DEADLOCK FALSE
INVARIANTS
  OwnAddressSpace
  PreemptibleUserMode
  StateMatchesHarts
  NextReset
