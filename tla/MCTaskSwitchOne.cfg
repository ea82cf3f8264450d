CONSTANTS
  h1 = h1
  h2 = h2
  Harts = {h1}
  NTasks = 3
  MaxPid = 4
  TaskCauses = {"external", "ecall", "breakpoint"}
  IdleCauses = {}
  Ticks = 2
  NextBound = 8
SPECIFICATION FairSpec
INVARIANTS
  TypeOK
  ContextIntegrity
PROPERTY RotationSpec
