CONSTANTS
  MaxPid = 2
  PageSize = 4
  PtrSize = 2
  NVirt = 16
  NPages = 14
  KernelPages = {8}
  StackSize = 3
  Elfs <- MCElfs
  ArgLists <- MCArgLists
SPECIFICATION Spec
INVARIANTS
  FileWordsLoaded
  ArgvReadable
  TasksPrivate
  KernelUntouched
  StackPrivate
  ScheduledAreReady
CHECK_DEADLOCK FALSE
