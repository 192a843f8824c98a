SPECIFICATION LiveSpec
CONSTANTS
  MAX_TASK_NUM = 5
  PROCESS_MEMORY_PAGES_NUM = 4
  NULL = NULL
  NoMirror = NoMirror
  MirrorMayFail = FALSE
  FIRST_PRIORITY = 1
  FORK_PRIORITY = 2
  PriorityBound = 3
INVARIANTS
  TypeOK
  TaskTableConsistent
  CpuFollowsCurrent
  ResumeSafe
  NoLostSleeper
  WakesAreExact
  PicksIsTheLoop
  ForkYields
PROPERTIES
  ImplementsSleepQueue
  PromptReturns
  ReleaseIsComplete
  ReleaseAdvances
