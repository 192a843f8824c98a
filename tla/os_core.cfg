SPECIFICATION OSSpec
CONSTANTS
  MAX_TASK_NUM = 4
  PROCESS_MEMORY_PAGES_NUM = 4
  NULL = NULL
  NoMirror = NoMirror
  MirrorMayFail = TRUE
  FIRST_PRIORITY = 1
  FORK_PRIORITY = 2
  PriorityBound = 2
  PAGE_DIR_SIZE = 4
  SEG_DIRS = 1
  PAGE_TABLE_SIZE = 2
  KERNEL_PAGES = 2
  COPY_PAGES = 1
  PAGING_PAGES = 4
  Kernel = Kernel
  Junk = Junk
  FlatMemory = FALSE
INVARIANTS
  OSTypeOK
  EveryTaskIsMapped
