SPECIFICATION MMSpec
CONSTANTS
  MAX_TASK_NUM = 4
  PAGE_DIR_SIZE = 4
  SEG_DIRS = 1
  PAGE_TABLE_SIZE = 2
  KERNEL_PAGES = 1
  COPY_PAGES = 1
  PAGING_PAGES = 6
  NULL = NULL
  Kernel = Kernel
  Junk = Junk
  FlatMemory = TRUE
  Deaths = TRUE
INVARIANTS
  MMTypeOK
  CountsMatch
  SharedIsReadOnly
  TablesAreClean
  NoEarlyReuse
  OnlyUnusedAreLost
  TablesArePrivate
  KernelStaysMapped
PROPERTIES
  OneTaskAtATime
  KernelStaysReadOnly
CHECK_DEADLOCK FALSE
