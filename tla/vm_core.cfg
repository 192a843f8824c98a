SPECIFICATION VMSpec
CONSTANTS
  MAX_TASK_NUM = 3
  PAGE_DIR_SIZE = 3
  SEG_DIRS = 1
  PAGE_TABLE_SIZE = 2
  KERNEL_PAGES = 1
  COPY_PAGES = 1
  PAGING_PAGES = 10
  NULL = NULL
  Kernel = Kernel
  Junk = Junk
  FlatMemory = TRUE
  Deaths = FALSE
  Value = {v0, v1}
  Zero = v0
PROPERTY
  ImplementsAddressSpace ManagerKeepsContents
CHECK_DEADLOCK FALSE
