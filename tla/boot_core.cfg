SPECIFICATION BootSpec
CONSTANTS
  MAX_TASK_NUM = 255
  PROCESS_MEMORY_PAGES_NUM = 255
  PAGE_DIR_SIZE = 1024
  SEG_DIRS = 16
  PAGE_TABLE_SIZE = 1024
  COPY_PAGES = 160
  PAGING_PAGES = 4
  KERNEL_PAGES = 405
  FirstProcess = 120
  DirtyFrames = {0, 3}
  LeftWords = {NULL, 3}
  NULL = NULL
  NoMirror = NoMirror
  Kernel = Kernel
  Junk = Junk
INVARIANTS
  BootTypeOK
  NothingIsUsedBeforeItExists
  KernelMapsOntoItself
  FirstTaskIsLoaded
  BootLeavesOSInit
CHECK_DEADLOCK FALSE
