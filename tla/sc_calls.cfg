SPECIFICATION SCSpec
CONSTANTS
  MAX_TASK_NUM = 3
  Value = {0, 23}
  Garbage = {5}
  Number <- MCNumber
  NULL = NULL
PROPERTY
  CallsAreTransparent
CHECK_DEADLOCK FALSE
