SPECIFICATION SCSpec
CONSTANTS
  MAX_TASK_NUM = 3
  Value = {0, 23}
  Garbage = {5}
  Number = {256}
  NULL = NULL
INVARIANT
  SCTypeOK
PROPERTIES
  ForkAnswers
  StackIsBalanced
  WakesAsItSlept
CHECK_DEADLOCK FALSE
