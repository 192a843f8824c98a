SPECIFICATION DescSpec
CONSTANTS
  MAX_TASK_NUM = 5
  GDT_TABLE_MAX_SIZE = 10
  Address <- MCAddress
  LdtAddress <- MCLdtAddress
  Vector = {3, 14, 32, 116}
  TrapFunction <- MCTrapFunction
  NULL = NULL
INVARIANT
  TrapsReachHandlers
