SPECIFICATION ParseSpec
CONSTANTS
  Typed <- MCTyped
  PortValue <- MCPortValue
  NS_CONFIG_STR_LEN = 256
  MaxOptions = 4
INVARIANTS
  ConfigTypes
  StartsCapture
  OrderIrrelevant
CHECK_DEADLOCK FALSE
