SPECIFICATION FilterSpec
CONSTANTS
  Argument <- MCArgument
  Port <- MCPort
  SmallBuffer <- MCSmallBuffer
  NS_CONFIG_STR_LEN = 256
INVARIANTS
  FilterInBuffer
  MainNeverTooLong
  ExpressionAsAsked
CHECK_DEADLOCK FALSE
