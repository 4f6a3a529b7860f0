SPECIFICATION Spec
CONSTANTS
  Byte <- MCByte
  Length <- MCLength
  OutLen <- MCOutLen
  NS_DNS_MAX_JUMPS = 2
INVARIANTS
  NameReadsInBounds
  TextInBuffer
  WorkBounded
  EndOffsetAsWritten
CHECK_DEADLOCK FALSE
