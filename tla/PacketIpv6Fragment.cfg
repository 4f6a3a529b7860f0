SPECIFICATION Spec
CONSTANTS
  Length <- MCLength
  NS_IPV6_MAX_EXTENSION_HEADERS = 2
INVARIANT LaterFragmentOpaque
CHECK_DEADLOCK FALSE
