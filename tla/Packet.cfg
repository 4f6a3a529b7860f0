SPECIFICATION Spec
CONSTANTS
  Length <- MCLength
  NS_IPV6_MAX_EXTENSION_HEADERS = 2
INVARIANTS
  ReadsInBounds
  PayloadIsTail
  LayersWellFormed
  LaterIpv4FragmentOpaque
PROPERTIES
  Terminates
CHECK_DEADLOCK FALSE
