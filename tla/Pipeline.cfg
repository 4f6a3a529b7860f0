SPECIFICATION PipelineSpec
CONSTANTS
  Length <- MCLength
  NS_IPV6_MAX_EXTENSION_HEADERS = 2
  Endpoint <- MCEndpoint
  WireLength <- MCWireLength
  hash_flow <- MCHash
  NS_MAX_FLOWS = 2
  MaxOffered = 2
  MaxPackets = 2
  Shown = 1
  UINT64_MODULUS = 65536
  NoKey = NoKey
  NoReport = NoReport
PROPERTIES
  StatisticsHold
  FragmentsMakeNoFlow
CHECK_DEADLOCK FALSE
