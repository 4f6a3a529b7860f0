SPECIFICATION StatsSpec
CONSTANTS
  Protocol <- MCProtocol
  Endpoint <- MCEndpoint
  ByteCount <- MCByteCount
  hash_flow <- MCHash
  Packets <- MCPackets
  NS_MAX_FLOWS = 4
  MaxOffered = 5
  MaxPackets = 5
  Shown = 2
  UINT64_MODULUS = 65536
  NoKey = NoKey
  NoReport = NoReport
INVARIANTS
  EveryPacketClassified
  OtherIsWhatIsLeft
  FlowsAccountForTraffic
  TopIsTop
CHECK_DEADLOCK FALSE
