SPECIFICATION Spec
CONSTANTS
  Protocol <- MCProtocol
  Endpoint <- MCEndpoint
  ByteCount <- MCByteCount
  NS_MAX_FLOWS = 3
  hash_flow <- MCHash
  NoKey = NoKey
  MaxOffered = 2
INVARIANTS
  OneSlotPerConversation
  ProbeChain
  TrackedExactly
PROPERTIES
  RefinesFlowMap
CHECK_DEADLOCK FALSE
