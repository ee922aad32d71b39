SPECIFICATION BlockSpec
CONSTANTS
  QueueSize = 4
  IdxModulus = 8
  Sectors = {1, 2}
  v1 = v1
  v2 = v2
  Values <- MCValues
  NoReply = NoReply
INVARIANTS
  LiveIsConfigured
  TakenIsCurrent
  NothingInFlight
PROPERTIES
  ImplementsSectorStore
  RequestReturns
