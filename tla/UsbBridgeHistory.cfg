\* Every history of at most four events.
SPECIFICATION HSpec
CONSTANTS
  d1 = d1
  d2 = d2
  Devices <- MCDevices
  DescBuffers <- MCDescBuffers
  Payloads <- MCPayloads
  Summaries <- MCSummaries
  Inputs <- MCInputs
  Neutral <- MCNeutral
  Wires <- MCWires
  Parse <- MCParse
  Decode <- MCDecode
  Encode <- MCEncode
  None = None
  Failed = Failed
  IngressEvents <- FewEvents
  MaxQueue = 3
  MaxEvents = 4
INVARIANTS StateFollowsHistory PeerFollowsHistory
PROPERTIES EveryEventHandled
CHECK_DEADLOCK FALSE
