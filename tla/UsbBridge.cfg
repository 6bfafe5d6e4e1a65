\* The handler and its loop under every event, two devices, queue of two.
SPECIFICATION Spec
CONSTANTS
  d1 = d1
  d2 = d2
  Devices <- MCDevices
  DescBuffers <- MCDescBuffers
  Payloads <- MCPayloads
  Summaries <- MCSummaries
  Inputs <- MCInputs
  Neutral <- MCNeutral
  Wires <- MCWires
  Parse <- MCParse
  Decode <- MCDecode
  Encode <- MCEncode
  None = None
  Failed = Failed
  IngressEvents <- AllEvents
  MaxQueue = 2
INVARIANTS TypeOK NoOrphanInput
PROPERTIES ImplementsSingleSource DrainEnds
