\* The host runtime: any caller of the App API, the replay and demo tools, a frame.
SPECIFICATION ToolsSpec
CONSTANTS
  d1 = d1
  d2 = d2
  Devices <- MCDevices
  DescBuffers <- MCDescBuffers
  Payloads <- MCPayloads
  Summaries <- MCSummaries
  Inputs <- MCInputs
  Neutral <- MCNeutral
  Wires <- MCWires
  Parse <- MCParse
  Decode <- MCDecode
  Encode <- MCEncode
  None = None
  Failed = Failed
  IngressEvents <- AllEvents
  Pushed <- MCPushed
  Queued <- HostEvents
  MaxQueue = 2
  Word <- MCWord
  Lines <- MCLines
  Calls <- MCCalls
  Called <- MCCalled
  RxCap = 128
  TxCap = 112
  MaxInputs = 4
  Scripts <- MCScripts
  DemoDevice = d1
  DemoDescriptor = "A"
  DemoPayload = "p"
  DrainLimit = 8
INVARIANTS HostTypeOK DrainAccounts ConsoleBeforeUsb EffectsReported TxHoldsTwo
  ToolFollowsScript AcceptedIffSpelled
PROPERTIES HostImplementsSingleSource UsbServed
CHECK_DEADLOCK FALSE
