\* Four lines, read into a buffer of five tokens in pieces of every size,
\* under every fault: lines are lost, cut and joined.
SPECIFICATION HSpec
CONSTANTS
  Tokens <- MCTokens
  NL = NL
  Text <- MCText
  Lines <- SpliceLines
  Profiles <- MCProfiles
  V1 = "t16000m_v1"
  None = None
  Entries <- MCEntries
  Chunk = 5
  RxCap = 5
  TxSlots = 2
  MaxUart = 9
  Faults = {"open", "load", "store", "write", "power"}
  MaxLines = 4
  Window = 0
INVARIANTS TypeOK ResponseFits AcknowledgedIsDurable OnlySentWritesRun
CHECK_DEADLOCK FALSE
