\* Four commands of a peer that sends up to a full RX buffer ahead.
SPECIFICATION WindowSpec
CONSTANTS
  Tokens <- MCTokens
  NL = NL
  Text <- MCText
  Lines <- WindowLines
  Profiles <- MCProfiles
  V1 = "t16000m_v1"
  None = None
  Entries <- TwoBoards
  Chunk = 4
  RxCap = 8
  TxSlots = 2
  MaxUart = 8
  Faults = {"store"}
  MaxLines = 4
  Window = 8
PROPERTIES EveryCommandAnswered
CHECK_DEADLOCK FALSE
