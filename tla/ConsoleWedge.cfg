\* A peer that sends commands faster than they are served, then patiently.
SPECIFICATION Spec
CONSTANTS
  Tokens <- MCTokens
  NL = NL
  Text <- MCText
  Lines <- LongLines
  Profiles <- MCProfiles
  V1 = "t16000m_v1"
  None = None
  Entries <- NewBoard
  Chunk = 4
  RxCap = 8
  TxSlots = 2
  MaxUart = 7
  Faults = {}
PROPERTIES KeepsAnswering
CHECK_DEADLOCK FALSE
