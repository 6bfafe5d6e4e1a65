\* Offsets run on from one report id to the next.
SPECIFICATION LayoutSpec
CONSTANTS
  BufferLen = 13
  MaxFields = 32
  Word = 65536
  Items <- LayoutItems
  None = None
INVARIANTS BitOffsetWithinReport
CHECK_DEADLOCK FALSE
