\* Short buffers with every order of the attributes of an input item, and
\* long ones with more items than three slots and 4-bit offsets can hold.
SPECIFICATION ShortOrLongSpec
CONSTANTS
  BufferLen = 14
  MaxFields = 3
  Word = 16
  Items <- HistoryItems
  None = None
INVARIANTS FieldsFollowItems RefusedIffIncomplete
CHECK_DEADLOCK FALSE
