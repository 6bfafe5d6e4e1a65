\* Every kind of item: inputs of up to 9 bytes fit (9 < 2 * 2 + 6), those of 10
\* can fill both slots and offer a third field.
SPECIFICATION Spec
CONSTANTS
  BufferLen = 10
  MaxFields = 2
  Word = 65536
  Items <- EveryItem
  None = None
INVARIANTS TypeOK CapacityNeverReached FieldsDisjoint
PROPERTIES Terminates
CHECK_DEADLOCK FALSE
