\* The example descriptor of README.md is refused.
SPECIFICATION ReadmeSpec
CONSTANTS
  BufferLen = 64
  MaxFields = 32
  Word = 65536
  Items <- ReadmeItems
  None = None
INVARIANTS ReadmeExampleParses
CHECK_DEADLOCK FALSE
