CONSTANTS
  HeapSize = 168
  Room = 168
  Sizes = {8, 16}
  SizeMod = 65536
SPECIFICATION Spec
INVARIANTS BlocksApart
CHECK_DEADLOCK FALSE
