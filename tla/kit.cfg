CONSTANTS
  Pins = {1, 2}
  Levels = 2
  Priorities = {1, 4}
  Thresholds = {2}
  MaxRaises = 2
  MaxCalls = 3
  Depth = 2
  MaxChars = 4
  NodesHeapSize = 288
  NodesSizes = {16}
  SizesHeapSize = 168
  SizesSizes = {8, 16, 40}
  SizeMod = 65536
SPECIFICATION MCSpec
INVARIANTS ClaimPending ServedOnceAtATime AtMostOnce QuietWhenDisabled WritesLand ReadsAreTrue ShownOnce LiveDisjoint RefusedWhenFull
PROPERTIES Served Drained
CHECK_DEADLOCK FALSE
