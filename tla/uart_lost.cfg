CONSTANTS
  Depth = 2
  MaxChars = 2
SPECIFICATION Spec
INVARIANTS AllShown
