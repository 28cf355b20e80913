CONSTANTS
  Pins = {1}
  Levels = 2
  Priorities = {2, 4}
  Thresholds = {}
  MaxRaises = 1
  MaxCalls = 2
SPECIFICATION FairSpec
PROPERTY AllLevelsServed
