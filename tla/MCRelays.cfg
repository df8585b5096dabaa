SPECIFICATION FairSpec
CONSTANTS
  MillisRange = 9
  Delay = 1
  MaxGap = 3
  AgeCap = 8
  Commanded = {"up", "down"}
INVARIANTS
  UpHeldBounded
PROPERTIES
  NotEarly
  UpEnds
