SPECIFICATION Spec
CONSTANTS
  MillisRange = 16
  Delay = 4
  MaxGap = 3
  AgeCap = 12
  Commanded = {"up"}
INVARIANTS
  UpAlwaysBounded
