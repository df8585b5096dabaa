SPECIFICATION FairSpec
CONSTANTS
  MillisRange = 13
  Second = 3
  CDSPeriod = 2
  MaxGap = 2
  MaxBlock = 1
  SessCap = 12
  CDSCap = 5
PROPERTIES
  FullWait
  Spread
  Reported
  CDSPaced
  CDSGoesOn
