SPECIFICATION FairSpec
CONSTANTS
  MillisRange = 16
  Word = 4
  Buzzer_DELAYTIME = 3
  MaxGap = 2
  RangCap = 6
INVARIANTS
  NeverStuckOn
  ShockKept
PROPERTIES
  FullTime
  ShockReported
