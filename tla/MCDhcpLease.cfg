SPECIFICATION LeaseFairSpec
CONSTANTS
  MillisRange = 26
  Second = 2
  SecRange = 16
  Options <- MCOptions
  DEFAULT_LEASE = 5
  Garbage <- MCGarbage
  MaxPoll = 4
  MaxCall = 1
  AgeCap = 24
  SkipCap = 3
INVARIANTS
  RenewedInTime
PROPERTIES
  NotRenewedEarly
  TriesAgain
