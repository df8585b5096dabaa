SPECIFICATION Spec
CONSTANTS
  Hosts <- Hosts2
  NoHost = "nobody"
  MillisRange = 12
  ReplyPeriod = 3
  MaxGap = 2
  SinceCap = 9
INVARIANTS
  TriesPrompt
PROPERTIES
  CopiesSpaced
  ImplementsService
