SPECIFICATION FairSpec
CONSTANTS
  Servers = {s1, s2}
  None = None
  InitialIds = {1}
  Timeout = 1
  ResponseTimeout = 0
  MaxGap = 1
  MaxBurst = 2
  MaxCalls = 2
  MaxInbox = 1
CHECK_DEADLOCK FALSE
INVARIANTS
  ChipGranted
PROPERTIES
  LeaseFromItsServer
  LeaseIsMine
  ImplementsCall
