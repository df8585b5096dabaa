SPECIFICATION FairSpec
CONSTANTS
  MAX_SOCK_NUM = 3
  MaxUnread = 1
  MaxReports = 2
  MaxResets = 1
  AddressValid <- Any
INVARIANTS
  OneListener
  UdpSocketKept
PROPERTIES
  OnlyServersServed
  UnreadKept
  ListensAgain
