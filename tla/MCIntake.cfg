SPECIFICATION IntakeFairSpec
CONSTANTS
  STX = STX
  ETX = ETX
  NUL = NUL
  a = a
  b = b
  Text <- MCText
  UDP_TX_PACKET_MAX_SIZE = 5
  Datagrams <- MCDatagrams
  Segments <- MCSegments
  Behind <- MCBehind
  RxSize = 7
  StreamSize = 5
INVARIANTS Understood OfOnePacket
PROPERTIES ImplementsMailbox
