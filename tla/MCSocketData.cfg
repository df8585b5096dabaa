SPECIFICATION FairSpec
CONSTANTS
  Kinds <- MCKinds
  Half = 4
  SSIZE = 8
  StartPointer = 14
  Lengths = {4, 8}
  MaxIn = 4
  MaxOut = 12
INVARIANTS SizeWasTrue BytesInOrder TxIntact
PROPERTIES SendReturns
