SPECIFICATION LookupFairSpec
CONSTANTS
  Names <- MCNames
  Quads <- MCQuads
  IntRange = 65536
  IdRange = 6
  PortRange = 2
  Replies <- MCReplies
  Timeout = 1
  MaxGap = 1
  MaxQuestion = 3
  MaxAge = 3
  MaxInbox = 1
INVARIANTS GivesUpInTime
PROPERTIES ResolvesTheName LookupEnds
