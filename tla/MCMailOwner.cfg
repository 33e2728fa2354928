SPECIFICATION Spec
CONSTANTS
  Names <- MCNames
  Rank <- MCRank
  Seed <- MCSeed
  s1 = s1
  s2 = s2
  Sessions <- MCSessions
  UserNames = {"ann", "bob", "cal"}
  Channels = {"select"}
  Connections <- MCConnections
  MAX_REQUEST = 2
  MaxId = 2
INVARIANT
  OwnMailboxOnly
