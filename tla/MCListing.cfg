SPECIFICATION FairListing
CONSTANTS
  Names <- MCNames
  Rank <- MCRank
  Seed <- MCSeed
  Sessions = {s1}
  CompanyNames = {"grid", "acme"}
  GroupNames = {"dev", "ops"}
  UserNames = {"ann", "bob"}
  Passwords = {"p"}
  Quotas = {0}
  Grants = {20}
  MaxId = 3
  MaxWrites = 3
INVARIANT
  ListingComplete
PROPERTIES
  NoRowTwice
  ListingEnds
