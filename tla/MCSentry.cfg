SPECIFICATION Spec
CONSTANTS
  Names <- MCNames
  Rank <- MCRank
  Seed <- MCSeed
  Sessions = {s1, s2}
  CompanyNames = {"grid", "GRID", "acme"}
  GroupNames = {"dev", "grid"}
  UserNames = {"ann"}
  Passwords = {"p"}
  Quotas = {0}
  Grants = {20, 30}
  MaxId = 2
  MaxWrites = 4
SYMMETRY Symmetry
INVARIANTS
  TypeOK
  NoOrphans
  OneRowPerCursor
  EditableIsReadable
PROPERTIES
  WritesInScope
  GrantsWithinAuthority
