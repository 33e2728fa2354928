SPECIFICATION Spec
CONSTANTS
  Sessions = {s1, s2}
  Accounts <- MCAccounts
  Paths <- MCPaths
  HostFiles <- MCHostFiles
  MAX_LENGTH = 8
  MaxObjects = 11
  NoAccount = NoAccount
SYMMETRY Symmetry
INVARIANTS
  TypeOK
  InsideDisk
  OwnDisksOnly
  ListedIsAddressed
PROPERTY
  ContentsKept
