SPECIFICATION FairSpec
CONSTANTS
  w1 = w1
  w2 = w2
  a1 = a1
  a2 = a2
  ByteBits = 3
  ChunkBytes = 1
  Chunks = 1
  Workers <- MCWorkers
  Objects <- MCObjects
  Disks <- MCDisks
  Disk <- MCDisk
INVARIANTS
  UniqueIds
PROPERTIES
  StableIds
  RequestEnds
