SPECIFICATION Spec
CONSTANTS
  ByteBits = 1
  ChunkBytes = 2
  Chunks = 3
  Clients = {c1, c2, c3, c4, c5, c6}
SYMMETRY Symmetry
INVARIANTS
  IdsUnique
  PoolIsHeldIds
PROPERTY
  RefusedOnlyWhenFull
