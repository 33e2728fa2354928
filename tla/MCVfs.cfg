SPECIFICATION Spec
CONSTANTS
  ByteBits = 1
  ChunkBytes = 2
  Chunks = 1
  Sessions = {s1, s2}
  Files = {1, 2, 3}
  PropertyLength <- Properties
  NameLength <- NameLengths
  PREAMBLE_LEN = 1
  MAX_NAME_LENGTH = 1
  PAGE_SIZE = 2
  HEADER_LEN = 2
  LENGTH_LEN = 1
  STATUS_LEN = 2
  DESCRIPTOR_LEN = 2
  MAX_MESSAGE = 5
  MAX_OBJECTS = 2
  MAX_WRITE = 2
  MAX_DATA = 2
  Lengths = {0, 1, 3}
  MaxPos = 3
SYMMETRY Symmetry
INVARIANTS
  TypeOK
  IdsMatchTable
  StaysOpenable
  WalkIsFaithful
  RepliesFit
