CONSTANTS
  Lengths <- MCLengths
  MaxLen = 2
  MaxMessages = 3
  PrefixLen = 2
  ChunkLen = 5
SPECIFICATION Spec
CHECK_DEADLOCK FALSE
INVARIANT BytesInOrder
PROPERTY ImplementsMessages
