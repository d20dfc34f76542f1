SPECIFICATION BufferSpec
CONSTANTS
  LUAL_BUFFERSIZE = 3
  Bytes <- MCBytes
  Delim = "n"
  Strings <- MCStrings
  Counts <- MCCounts
  MaxBytes = 7
INVARIANTS
  ChunksInBounds
PROPERTIES
  ImplementsByteQueue
