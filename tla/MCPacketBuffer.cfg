SPECIFICATION BufferSpec
CONSTANTS
  Radix = 8
  MaxMessageSize = 7
  Sizes <- MCSizes
  Chunks <- MCChunks
  Numbers <- MCNumbers
  Labels <- MCLabels
  Positions <- MCPositions
INVARIANTS
  BufferTypeOK
  OffsetInBuffer
  ZeroTail
PROPERTIES
  GrowsExponentially
  ImplementsLog
