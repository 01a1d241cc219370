SPECIFICATION CompressorSpec
CONSTANTS
  Radix = 16
  MaxMessageSize = 74
  Sizes <- MCSizes
  Chunks <- MCChunks
  Numbers = {}
  Labels = {}
  Positions = {}
  Names <- MCNames
  Dot = 10
  MaxCalls = 5
INVARIANTS
  PositionFollowsOffset
  PointersLeadBack
  
  NoRepetition
PROPERTIES
  WireOnlyGrows
  CallsEnd
CHECK_DEADLOCK FALSE
