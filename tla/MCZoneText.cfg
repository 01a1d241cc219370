SPECIFICATION Spec
CONSTANTS
  Radix = 256
  Dot = 46
  Minus = 45
  Backslash = 92
  Digits = {48, 49, 50, 51, 52, 53, 54, 55, 56, 57}
  Zones <- MCZones
  ClassNames <- MCClassNames
  TypeNames <- MCTypeNames
  MaxTTL = 99999
INVARIANTS
  ZoneReadsBack
  QuotesClose
PROPERTIES
  ScanEnds
CHECK_DEADLOCK FALSE
