SPECIFICATION Spec
CONSTANTS
  Radix = 16
  Messages <- MCMessages
  Lengths <- MCLengths
  Dot = 10
  Digits = {4}
  Minus = 6
  Backslash = 7
INVARIANTS
  SliceTypeOK
  CursorsInSlice
PROPERTIES
  NameFillsItsOctets
  NameWithinLimit
  NamesEnd
