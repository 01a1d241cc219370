SPECIFICATION Spec
CONSTANTS
  Radix = 16
  Labels <- MCLabels
  Texts <- MCTexts
  MaxNames = 2
  MaxLabels = 3
  Dot = 10
  Minus = 6
  Backslash = 7
  Digits = {4}
INVARIANTS
  RelationsAgree
  NamesStay
  
PROPERTIES
  IterationEnds
