SPECIFICATION Spec
CONSTANTS
  Records <- MCRecords
  Received <- MCReceived
  Texts <- MCTexts
  Dotted <- MCDotted
  Spaced <- MCSpaced
  Windows1252 <- MCWindows1252
INVARIANTS
  RdataTypeOK
  RdataReadsBack
  TextReadsBack
CHECK_DEADLOCK FALSE
