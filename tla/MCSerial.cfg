SPECIFICATION Spec
CONSTANTS
  Half = 8
  Increments <- MCIncrements
  Secondaries = {s1, s2}
  Lag = 7
INVARIANTS
  SerialTypeOK
  NewerIsGreater
