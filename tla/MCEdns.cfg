SPECIFICATION Spec
CONSTANTS
  Options <- MCOptions
  Received <- MCReceived
  Malformed = {200, 255}
  Replacement <- MCReplacement
  Room = 33
  MaxOptions = 3
INVARIANTS
  OptionsReadBack
  TornKeepsWhole
CHECK_DEADLOCK FALSE
