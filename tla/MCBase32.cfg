SPECIFICATION Spec
CONSTANTS
  Alphabets <- MCAlphabets
  Paddings <- MCPaddings
  Octets = {0, 181}
  MaxOctets = 6
  Strangers <- MCStrangers
INVARIANTS
  StreamIsBits
  AcceptedIsCanonical
