SPECIFICATION Spec
CONSTANTS
  Bits = 2
  TypeLists <- MCTypeLists
  Received <- MCReceived
INVARIANTS
  TypesReadBack
  TypesAscend
CHECK_DEADLOCK FALSE
