SPECIFICATION Spec
CONSTANTS
  Word = 16
  MaxSize = 14
  Ids = {1}
  Names = {1, 2}
  Types = {0, 1, 2}
  Values = {7}
  Questions <- MCQuestions
  Records <- MCRecords
  Queries <- MCQueries
  MaxUncounted = 1
  Iterated = {"answer"}
  MaxRdata = 1
  MaxEntries = 3
  None = None
INVARIANTS
  CountsMatch
  ParsedIsPacked
PROPERTIES
  AnswerStarts
  
CHECK_DEADLOCK FALSE
