SPECIFICATION Spec
CONSTANTS
  Bytes = {0, 1}
  BufSizes = {1, 3}
  Blocks <- AllBlocks
  ReadSizes = {0, 1, 2, 3}
  Producers = {p}
  Consumers = {c}
  Resetters = {r}
  MaxCount = 5
INVARIANTS PositionsAgree NullCopyOnlyAfterUnInit AnswersStayGood
PROPERTY IsBoundedFifo
CHECK_DEADLOCK FALSE
