SPECIFICATION FairSearch
CONSTANTS
  Account = {1, 2, 3, 4}
  Top = 9
  PageSize = 1
  SearchBatchSize = 2
INVARIANTS EachOnce
PROPERTIES RequestEnds
