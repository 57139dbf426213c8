SPECIFICATION FairSpec
CONSTANTS
  Row = {1, 2, 3}
  Instance = {i1, i2}
  Unroutable = {1}
  BatchSize = 2
  MaxFailures = 2
INVARIANTS TypeOK NothingLost RepeatsAreFailures NoInsertMissed
PROPERTIES Delivered
