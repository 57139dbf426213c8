SPECIFICATION FairSpec
CONSTANTS
  Row = {1, 2, 3}
  Instance = {i1}
  Unroutable = {1, 2}
  BatchSize = 2
  MaxFailures = 0
PROPERTIES Delivered
