SPECIFICATION FairSpec
CONSTANTS
  Request = {r1, r2, r3}
  MaxAttempts = 2
  MaxMarks = 4
  MaxCrashes = 1
INVARIANTS TypeOK BudgetHolds QuotaHolds
PROPERTIES LockEnds
CHECK_DEADLOCK FALSE
