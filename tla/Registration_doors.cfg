SPECIFICATION Spec
CONSTANTS
  ana = ana
  Ana = Ana
  bo = bo
  atana = atana
  atAna = atAna
  atbo = atbo
  Attempt = {a1, a2, a3}
  Followed = {a1}
  Email <- MCEmail
  Handle <- MCHandle
  Lower <- MCLower
  Institution <- MCInstitution
  SeedEmail = Ana
  SeedHandle = atana
INVARIANTS TypeOK UniqueKeys BornWhole ConflictNeedsOverlap
PROPERTIES WayIn
CHECK_DEADLOCK FALSE
