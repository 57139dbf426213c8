SPECIFICATION FairSpec
CONSTANTS
  m1 = m1 m2 = m2 junk = junk e1 = e1 e0 = e0
  Message = {m1, m2, junk}
  Event = {e1, e0}
  id <- Id
  Valid = {m1, m2}
  Slot = {s1, s2}
  DeliveryLimit = 1
  MaxFailures = 3
INVARIANTS TypeOK AckedIsLogged LoggedOnce OnlyFailuresKill
PROPERTIES Settled
CHECK_DEADLOCK FALSE
