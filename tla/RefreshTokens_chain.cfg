SPECIFICATION FairSpec
CONSTANTS
  a1 = a1 a2 = a2 a3 = a3 b1 = b1
  fa = fa fb = fb ana = ana bruno = bruno
  Nobody = Nobody
  Family = {fa}
  user_id <- OneUserId
  Token <- OneSession
  family_id <- OneFamilyId
  User = {ana, bruno}
  Request = {r1, r2}
INVARIANTS TypeOK OneTip
PROPERTIES ImplementsFamilies ReachedTipEnds EveryRequestEnds
