SPECIFICATION Spec
CONSTANTS
  a1 = a1 a2 = a2 a3 = a3 b1 = b1
  fa = fa fb = fb ana = ana bruno = bruno
  Nobody = Nobody
  Family = {fa, fb}
  user_id <- TwoUserId
  Token <- TwoSessions
  family_id <- TwoFamilyId
  User = {ana, bruno}
  Request = {r1, r2}
SYMMETRY TwoSymmetry
INVARIANTS ReuseEndsSessions
