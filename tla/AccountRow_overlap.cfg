SPECIFICATION Spec
CONSTANTS
  Request = {r1, r2}
  Reason = {spam, abuse}
  Language = {es, all}
  NoReason = NoReason
  AllLanguages = all
SYMMETRY Symmetry
INVARIANTS TypeOK NothingSilent ReasonExplains
PROPERTIES DecisionsStand
