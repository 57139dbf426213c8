SPECIFICATION Spec
CONSTANTS
  Grant = {g1, g2}
  Request = {r1, r2}
  Password = {p1, p2}
SYMMETRY Symmetry
INVARIANTS SignOutEnds UsableIsCurrent
