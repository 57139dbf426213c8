SPECIFICATION Spec
CONSTANTS
  Temporary = {temp1, temp2}
  Chosen = {own1, own2}
  First = temp1
  NoDeadline = NoDeadline
  Link = {l1, l2}
  Request = {r1, r2}
SYMMETRY Symmetry
INVARIANTS TypeOK FlagFollowsPassword LinkWorksOnce
PROPERTIES OwnerKeepsPassword LinksDieTogether
