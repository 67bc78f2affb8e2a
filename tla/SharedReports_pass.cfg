SPECIFICATION Spec
CONSTANTS
  Runs = {a, b}
  Costs = {0, 1}
  Allowance = 0
SYMMETRY Symmetry
INVARIANTS
  TypeOK
  PromoterPassed
  AloneRunsOwnTheirEvidence
  AlonePromotedWasJudged
CHECK_DEADLOCK FALSE
