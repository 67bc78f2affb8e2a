SPECIFICATION Spec
CONSTANTS
  Runs = {a, b}
  Costs = {0, 1}
  Allowance = 0
SYMMETRY Symmetry
INVARIANT PromotedIsOwn
CHECK_DEADLOCK FALSE
