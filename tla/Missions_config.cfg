SPECIFICATION Spec
CONSTANTS
  Pages = {p1, p2}
  Offered <- MCOffered
  Chosen <- MCChosen
  Advanced = {TRUE}
  Edited <- MCEdited
  Files = {"mission", "parent"}
  Named = {"mission"}
  Written <- MCWritten
  MaxBuilds = 3
  MaxEdits = 1
  MaxRuns = 1
INVARIANT RunUsesItsRecord
SYMMETRY MCSymmetry
CHECK_DEADLOCK FALSE
