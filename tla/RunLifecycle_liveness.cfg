SPECIFICATION FairSpec
CONSTANTS
  NStages = 2
  Readers = {r1}
  HeartbeatInterval = 1
  StaleAfter = 1
  Ceiling = 2
  SaveMayFail = TRUE
  LookMayFail = FALSE
PROPERTIES
  DeadRunSettles
  OutcomeDecidedOnce
CHECK_DEADLOCK FALSE
