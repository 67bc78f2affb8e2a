SPECIFICATION Spec
CONSTANTS
  NStages = 2
  Readers = {r1, r2}
  HeartbeatInterval = 1
  StaleAfter = 1
  Ceiling = 2
  SaveMayFail = TRUE
  LookMayFail = TRUE
SYMMETRY Symmetry
INVARIANTS
  TypeOK
  TerminalIsClosed
  PassedIsEarned
  QueuedCancelStops
  LivePidBuysTime
PROPERTIES
  NoStageAfterCancel
  SettledAfterDeath
CHECK_DEADLOCK FALSE
