SPECIFICATION TalkingSpec
CONSTANTS
  Retries = 2
  MaxUnread = 1
INVARIANTS
  TypeOK
  PassIsOfThisBoot
  LeftoversAreOld
PROPERTY SuiteEnds
CHECK_DEADLOCK FALSE
