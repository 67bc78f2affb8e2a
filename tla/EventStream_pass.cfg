SPECIFICATION Spec
CONSTANTS
  Capacity = 2
  MaxEvents = 5
INVARIANTS
  TypeOK
  ReadIsComplete
  RecentIsKept
  PageIsCoherent
PROPERTY EndIsShown
