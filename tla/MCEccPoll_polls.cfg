SPECIFICATION Spec
CONSTANTS
  MaxErrors = 3
INVARIANTS
  NothingInvented
  RightLocation
  NoLeftOver
PROPERTIES
  OnlySeenCleared
  Recovers
