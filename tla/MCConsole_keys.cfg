SPECIFICATION Spec
CONSTANTS
  Rows = 3
  Sessions <- MCSessions
  CommandLines <- MCCommandLines
  Word = 1073741824
  NumLen = 3
  MaxLines = 4
  MaxQueue = 2
INVARIANTS
  PopupRestores
  TerminalAsBuffered
  EnteredAsTyped
  AllOrNothing
PROPERTIES
  Answered
CHECK_DEADLOCK FALSE
