SPECIFICATION Spec
CONSTANTS
  Size = 4
  Low = 5
  High = 20
  LoadBases <- MCLoadBases
  Entries = 8
  Kind <- MCKind
  Value <- MCValue
  Defined <- MCDefined
  Offset <- MCOffset
  Addend <- MCAddend
  Pointers <- MCPointers
  Settings = {0, 1}
  MaxMoves = 4
INVARIANTS
  IInv
  WordsResolved
  AtTarget
PROPERTIES
  MoveEnds
