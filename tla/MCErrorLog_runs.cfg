SPECIFICATION Spec
CONSTANTS
  Word = 8
  PageWords = 2
  HalfPages = 2
  Bits = {0, 1}
  OffsetBits <- MCOffsetBits
  RangeSize = 3
  Structures <- MCStructures
  NumStructs = 6
  KB = 2
  DataErrors <- RunErrors
  AddrErrors = {}
  EccErrors <- RunEccErrors
  ParityErrors = {}
  Modes = {"none"}
  MaxReports = 6
INVARIANTS
  NothingInvented
  NothingForgotten
  NothingCountedTwice
