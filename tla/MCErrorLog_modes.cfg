SPECIFICATION Spec
CONSTANTS
  Word = 8
  PageWords = 2
  HalfPages = 2
  Bits = {0, 1}
  OffsetBits <- MCOffsetBits
  RangeSize = 2
  Structures <- MCStructures
  NumStructs = 6
  KB = 2
  DataErrors <- MCDataErrors
  AddrErrors <- MCAddrErrors
  EccErrors <- MCEccErrors
  ParityErrors <- MCParityErrors
  Modes = {"summary", "addresses", "patterns", "none", "dmi"}
  MaxReports = 3
INVARIANTS
  LowestIsLowest
