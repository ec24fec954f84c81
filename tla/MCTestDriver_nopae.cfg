SPECIFICATION Spec
CONSTANTS
  Low = 1
  Load = 2
  CodePages = 1
  CodeTail = 1
  HighSmall = 6
  HighBig = 8
  BigMem = 10
  WinPages = 12
  NWindows = 4
  Pae = FALSE
  PMaps <- MCAllMaps
  Word = 64
  PageInputs = {2, 9, 13}
  TestInputs <- MCTestInputs
  FadeTest = 2
  MaxSweeps = 2
  MinTest <- MCMinTest
  MaxPass = 0
INVARIANTS
  IInv
  EveryPageTested
