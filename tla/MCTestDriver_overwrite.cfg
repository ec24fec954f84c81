SPECIFICATION Spec
CONSTANTS
  Low = 1
  Load = 2
  CodePages = 1
  CodeTail = 1
  HighSmall = 6
  HighBig = 8
  BigMem = 10
  WinPages = 12
  NWindows = 4
  Pae = TRUE
  PMaps <- MCLargeMaps
  Word = 64
  PageInputs = {}
  TestInputs = {}
  FadeTest = 2
  MaxSweeps = 1
  MinTest <- MCMinTest
  MaxPass = 1
INVARIANTS
  NeverOverwritten
