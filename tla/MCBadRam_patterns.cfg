SPECIFICATION FairSpec
CONSTANTS
  Width = 6
  Pow2 <- MCPow2
  MaxPatns = 3
  Faulty <- SomeLongwords
INVARIANTS
  CapturedUnlessSlipped
PROPERTIES
  NothingUncovered
  RelocationEnds
