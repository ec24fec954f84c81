SPECIFICATION Spec
CONSTANTS
  PageSize = 2
  ResStart = 12
  ResEnd = 16
  Word = 24
  E820Max = 3
  Extended = 3
  Ptr = 64
  ImageEnd = 8
  Step = 4
  GapSteps = 3
  Decoded = {16, 32, 64}
  Machines <- MCMachines
  Ulong = 32
  Pages = {0, 9, 10, 31}
INVARIANTS
  Sanitized
  OnlyRamListed
  RamListed
  PagesCounted
