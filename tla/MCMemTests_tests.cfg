SPECIFICATION Spec
CONSTANTS
  Space = 96
  Spin = 16
  Width = 4
  ModSz = 3
  Block = 8
  Inverted = {2, 3, 6, 7}
  UsbEnd = 4
  Align = 8
  Bank = 8
  Tries = 2
  Rand <- MCRand
  Contents <- MCContents
  Trials <- MCTrials
INVARIANTS
  NoFalseAlarm
  FaultsFound
  LinesFound
  TicksAsExpected
PROPERTIES
  OnlySegmentsWritten
  ImplementsMarch
  Ends
