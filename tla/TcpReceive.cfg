SPECIFICATION FairSpec
CONSTANTS
  StreamLen = 5
  Mss = 2
  FixedWnd = 4
  WndUnit = 2
  MaxRx = 4
  Limit = 6
  OooMax = 2
  ReadSizes = {0, 2}
  SegMax = 2
  TakeSizes = {5}
  MaxFaults = 1
CHECK_DEADLOCK FALSE
INVARIANTS
  StreamPrefix
  Accounted
  ReceiveInv
  ReadsOwed
  EdgeFits
PROPERTIES
  ReadReopensWindow
  EofReached
