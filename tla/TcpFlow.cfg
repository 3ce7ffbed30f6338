SPECIFICATION FairSpec
CONSTANTS
  Windows = {0, 2}
  Mss = 1
  MaxRetransmits = 1
  MaxProbes = 1
  MaxWrites = 2
  MaxTotal = 2
  PeerBudget = 3
INVARIANTS
  FlowInv
  StreamInOrder
  SuccessDelivered
  WritesCompleteOnce
PROPERTIES
  NothingAfterFin
  WritesEndUnlessCloseWait
