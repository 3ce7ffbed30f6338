SPECIFICATION Spec
CONSTANTS
  Windows = {0, 2}
  Mss = 1
  MaxRetransmits = 1
  MaxProbes = 1
  MaxWrites = 1
  MaxTotal = 2
  PeerBudget = 4
INVARIANT FinAckedIsReceived
