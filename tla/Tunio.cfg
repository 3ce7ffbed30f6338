SPECIFICATION FairSpec
CONSTANTS
  k1 = k1
  k2 = k2
  k3 = k3
  loop = loop
  LoopKeys = {loop}
  Keys = {k1, k2, k3, loop}
  MaxTcpFlows = 2
  Slots = 2
  Packets <- MCPackets
  Scripts <- MCScripts
CHECK_DEADLOCK FALSE
INVARIANTS
  TypeOK
  
  AcceptsOnce
  CloseComplete
  
  FdsOwned
  NoStorm
PROPERTIES
  OpenReturns
