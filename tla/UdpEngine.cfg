SPECIFICATION Spec
CONSTANTS
  k1 = k1
  k2 = k2
  Keys = {k1, k2}
  V6Keys = {k2}
  MaxFlows = 2
  MaxPending = 1
  MaxRx = 2
  Limit = 3
  IdleTimeout = 4
  OtherTimeout = 1
  PushInterval = 2
  Late = 1
  Scripts <- MCScripts
CHECK_DEADLOCK FALSE
INVARIANTS
  TypeOK
  ExpiryArmed
  IdleBound
  Accounted
  ReadsInOrder
  AcceptsOnce
  SendsSound
PROPERTIES
  NeverEarly
