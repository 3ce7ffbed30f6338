SPECIFICATION FairSpec
CONSTANTS
  w1 = w1
  w2 = w2
  Workers = {w1, w2}
  main = main
  fin = fin
  none = none
  Scripts <- MCScripts
CHECK_DEADLOCK FALSE
INVARIANTS
  OneAccept
  ApiInv
  CallbacksValid
  IoOutlivesCalls
PROPERTIES
  ReturnUnlessSweeping
