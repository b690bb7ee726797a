SPECIFICATION Spec
CONSTANTS
  Worker = {w1, w2}
  Dispatcher = {d1, d2, d3}
  NoTask = none
  MaxMsg = 2
  MaxQueue = 2
  Arg = {0, 3, 6}
  UintSpan = 4
  PrioMax = 3
  ReceiveFails = TRUE
SYMMETRY Alike
INVARIANTS TypeOK TaskOnce LostOnlyByExit
