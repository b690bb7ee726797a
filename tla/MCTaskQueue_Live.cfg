SPECIFICATION LiveSpec
CONSTANTS
  Worker = {w1, w2}
  Dispatcher = {d1, d2, d3}
  NoTask = none
  MaxMsg = 2
  MaxQueue = 1
  Arg = {0, 2}
  UintSpan = 4
  PrioMax = 3
  ReceiveFails = FALSE
CHECK_DEADLOCK FALSE
PROPERTIES TaskServed SenderProceeds
