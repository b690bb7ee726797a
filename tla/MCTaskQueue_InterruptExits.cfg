SPECIFICATION FairSpec
CONSTANTS
  Worker = {w1}
  Dispatcher = {d1}
  NoTask = none
  MaxMsg = 1
  MaxQueue = 2
  Arg = {0}
  UintSpan = 4
  PrioMax = 3
  ReceiveFails = FALSE
PROPERTY InterruptExits
