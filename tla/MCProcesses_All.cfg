SPECIFICATION FairSpec
CONSTANTS
  Lines = 7
  Cap = 3
  Rounds = 2
  Signals = 5
  MaxSignals = 5
  MaxPieces = 4
CHECK_DEADLOCK FALSE
INVARIANTS ProcessesTypeOK NoneLeftBehind EndsWithCommands ChildIsOwn SignalsOnce
PROPERTY AllEnd
