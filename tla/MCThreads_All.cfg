SPECIFICATION FairSpec
CONSTANTS
  NumThreads = 3
  Increment = 3
  Threshold = 10
  MaxUnasked = 2
  NumReaders = 3
  NumWriters = 2
  MaxWrites = 3
CHECK_DEADLOCK FALSE
INVARIANTS ThreadsTypeOK CountRight SignalPerValue WriterPrintsOwn
PROPERTIES AllJoined ReaderServed
