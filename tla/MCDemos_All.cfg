SPECIFICATION FairSpec
CONSTANTS
  Producer = {"p1", "p2"}
  Consumer = {"c1"}
  RefWriter = {"w1", "w2"}
  Part = {"id", "price"}
  MaxObj = 2
  DgClient = {"d1", "d2"}
  DgServer = {"e1", "e2"}
  DgPort = {"i1", "i2"}
  MaxInbox = 1
  MaxDoubled = 1
  StClient = {"t1", "t2"}
  StServer = {"v1", "v2"}
  Backlog = 1
  Alphabet = {" ", "-", "1", "9", "x"}
  MaxLen = 4
  IntMax = 31
  LongMax = 255
CHECK_DEADLOCK FALSE
INVARIANTS DemosTypeOK ProductRight OwnAnswer BindsUnlessRaced StreamsHold StringsRight
PROPERTY NobodyWaits
