SPECIFICATION FairSpec
CONSTANTS
  MaxConn = 1
  MaxSock = 2
  MaxInbox = 1
  Addr = {self}
  MayFail = FALSE
  SelfAddr = self
  InAddr = inbound
  Main = main
  Accept = accept
  Unlocked = unlocked
PROPERTY EndedRemoved
