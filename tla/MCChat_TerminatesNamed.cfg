SPECIFICATION Spec
CONSTANTS
  MaxConn = 1
  MaxSock = 2
  MaxInbox = 0
  Addr = {self}
  MayFail = FALSE
  SelfAddr = self
  InAddr = inbound
  Main = main
  Accept = accept
  Unlocked = unlocked
INVARIANT TerminatesNamed
