SPECIFICATION Spec
CONSTANTS
  MaxConn = 2
  MaxSock = 2
  MaxInbox = 0
  Addr = {a1, self}
  MayFail = TRUE
  SelfAddr = self
  InAddr = inbound
  Main = main
  Accept = accept
  Unlocked = unlocked
INVARIANTS IInv ActiveOwnsFd CloseHitsOwn RegisteredNeverLost ListSnapshot NoDupOutbound
PROPERTY LedgerSpec
