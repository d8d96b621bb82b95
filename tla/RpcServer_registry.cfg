SPECIFICATION Spec
CONSTANTS
  c1 = c1
  c2 = c2
  c3 = c3
  e1 = e1
  e2 = e2
  e3 = e3
  Conns <- ThreeConns
  Accounts <- TwoAccounts
  Ids <- TwoIds
  Events <- NoEvents
  AccountOf <- Reconnecting
  SelfIds <- MovingIds
  PeersOf <- Alone
  NoConn = NoConn
  NoAccount = NoAccount
  NoId = 0
  NoEvent = NoEvent
SYMMETRY Symmetry
INVARIANTS
  RegistryConsistent
  NobodyForgotten
  TableEmptyAtEnd
