SPECIFICATION FairSpec
CONSTANTS
  c1 = c1
  c2 = c2
  c3 = c3
  e1 = e1
  e2 = e2
  e3 = e3
  Conns <- TwoConns
  Accounts <- TwoAccounts
  Ids <- TwoIds
  Events <- TwoEvents
  AccountOf <- Reconnecting
  SelfIds <- FixedIds
  PeersOf <- OneWay
  NoConn = NoConn
  NoAccount = NoAccount
  NoId = 0
  NoEvent = NoEvent
PROPERTIES
  EventsArrive
  ConnectionsEnd
  ShutdownEnds
  OperationsAreLegal
  ImplementsEventRelay
INVARIANTS
  WriteInProgress
