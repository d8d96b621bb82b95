SPECIFICATION Spec
CONSTANTS
  c1 = c1
  c2 = c2
  Conns <- TwoConns
  Agents <- Nobody
  Accounts <- Nobody
  Ids <- One
  PeerInfos <- AnyPeer
  MaxChanges = 1
  MaxEvents = 3
  QUEUE_LIMIT = 1
  NoConn = NoConn
  NoId = 0
  NoPeer = NoPeer
  NoEvent = 0
INVARIANTS
  WriteGate
  StatusTruthful
PROPERTIES
  OperationsAreLegal
  ImplementsEventUplink
