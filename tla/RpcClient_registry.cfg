SPECIFICATION Spec
CONSTANTS
  c1 = c1
  c2 = c2
  Conns <- OneConn
  Agents <- Two
  Accounts <- Two
  Ids <- Two
  PeerInfos <- AnyPeer
  MaxChanges = 5
  MaxEvents = 0
  QUEUE_LIMIT = 1
  NoConn = NoConn
  NoId = 0
  NoPeer = NoPeer
  NoEvent = 0
INVARIANTS
  TypeOK
  RegistersFirst
  ViewMatches
