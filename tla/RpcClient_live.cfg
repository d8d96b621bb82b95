SPECIFICATION FairSpec
CONSTANTS
  c1 = c1
  c2 = c2
  Conns <- OneConn
  Agents <- One
  Accounts <- One
  Ids <- Two
  PeerInfos <- OnePeer
  MaxChanges = 3
  MaxEvents = 1
  QUEUE_LIMIT = 1
  NoConn = NoConn
  NoId = 0
  NoPeer = NoPeer
  NoEvent = 0
PROPERTIES
  Converges
  QueueDrains
  DisableEnds
  ShutdownEnds
