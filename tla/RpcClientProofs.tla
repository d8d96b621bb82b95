--------------------------- MODULE RpcClientProofs ---------------------------
(* Theorems about RpcClient, for any contexts, agents, accounts and ids,   *)
(* any number of events and any limit of the queue.                        *)
EXTENDS RpcClient, WellFoundedInduction, TLAPS

USE DEF game, control, contexts, streams, history

-----------------------------------------------------------------------------
(* A set of numbers that is not empty has a least one.                     *)
LEMMA MinNat ==
  ASSUME NEW S, S \subseteq Nat, S # {}
  PROVE  /\ Min(S) \in S
         /\ \A y \in S : Min(S) <= y
<1> DEFINE Less == {ss \in Nat \X Nat : ss[1] < ss[2]}
<1>1. IsWellFoundedOn(Less, Nat)
  <2>1. OpToRel(<, Nat) = Less
    BY DEF OpToRel
  <2> QED
    BY <2>1, NatLessThanWellFounded
<1>2. PICK x \in S : \A y \in S : ~ (<<y, x>> \in Less)
  <2> HIDE DEF Less
  <2> QED
    BY <1>1, WFMin
<1>3. ASSUME NEW y \in S
      PROVE  x <= y
  <2>1. <<y, x>> \in Nat \X Nat /\ <<y, x>> \notin Less
    BY <1>2
  <2>2. ~ (y < x)
    BY <2>1
  <2> QED
    BY <2>2
<1> QED
  BY <1>3 DEF Min

(* An event that is queued, or dropped, leaves a queue of events.          *)
LEMMA QueueEventType ==
  ASSUME NEW S, NEW e \in S, queuedEvents \in Seq(S), QueueEvent(e)
  PROVE  queuedEvents' \in Seq(S)
BY DEF QueueEvent

(* The peer TryGetPeerEvent takes is one of those it looks for.            *)
LEMMA MinOutdated ==
  ASSUME Outdated # {}
  PROVE  Min(Outdated) \in Outdated
BY MinNat, ConstantsAssumption DEF Outdated

LEMMA MinMissing ==
  ASSUME Missing # {}
  PROVE  Min(Missing) \in Missing
BY MinNat, ConstantsAssumption DEF Missing

(* What the server makes of a message is what it can know.                 *)
Views == [id : Ids \cup {NoId}, peers : [Accounts -> Ids \cup {NoId}]]

LEMMA HandledType ==
  ASSUME NEW v \in Views, NEW m \in Messages \cup {NoMessage}
  PROVE  Handled(v, m) \in Views
<1>1. CASE m.type \in {"RegisterSelf", "SetSelfId"}
  <2>1. m.id \in Ids
    BY <1>1 DEF Messages, NoMessage
  <2> QED
    BY <1>1, <2>1 DEF Handled, Views
<1>2. CASE m.type = "AddPeer"
  <2>1. m.id \in Ids /\ m.account \in Accounts
    BY <1>2 DEF Messages, NoMessage
  <2>2. Handled(v, m) = [v EXCEPT !.peers[m.account] = m.id]
    BY <1>2 DEF Handled
  <2> QED
    BY <2>1, <2>2 DEF Views
<1>3. CASE m.type = "RemovePeer" /\ PeersWithId(v, m.id) # {}
  <2>1. Handled(v, m) = [v EXCEPT !.peers[Min(PeersWithId(v, m.id))] = NoId]
    BY <1>3 DEF Handled
  <2> QED
    BY <2>1 DEF Views
<1>4. CASE /\ m.type \notin {"RegisterSelf", "SetSelfId", "AddPeer"}
           /\ ~ (m.type = "RemovePeer" /\ PeersWithId(v, m.id) # {})
  BY <1>4 DEF Handled
<1> QED
  BY <1>1, <1>2, <1>3, <1>4

-----------------------------------------------------------------------------
(* Every step keeps the types. *)
LEMMA TypeNext ==
  ASSUME TypeOK, LooksAreFree, SelfStays, [Next]_vars
  PROVE  TypeOK'
<1> USE ConstantsAssumption DEF TypeOK
<1>1. CASE UNCHANGED vars
  BY <1>1 DEF vars
<1>2. CASE Game
  <2>1. ASSUME NEW id \in Ids, RegisterAgent_Self(id)
        PROVE  TypeOK'
    BY <2>1 DEF RegisterAgent_Self, Changes
  <2>2. ASSUME NEW u \in Agents, DeregisterAgent(u)
        PROVE  TypeOK'
    BY <2>2 DEF DeregisterAgent, Changes, PeerTable
  <2>3. ASSUME NEW u \in Agents, NEW p \in PeerInfos, RegisterAgent_Peer(u, p)
        PROVE  TypeOK'
    BY <2>3 DEF RegisterAgent_Peer, Changes, PeerTable
  <2>4. CASE ProcessLocalEvent
    <3>1. happened + 1 \in 1..MaxEvents
      BY <2>4 DEF ProcessLocalEvent, LocalEvent
    <3>2. queuedEvents' \in Seq(1..MaxEvents)
      BY <2>4, <3>1, QueueEventType DEF ProcessLocalEvent
    <3> QED
      BY <2>4, <3>1, <3>2 DEF ProcessLocalEvent, LocalEvent
  <2>5. CASE SaveBudget
    BY <2>5 DEF SaveBudget, LocalEvent
  <2>6. CASE SetEnabledStatus \/ Shutdown
    BY <2>6, ZenonT(60) DEF SetEnabledStatus, Shutdown
  <2> QED
    BY <1>2, <2>1, <2>2, <2>3, <2>4, <2>5, <2>6 DEF Game
<1>3. ASSUME NEW c \in Conns, Completes(c)
      PROVE  TypeOK'
  <2>1. CASE ConnectSucceeds(c)
    BY <2>1 DEF ConnectSucceeds, GotEvent, WriteEnds
  <2>2. CASE ConnectFails(c)
    BY <2>2 DEF ConnectFails, GotEvent, WriteEnds, LoseContext
  <2>3. CASE FinishCompletes(c)
    BY <2>3 DEF FinishCompletes, GotEvent
  <2>4. CASE WriteSucceeds(c)
    <3>1. view[c] \in Views /\ writing[c] \in Messages
      BY <2>4 DEF WriteSucceeds, Views
    <3>2. view' \in [Conns -> Views]
      BY <2>4, <3>1, HandledType DEF WriteSucceeds, Views
    <3>3. writing[c].type = "CombatEvent" => writing[c].event \in 1..MaxEvents
      BY <3>1 DEF Messages
    <3>4. transmitted' \in [Conns -> Seq(1..MaxEvents)]
      BY <2>4, <3>3 DEF WriteSucceeds
    <3> QED
      BY <2>4, <3>2, <3>4 DEF WriteSucceeds, GotEvent, WriteEnds, Views
  <2>5. CASE WriteFails(c)
    BY <2>5 DEF WriteFails, GotEvent, WriteEnds
  <2>6. CASE HandleReadMessage(c)
    BY <2>6 DEF HandleReadMessage, GotEvent, ReadNext
  <2>7. CASE ForceDisconnect(c)
    BY <2>7 DEF ForceDisconnect, GotEvent, ReadNext
  <2>8. CASE ReadFails(c)
    BY <2>8 DEF ReadFails, GotEvent, LoseContext
  <2> QED
    BY <1>3, <2>1, <2>2, <2>3, <2>4, <2>5, <2>6, <2>7, <2>8 DEF Completes
<1>4. CASE Acts
  <2>1. CASE ShutDown \/ CancelDisabled
    BY <2>1 DEF ShutDown, CancelDisabled, Round, Goes, TryCancel
  <2>2. ASSUME NEW c \in Conns, Connect(c)
        PROVE  TypeOK'
    BY <2>2 DEF Connect, Round, Goes
  <2>3. CASE SendSelf
    <3>1. context \in Conns /\ instanceId \in Ids
      BY <2>3 DEF SendSelf, MayWrite, SelfStays
    <3>2. writing' \in [Conns -> Messages \cup {NoMessage}]
      BY <2>3, <3>1 DEF SendSelf, Write, Messages
    <3> QED
      BY <2>3, <3>1, <3>2 DEF SendSelf, MayWrite, Goes, Round, Write
  <2>4. CASE SelfIsRegistered
    BY <2>4 DEF SelfIsRegistered, MayWrite, Goes, Round, Stays
  <2>5. CASE NothingToDo
    BY <2>5 DEF NothingToDo, Goes, Round, Stays
  <2>6. CASE SendRemovePeer
    <3> DEFINE u == Min(Outdated)
    <3>1. context \in Conns /\ u \in Agents /\ registeredPeers[context][u] # NoPeer
      BY <2>6, MinOutdated DEF SendRemovePeer, LooksAtPeers, LooksAreFree, Outdated
    <3>2. registeredPeers[context][u].id \in Ids
      <4>1. registeredPeers[context] \in PeerTable
        BY <3>1
      <4>2. registeredPeers[context][u] \in PeerInfos
        BY <3>1, <4>1 DEF PeerTable
      <4> QED
        BY <4>2
    <3>3. writing' \in [Conns -> Messages \cup {NoMessage}]
      BY <2>6, <3>1, <3>2 DEF SendRemovePeer, Write, Messages
    <3>4. registeredPeers' \in [Conns -> PeerTable]
      BY <2>6, <3>1 DEF SendRemovePeer, PeerTable
    <3> QED
      BY <2>6, <3>1, <3>3, <3>4 DEF SendRemovePeer, LooksAtPeers, Write
  <2>7. CASE SendAddPeer
    <3> DEFINE u == Min(Missing)
    <3>1. context \in Conns /\ u \in Agents /\ peers[u] # NoPeer
      BY <2>7, MinMissing
      DEF SendAddPeer, MayAddPeer, LooksAtPeers, LooksAreFree, Missing
    <3>2. /\ peers[u] \in PeerInfos
          /\ peers[u].id \in Ids /\ peers[u].account \in Accounts
      BY <3>1 DEF PeerTable
    <3>3. writing' \in [Conns -> Messages \cup {NoMessage}]
      BY <2>7, <3>1, <3>2 DEF SendAddPeer, Write, Messages
    <3>4. registeredPeers' \in [Conns -> PeerTable]
      BY <2>7, <3>1, <3>2 DEF SendAddPeer, PeerTable
    <3> QED
      BY <2>7, <3>1, <3>3, <3>4 DEF SendAddPeer, LooksAtPeers, Write
  <2>8. CASE NoPeerEvent
    BY <2>8 DEF NoPeerEvent, LooksAtPeers, Stays
  <2>9. CASE SendQueued
    <3>1. /\ context \in Conns /\ Head(queuedEvents) \in 1..MaxEvents
          /\ Tail(queuedEvents) \in Seq(1..MaxEvents)
      BY <2>9 DEF SendQueued, LooksAreFree
    <3>2. writing' \in [Conns -> Messages \cup {NoMessage}]
      BY <2>9, <3>1 DEF SendQueued, Write, Messages
    <3> QED
      BY <2>9, <3>1, <3>2 DEF SendQueued, Write
  <2>10. CASE NothingQueued
    BY <2>10 DEF NothingQueued, Stays
  <2> QED
    BY <1>4, <2>1, <2>2, <2>3, <2>4, <2>5, <2>6, <2>7, <2>8, <2>9, <2>10 DEF Acts
<1>5. CASE ServeReturns \/ FiveSecondsPass
  BY <1>5 DEF ServeReturns, FiveSecondsPass
<1>6. ASSUME NEW c \in Conns, Break(c)
      PROVE  TypeOK'
  BY <1>6 DEF Break
<1> QED
  BY <1>1, <1>2, <1>3, <1>4, <1>5, <1>6 DEF Next, Done

-----------------------------------------------------------------------------
(* Every step keeps WritePending in line with what is outstanding.         *)
Bookkeeping == WriteGate /\ OneOutstanding /\ UnusedIsIdle /\ LooksAreFree

LEMMA BookkeepingNext ==
  ASSUME TypeOK, Bookkeeping, [Next]_vars
  PROVE  Bookkeeping'
<1> USE ConstantsAssumption
    DEF TypeOK, Bookkeeping, WriteGate, OneOutstanding, UnusedIsIdle,
        LooksAreFree
<1>1. CASE UNCHANGED vars
  BY <1>1 DEF vars
<1>2. CASE Game
  <2>1. UNCHANGED <<serve, shutdown, context, registeredId, writePending,
                    unused, connecting, writing>>
    BY <1>2
    DEF Game, RegisterAgent_Self, RegisterAgent_Peer, DeregisterAgent, Changes,
        ProcessLocalEvent, SaveBudget, LocalEvent, SetEnabledStatus, Shutdown
  <2> QED
    BY <2>1
<1>3. ASSUME NEW c \in Conns, Completes(c)
      PROVE  Bookkeeping'
  <2>1. serve' \in {"Wait", "Act"} /\ UNCHANGED unused
    BY <1>3
    DEF Completes, GotEvent, ConnectSucceeds, ConnectFails, FinishCompletes,
        WriteSucceeds, WriteFails, HandleReadMessage, ForceDisconnect, ReadFails
  <2>2. CASE ConnectSucceeds(c)
    BY <2>1, <2>2 DEF ConnectSucceeds, WriteEnds
  <2>3. CASE ConnectFails(c)
    BY <2>1, <2>3 DEF ConnectFails, WriteEnds, LoseContext
  <2>4. CASE FinishCompletes(c)
    BY <2>1, <2>4 DEF FinishCompletes
  <2>5. CASE WriteSucceeds(c) \/ WriteFails(c)
    <3>1. /\ writing[c] # NoMessage
          /\ writing' = [writing EXCEPT ![c] = NoMessage]
          /\ writePending' = writePending \ {c}
          /\ UNCHANGED <<context, connecting>>
      BY <2>5 DEF WriteSucceeds, WriteFails, WriteEnds
    <3> QED
      BY <2>1, <3>1
  <2>6. CASE HandleReadMessage(c)
    BY <2>1, <2>6 DEF HandleReadMessage
  <2>7. CASE ForceDisconnect(c)
    BY <2>1, <2>7 DEF ForceDisconnect
  <2>8. CASE ReadFails(c)
    BY <2>1, <2>8 DEF ReadFails, LoseContext
  <2> QED
    BY <1>3, <2>2, <2>3, <2>4, <2>5, <2>6, <2>7, <2>8 DEF Completes
<1>4. CASE Acts
  <2>1. CASE ShutDown \/ CancelDisabled
    BY <2>1 DEF ShutDown, CancelDisabled, Round, Goes
  <2>2. ASSUME NEW c \in Conns, Connect(c)
        PROVE  Bookkeeping'
    BY <2>2 DEF Connect
  <2>3. CASE SendSelf \/ SendRemovePeer \/ SendAddPeer \/ SendQueued
    <3>1. /\ context # NoConn /\ context \notin writePending
      BY <2>3
      DEF SendSelf, MayWrite, SendRemovePeer, SendAddPeer, LooksAtPeers,
          SendQueued
    <3>2. PICK m : Write(m) /\ m # NoMessage
      BY <2>3 DEF SendSelf, SendRemovePeer, SendAddPeer, SendQueued, NoMessage
    <3> QED
      BY <3>1, <3>2 DEF Write
  <2>4. CASE SelfIsRegistered
    BY <2>4 DEF SelfIsRegistered, MayWrite, Goes, Round, Stays
  <2>5. CASE NothingToDo \/ NothingQueued
    BY <2>5 DEF NothingToDo, NothingQueued, Stays
  <2>6. CASE NoPeerEvent
    BY <2>6 DEF NoPeerEvent, LooksAtPeers, Stays
  <2> QED
    BY <1>4, <2>1, <2>2, <2>3, <2>4, <2>5, <2>6 DEF Acts
<1>5. CASE ServeReturns \/ FiveSecondsPass
  BY <1>5 DEF ServeReturns, FiveSecondsPass
<1>6. ASSUME NEW c \in Conns, Break(c)
      PROVE  Bookkeeping'
  BY <1>6 DEF Break
<1> QED
  BY <1>1, <1>2, <1>3, <1>4, <1>5, <1>6 DEF Next, Done

-----------------------------------------------------------------------------
(* What is noted of a table without doubles, told without CHOOSE: under    *)
(* each registered account its id, and nothing under the others.           *)
Tells(v, id, table) ==
  /\ v.id = id
  /\ \A u \in Agents : table[u] # NoPeer =>
                         v.peers[table[u].account] = table[u].id
  /\ \A a \in Accounts : WithAccount(table, a) = {} => v.peers[a] = NoId

LEMMA NotedType ==
  ASSUME NEW id \in Ids \cup {NoId}, NEW table \in PeerTable
  PROVE  Noted(id, table) \in Views
<1>1. ASSUME NEW a \in Accounts, WithAccount(table, a) # {}
      PROVE  table[CHOOSE u \in WithAccount(table, a) : TRUE].id \in Ids
  <2> DEFINE u == CHOOSE u \in WithAccount(table, a) : TRUE
  <2>1. u \in WithAccount(table, a)
    BY <1>1
  <2> HIDE DEF u
  <2>2. u \in Agents /\ table[u] # NoPeer
    BY <2>1 DEF WithAccount
  <2>3. table[u] \in PeerInfos
    BY <2>2 DEF PeerTable
  <2>4. table[u].id \in Ids
    BY <2>3, ConstantsAssumption
  <2> QED
    BY <2>4 DEF u
<1> QED
  BY <1>1 DEF Noted, Views

LEMMA NotedTells ==
  ASSUME NEW id \in Ids \cup {NoId}, NEW table \in PeerTable, Distinct(table)
  PROVE  Tells(Noted(id, table), id, table)
<1>1. ASSUME NEW u \in Agents, table[u] # NoPeer
      PROVE  Noted(id, table).peers[table[u].account] = table[u].id
  <2> DEFINE a == table[u].account
             w == CHOOSE w \in WithAccount(table, a) : TRUE
  <2>1. a \in Accounts
    BY <1>1, ConstantsAssumption DEF PeerTable
  <2>2. u \in WithAccount(table, a)
    BY <1>1 DEF WithAccount
  <2>3. w \in WithAccount(table, a)
    BY <2>2
  <2>4. w = u
    <3> HIDE DEF w
    <3> QED
      BY <1>1, <2>3 DEF WithAccount, Distinct
  <2>5. Noted(id, table).peers[a] = table[w].id
    BY <2>1, <2>2 DEF Noted
  <2> QED
    BY <2>4, <2>5
<1>2. ASSUME NEW a \in Accounts, WithAccount(table, a) = {}
      PROVE  Noted(id, table).peers[a] = NoId
  BY <1>2 DEF Noted
<1>3. Noted(id, table).id = id
  BY DEF Noted
<1> QED
  BY <1>1, <1>2, <1>3 DEF Tells

LEMMA TellsNoted ==
  ASSUME NEW id \in Ids \cup {NoId}, NEW table \in PeerTable, Distinct(table),
         NEW v \in Views, Tells(v, id, table)
  PROVE  v = Noted(id, table)
<1> DEFINE n == Noted(id, table)
<1>1. n \in Views /\ Tells(n, id, table)
  BY NotedType, NotedTells
<1> HIDE DEF n
<1>2. ASSUME NEW a \in Accounts
      PROVE  v.peers[a] = n.peers[a]
  <2>1. CASE WithAccount(table, a) = {}
    BY <1>1, <2>1 DEF Tells
  <2>2. CASE WithAccount(table, a) # {}
    <3>1. PICK u \in Agents : table[u] # NoPeer /\ table[u].account = a
      BY <2>2 DEF WithAccount
    <3> QED
      BY <1>1, <3>1 DEF Tells
  <2> QED
    BY <2>1, <2>2
<1>3. v.peers = n.peers
  BY <1>1, <1>2 DEF Views
<1>4. v.id = n.id
  BY <1>1 DEF Tells
<1>5. v = n
  BY <1>1, <1>3, <1>4 DEF Views
<1> QED
  BY <1>5 DEF n

(* Another id of the player is what SetSelfId tells.                       *)
LEMMA NotedId ==
  ASSUME NEW id, NEW new, NEW table
  PROVE  Noted(new, table) = [Noted(id, table) EXCEPT !.id = new]
<1>1. PICK known : \A i : Noted(i, table) = [id |-> i, peers |-> known]
  BY DEF Noted
<1> QED
  BY <1>1

(* Entering a peer whose account is new is what AddPeer does.              *)
LEMMA NotedAdd ==
  ASSUME NEW id \in Ids \cup {NoId}, NEW table \in PeerTable,
         NEW u \in Agents, NEW p \in PeerInfos, table[u] = NoPeer,
         Distinct([table EXCEPT ![u] = p]), Distinct(table)
  PROVE  Noted(id, [table EXCEPT ![u] = p])
           = [Noted(id, table) EXCEPT !.peers[p.account] = p.id]
<1> DEFINE new == [table EXCEPT ![u] = p]
           n == Noted(id, table)
           v == [n EXCEPT !.peers[p.account] = p.id]
<1>1. new \in PeerTable /\ p.id \in Ids /\ p.account \in Accounts
      /\ p # NoPeer
  BY ConstantsAssumption DEF PeerTable
<1>2. n \in Views /\ Tells(n, id, table)
  BY NotedType, NotedTells
<1>3. /\ new \in [Agents -> PeerInfos \cup {NoPeer}]
      /\ table \in [Agents -> PeerInfos \cup {NoPeer}]
  BY <1>1 DEF PeerTable
<1> HIDE DEF n
<1>4. v \in Views
  BY <1>1, <1>2 DEF Views
<1>5. Tells(v, id, new)
  <2>1. v.id = id
    BY <1>2 DEF Tells, Views
  <2>2. ASSUME NEW w \in Agents, new[w] # NoPeer
        PROVE  v.peers[new[w].account] = new[w].id
    <3>1. CASE w = u
      BY <1>1, <1>2, <1>3, <3>1 DEF Views
    <3>2. CASE w # u
      <4>1. new[w] = table[w] /\ new[u] = p
        BY <1>3, <3>2
      <4>2. new[w].account # p.account
        BY <1>1, <2>2, <3>2, <4>1 DEF Distinct
      <4>3. new[w].account \in Accounts
        BY <1>3, <2>2, ConstantsAssumption
      <4>4. n.peers[table[w].account] = table[w].id
        BY <1>2, <2>2, <4>1 DEF Tells
      <4> QED
        BY <1>1, <1>2, <4>1, <4>2, <4>3, <4>4 DEF Views
    <3> QED
      BY <3>1, <3>2
  <2>3. ASSUME NEW a \in Accounts, WithAccount(new, a) = {}
        PROVE  v.peers[a] = NoId
    <3>1. a # p.account
      BY <1>1, <1>3, <2>3 DEF WithAccount
    <3>2. WithAccount(table, a) = {}
      BY <1>3, <2>3 DEF WithAccount
    <3> QED
      BY <1>2, <3>1, <3>2 DEF Tells, Views
  <2> QED
    BY <2>1, <2>2, <2>3 DEF Tells
<1>6. v = Noted(id, new)
  <2> HIDE DEF v, new
  <2>1. Distinct(new)
    BY DEF new
  <2> QED
    BY <1>1, <1>4, <1>5, <2>1, TellsNoted
<1> QED
  BY <1>6 DEF n

(* No two peers of a table share an id, so the id RemovePeer names leads   *)
(* to the account of the peer that is meant, and to no other.              *)
LEMMA NotedOnce ==
  ASSUME NEW id \in Ids \cup {NoId}, NEW table \in PeerTable,
         NEW u \in Agents, NEW p, table[u] = p, p # NoPeer, Distinct(table)
  PROVE  PeersWithId(Noted(id, table), p.id) = {p.account}
<1> DEFINE n == Noted(id, table)
<1>1. table \in [Agents -> PeerInfos \cup {NoPeer}]
  BY DEF PeerTable
<1>2. n \in Views /\ Tells(n, id, table)
  BY NotedType, NotedTells
<1>3. p.id \in Ids /\ p.account \in Accounts
  BY <1>1, ConstantsAssumption
<1> HIDE DEF n
<1>4. PeersWithId(n, p.id) = {p.account}
  <2>1. n.peers[p.account] = p.id
    BY <1>2 DEF Tells
  <2>2. ASSUME NEW a \in Accounts, n.peers[a] = p.id
        PROVE  a = p.account
    <3>1. WithAccount(table, a) # {}
      BY <1>2, <1>3, <2>2, ConstantsAssumption DEF Tells
    <3>2. PICK w \in Agents : table[w] # NoPeer /\ table[w].account = a
      BY <3>1 DEF WithAccount
    <3>3. table[w].id = p.id
      BY <1>2, <2>2, <3>2 DEF Tells
    <3> QED
      BY <3>2, <3>3 DEF Distinct
  <2> QED
    BY <1>3, <2>1, <2>2 DEF PeersWithId
<1> QED
  BY <1>4 DEF n

(* Taking a peer out is what RemovePeer does.                              *)
LEMMA NotedRemove ==
  ASSUME NEW id \in Ids \cup {NoId}, NEW table \in PeerTable,
         NEW u \in Agents, NEW p, table[u] = p, p # NoPeer, Distinct(table)
  PROVE  Noted(id, [table EXCEPT ![u] = NoPeer])
           = [Noted(id, table) EXCEPT !.peers[p.account] = NoId]
<1> DEFINE new == [table EXCEPT ![u] = NoPeer]
           n == Noted(id, table)
           v == [n EXCEPT !.peers[p.account] = NoId]
<1>1. /\ new \in [Agents -> PeerInfos \cup {NoPeer}]
      /\ table \in [Agents -> PeerInfos \cup {NoPeer}]
  BY DEF PeerTable
<1>2. n \in Views /\ Tells(n, id, table)
  BY NotedType, NotedTells
<1>3. p.id \in Ids /\ p.account \in Accounts
  BY <1>1, ConstantsAssumption
<1> HIDE DEF n
<1>4. v \in Views
  BY <1>2, <1>3 DEF Views
<1>5. Tells(v, id, new)
  <2>1. v.id = id
    BY <1>2 DEF Tells, Views
  <2>2. ASSUME NEW w \in Agents, new[w] # NoPeer
        PROVE  v.peers[new[w].account] = new[w].id
    <3>1. w # u /\ new[w] = table[w]
      BY <1>1, <2>2
    <3>2. table[w].account # p.account
      BY <2>2, <3>1 DEF Distinct
    <3>3. n.peers[table[w].account] = table[w].id
      BY <1>2, <2>2, <3>1 DEF Tells
    <3>4. table[w].account \in Accounts
      BY <1>1, <2>2, <3>1, ConstantsAssumption
    <3> QED
      BY <1>2, <3>1, <3>2, <3>3, <3>4 DEF Views
  <2>3. ASSUME NEW a \in Accounts, WithAccount(new, a) = {}
        PROVE  v.peers[a] = NoId
    <3>1. CASE a = p.account
      BY <1>2, <3>1 DEF Views
    <3>2. CASE a # p.account
      <4>1. WithAccount(table, a) = {}
        BY <1>1, <2>3, <3>2 DEF WithAccount
      <4> QED
        BY <1>2, <3>2, <4>1 DEF Tells, Views
    <3> QED
      BY <3>1, <3>2
  <2> QED
    BY <2>1, <2>2, <2>3 DEF Tells
<1>6. v = Noted(id, new)
  <2>1. new \in PeerTable
    BY <1>1 DEF PeerTable
  <2>2. Distinct(new)
    BY <1>1 DEF Distinct
  <2> HIDE DEF v, new
  <2> QED
    BY <1>4, <1>5, <2>1, <2>2, TellsNoted
<1> QED
  BY <1>6 DEF n

-----------------------------------------------------------------------------
(* What a step does to the registrations and to what the server knows.     *)
LEMMA RegistrationSteps ==
  ASSUME [Next]_vars
  PROVE  /\ dead \subseteq dead'
         /\ \/ UNCHANGED <<registeredId, registeredPeers, view, writing>>
            \/ \E c \in Conns : WriteSucceeds(c) \/ WriteFails(c)
            \/ SendSelf \/ SendRemovePeer \/ SendAddPeer \/ SendQueued
<1>1. CASE UNCHANGED vars
  BY <1>1 DEF vars
<1>2. CASE Game
  BY <1>2
  DEF Game, RegisterAgent_Self, RegisterAgent_Peer, DeregisterAgent, Changes,
      ProcessLocalEvent, SaveBudget, LocalEvent, SetEnabledStatus, Shutdown
<1>3. ASSUME NEW c \in Conns, Completes(c)
      PROVE  /\ dead \subseteq dead'
             /\ \/ UNCHANGED <<registeredId, registeredPeers, view, writing>>
                \/ WriteSucceeds(c) \/ WriteFails(c)
  BY <1>3
  DEF Completes, ConnectSucceeds, ConnectFails, FinishCompletes, WriteSucceeds,
      WriteFails, HandleReadMessage, ForceDisconnect, ReadFails
<1>4. CASE Acts
  <2>1. CASE ShutDown \/ CancelDisabled
    BY <2>1 DEF ShutDown, CancelDisabled, TryCancel
  <2>2. CASE \E c \in Conns : Connect(c)
    BY <2>2 DEF Connect
  <2>3. CASE SelfIsRegistered \/ NothingToDo \/ NoPeerEvent \/ NothingQueued
    BY <2>3 DEF SelfIsRegistered, NothingToDo, NoPeerEvent, NothingQueued, Stays
  <2>4. CASE SendSelf \/ SendRemovePeer \/ SendAddPeer \/ SendQueued
    BY <2>4 DEF SendSelf, SendRemovePeer, SendAddPeer, SendQueued, Write
  <2> QED
    BY <1>4, <2>1, <2>2, <2>3, <2>4 DEF Acts
<1>5. CASE ServeReturns \/ FiveSecondsPass
  BY <1>5 DEF ServeReturns, FiveSecondsPass
<1>6. ASSUME NEW c \in Conns, Break(c)
      PROVE  /\ dead \subseteq dead'
             /\ UNCHANGED <<registeredId, registeredPeers, view, writing>>
  BY <1>6 DEF Break
<1> QED
  BY <1>1, <1>2, <1>3, <1>4, <1>5, <1>6 DEF Next, Done

(* What a step does to the player and the peers.                           *)
LEMMA GameSteps ==
  ASSUME [Next]_vars
  PROVE  /\ \/ UNCHANGED instanceId
            \/ \E id \in Ids : RegisterAgent_Self(id)
         /\ \/ UNCHANGED peers
            \/ \E u \in Agents : \/ DeregisterAgent(u)
                                 \/ \E p \in PeerInfos : RegisterAgent_Peer(u, p)
<1>1. CASE UNCHANGED vars
  BY <1>1 DEF vars
<1>2. CASE Game
  BY <1>2
  DEF Game, RegisterAgent_Self, RegisterAgent_Peer, DeregisterAgent, Changes,
      ProcessLocalEvent, SaveBudget, LocalEvent, SetEnabledStatus, Shutdown
<1>3. ASSUME NEW c \in Conns, Completes(c) \/ Break(c)
      PROVE  UNCHANGED <<instanceId, peers>>
  BY <1>3
  DEF Completes, ConnectSucceeds, ConnectFails, FinishCompletes, WriteSucceeds,
      WriteFails, HandleReadMessage, ForceDisconnect, ReadFails, GotEvent, Break
<1>4. CASE Acts
  BY <1>4
  DEF Acts, ShutDown, CancelDisabled, Connect, SendSelf, SelfIsRegistered,
      NothingToDo, SendRemovePeer, SendAddPeer, NoPeerEvent, SendQueued,
      NothingQueued, MayWrite, Goes, Round, LooksAtPeers
<1>5. CASE ServeReturns \/ FiveSecondsPass
  BY <1>5 DEF ServeReturns, FiveSecondsPass
<1> QED
  BY <1>1, <1>2, <1>3, <1>4, <1>5 DEF Next, Done

LEMMA SelfNext ==
  ASSUME TypeOK, SelfStays, [Next]_vars
  PROVE  SelfStays'
<1>1. instanceId' = instanceId \/ instanceId' \in Ids
  BY GameSteps DEF RegisterAgent_Self
<1>2. \/ UNCHANGED registeredId
      \/ registeredId' = [registeredId EXCEPT ![context] = instanceId]
  BY RegistrationSteps
  DEF WriteSucceeds, WriteFails, SendSelf, SendRemovePeer, SendAddPeer,
      SendQueued
<1> QED
  BY <1>1, <1>2, ConstantsAssumption DEF SelfStays, TypeOK

(* The peers that are registered stay without doubles because a new one is *)
(* sent only when the others are all up to date.                           *)
LEMMA PeersNext ==
  ASSUME TypeOK, Bookkeeping, PeersDistinct, [Next]_vars
  PROVE  PeersDistinct'
<1> USE ConstantsAssumption DEF TypeOK, PeersDistinct
<1>1. Distinct(peers')
  <2>1. CASE UNCHANGED peers
    BY <2>1
  <2>2. ASSUME NEW u \in Agents, DeregisterAgent(u)
        PROVE  Distinct(peers')
    BY <2>2 DEF DeregisterAgent, PeerTable, Distinct
  <2>3. ASSUME NEW u \in Agents, NEW p \in PeerInfos, RegisterAgent_Peer(u, p)
        PROVE  Distinct(peers')
    BY <2>3 DEF RegisterAgent_Peer, PeerTable, Distinct
  <2> QED
    BY <2>1, <2>2, <2>3, GameSteps
<1>2. ASSUME NEW c \in Conns
      PROVE  Distinct(registeredPeers[c]')
  <2>1. CASE UNCHANGED registeredPeers
    BY <2>1
  <2>2. CASE SendRemovePeer
    <3>1. PICK u \in Agents : registeredPeers' =
                                [registeredPeers EXCEPT ![context][u] = NoPeer]
      BY <2>2, MinOutdated DEF SendRemovePeer, Outdated
    <3>2. registeredPeers[c] \in PeerTable /\ Distinct(registeredPeers[c])
      OBVIOUS
    <3>3. \/ registeredPeers'[c] = registeredPeers[c]
          \/ registeredPeers'[c] = [registeredPeers[c] EXCEPT ![u] = NoPeer]
      BY <3>1
    <3> QED
      BY <3>2, <3>3 DEF Distinct, PeerTable
  <2>3. CASE SendAddPeer
    <3> DEFINE r == registeredPeers[c]
    <3>1. PICK u \in Agents :
            /\ r \in PeerTable
            /\ registeredPeers' =
                 [registeredPeers EXCEPT ![context][u] = peers[u]]
      BY <2>3, MinMissing DEF SendAddPeer, MayAddPeer, Missing
    <3>2. CASE c # context
      BY <3>1, <3>2
    <3>3. CASE c = context
      <4>1. registeredPeers'[c] = [r EXCEPT ![u] = peers[u]]
        BY <3>1, <3>3
      <4>2. \A v \in Agents : r[v] = NoPeer \/ r[v] = peers[v]
        BY <2>3, <3>3 DEF SendAddPeer, MayAddPeer, Outdated
      <4>3. \A v \in Agents : \/ registeredPeers'[c][v] = NoPeer
                               \/ registeredPeers'[c][v] = peers[v]
        BY <3>1, <4>1, <4>2 DEF PeerTable
      <4> QED
        BY <4>3, ZenonT(60) DEF Distinct
    <3> QED
      BY <3>2, <3>3
  <2> QED
    BY <2>1, <2>2, <2>3, RegistrationSteps
    DEF WriteSucceeds, WriteFails, SendSelf, SendQueued
<1> QED
  BY <1>1, <1>2 DEF Distinct

-----------------------------------------------------------------------------
(* What is handled of the messages the client writes.                      *)
LEMMA HandledNothing ==
  ASSUME NEW v
  PROVE  Handled(v, NoMessage) = v
BY DEF Handled, NoMessage

LEMMA HandledId ==
  ASSUME NEW v, NEW id, NEW type \in {"RegisterSelf", "SetSelfId"}
  PROVE  Handled(v, [type |-> type, id |-> id]) = [v EXCEPT !.id = id]
BY DEF Handled

LEMMA HandledAdd ==
  ASSUME NEW v, NEW id, NEW a
  PROVE  Handled(v, [type |-> "AddPeer", id |-> id, account |-> a])
           = [v EXCEPT !.peers[a] = id]
BY DEF Handled

LEMMA HandledRemove ==
  ASSUME NEW v, NEW id, NEW a \in Accounts, PeersWithId(v, id) = {a}
  PROVE  Handled(v, [type |-> "RemovePeer", id |-> id])
           = [v EXCEPT !.peers[a] = NoId]
<1>1. Min({a}) = a
  BY ConstantsAssumption DEF Min
<1> QED
  BY <1>1 DEF Handled

LEMMA HandledEvent ==
  ASSUME NEW v, NEW e
  PROVE  Handled(v, [type |-> "CombatEvent", event |-> e]) = v
BY DEF Handled

(* A stream with nothing on its way knows what is noted.                   *)
LEMMA IdleView ==
  ASSUME ViewMatches, NEW c \in Conns \ dead, writing[c] = NoMessage
  PROVE  view[c] = Noted(registeredId[c], registeredPeers[c])
BY HandledNothing DEF ViewMatches

(* A Write finds its stream idle. *)
LEMMA WriteIsFree ==
  ASSUME TypeOK, Bookkeeping,
         SendSelf \/ SendRemovePeer \/ SendAddPeer \/ SendQueued
  PROVE  /\ context \in Conns /\ writing[context] = NoMessage
         /\ context \notin connecting /\ ~ shutdown
         /\ SendSelf \/ registeredId[context] # NoId
BY DEF TypeOK, Bookkeeping, WriteGate, LooksAreFree, SendSelf, MayWrite, Goes,
       Round, SendRemovePeer, SendAddPeer, LooksAtPeers, SendQueued

LEMMA ViewNext ==
  ASSUME TypeOK, Bookkeeping, PeersDistinct, SelfStays, ViewMatches, [Next]_vars
  PROVE  ViewMatches'
<1> SUFFICES ASSUME NEW c \in Conns, c \notin dead'
             PROVE  Handled(view'[c], writing'[c])
                      = Noted(registeredId'[c], registeredPeers'[c])
  BY DEF ViewMatches
<1> DEFINE known == Noted(registeredId[c], registeredPeers[c])
<1>1. c \in Conns \ dead
  BY RegistrationSteps
<1>2. Handled(view[c], writing[c]) = known
  BY <1>1 DEF ViewMatches
<1>3. CASE UNCHANGED <<registeredId, registeredPeers, view, writing>>
  BY <1>2, <1>3
<1>4. ASSUME NEW d \in Conns, WriteSucceeds(d)
      PROVE  Handled(view'[c], writing'[c])
               = Noted(registeredId'[c], registeredPeers'[c])
  <2>1. UNCHANGED <<registeredId, registeredPeers>>
    BY <1>4 DEF WriteSucceeds
  <2>2. CASE c = d
    <3>1. view'[c] = Handled(view[c], writing[c]) /\ writing'[c] = NoMessage
      BY <1>4, <2>2 DEF WriteSucceeds, TypeOK
    <3> QED
      BY <1>2, <2>1, <3>1, HandledNothing
  <2>3. CASE c # d
    BY <1>2, <1>4, <2>1, <2>3 DEF WriteSucceeds, TypeOK
  <2> QED
    BY <2>2, <2>3
<1>5. ASSUME NEW d \in Conns, WriteFails(d)
      PROVE  Handled(view'[c], writing'[c])
               = Noted(registeredId'[c], registeredPeers'[c])
  BY <1>1, <1>2, <1>5 DEF WriteFails, TypeOK
<1>6. CASE SendSelf \/ SendRemovePeer \/ SendAddPeer \/ SendQueued
  <2>1. context \in Conns /\ writing[context] = NoMessage
    BY <1>6, WriteIsFree
  <2>2. CASE c # context
    <3>1. UNCHANGED <<registeredId[c], registeredPeers[c], view, writing[c]>>
      BY <1>6, <2>1, <2>2
      DEF SendSelf, SendRemovePeer, SendAddPeer, SendQueued, Write, TypeOK
    <3> QED
      BY <1>2, <3>1
  <2>3. CASE c = context
    <3>1. view'[c] = known
      <4>1. UNCHANGED view
        BY <1>6 DEF SendSelf, SendRemovePeer, SendAddPeer, SendQueued, Write
      <4> QED
        BY <1>1, <2>1, <2>3, <4>1, IdleView
    <3>2. /\ registeredId[c] \in Ids \cup {NoId}
          /\ registeredPeers[c] \in PeerTable /\ Distinct(registeredPeers[c])
      BY DEF TypeOK, PeersDistinct
    <3>3. CASE SendSelf
      <4>1. PICK type \in {"RegisterSelf", "SetSelfId"} :
              writing'[c] = [type |-> type, id |-> instanceId]
        BY <2>1, <2>3, <3>3 DEF SendSelf, Write, TypeOK
      <4>2. /\ registeredId'[c] = instanceId
            /\ registeredPeers'[c] = registeredPeers[c]
        BY <2>1, <2>3, <3>3 DEF SendSelf, TypeOK
      <4>3. Handled(view'[c], writing'[c]) = [known EXCEPT !.id = instanceId]
        BY <3>1, <4>1, HandledId
      <4> QED
        BY <4>2, <4>3, NotedId
    <3>4. CASE SendRemovePeer
      <4> DEFINE u == Min(Outdated)
                 p == registeredPeers[c][u]
      <4>1. u \in Agents /\ p # NoPeer
        BY <2>3, <3>4, MinOutdated DEF SendRemovePeer, Outdated
      <4>2. p.account \in Accounts
        BY <3>2, <4>1, ConstantsAssumption DEF PeerTable
      <4>3. /\ writing'[c] = [type |-> "RemovePeer", id |-> p.id]
            /\ registeredPeers'[c] = [registeredPeers[c] EXCEPT ![u] = NoPeer]
            /\ registeredId'[c] = registeredId[c]
        BY <2>1, <2>3, <3>4 DEF SendRemovePeer, Write, TypeOK
      <4>4. registeredPeers[c][u] = p
        OBVIOUS
      <4> HIDE DEF u, p
      <4>5. PeersWithId(known, p.id) = {p.account}
        BY <3>2, <4>1, <4>4, NotedOnce
      <4>6. Handled(known, [type |-> "RemovePeer", id |-> p.id])
              = [known EXCEPT !.peers[p.account] = NoId]
        BY <4>2, <4>5, HandledRemove
      <4>7. Noted(registeredId[c], [registeredPeers[c] EXCEPT ![u] = NoPeer])
              = [known EXCEPT !.peers[p.account] = NoId]
        BY <3>2, <4>1, <4>4, NotedRemove
      <4> QED
        BY <3>1, <4>3, <4>6, <4>7
    <3>5. CASE SendAddPeer
      <4> DEFINE u == Min(Missing)
                 p == peers[u]
      <4>1. /\ u \in Agents /\ p # NoPeer
            /\ registeredPeers[c][u] = NoPeer
        BY <2>3, <3>5, MinMissing DEF SendAddPeer, MayAddPeer, Missing
      <4>2. p \in PeerInfos
        BY <4>1 DEF TypeOK, PeerTable
      <4>3. /\ writing'[c] = [type |-> "AddPeer", id |-> p.id,
                              account |-> p.account]
            /\ registeredPeers'[c] = [registeredPeers[c] EXCEPT ![u] = p]
            /\ registeredId'[c] = registeredId[c]
        BY <2>1, <2>3, <3>5 DEF SendAddPeer, Write, TypeOK
      <4>4. Distinct([registeredPeers[c] EXCEPT ![u] = p])
        <5>1. Distinct(registeredPeers'[c])
          BY PeersNext DEF PeersDistinct
        <5> QED
          BY <4>3, <5>1
      <4> HIDE DEF u, p
      <4>5. Handled(known, [type |-> "AddPeer", id |-> p.id,
                            account |-> p.account])
              = [known EXCEPT !.peers[p.account] = p.id]
        BY HandledAdd
      <4>6. Noted(registeredId'[c], registeredPeers'[c])
              = [known EXCEPT !.peers[p.account] = p.id]
        BY <3>2, <4>1, <4>2, <4>3, <4>4, NotedAdd, SMTT(30)
      <4> QED
        BY <3>1, <4>3, <4>5, <4>6
    <3>6. CASE SendQueued
      <4>1. writing'[c] = [type |-> "CombatEvent", event |-> Head(queuedEvents)]
        BY <2>1, <2>3, <3>6 DEF SendQueued, Write, TypeOK
      <4>2. UNCHANGED <<registeredId, registeredPeers>>
        BY <3>6 DEF SendQueued
      <4> QED
        BY <3>1, <4>1, <4>2, HandledEvent
    <3> QED
      BY <1>6, <3>3, <3>4, <3>5, <3>6
  <2> QED
    BY <2>2, <2>3
<1> QED
  BY <1>3, <1>4, <1>5, <1>6, RegistrationSteps

-----------------------------------------------------------------------------
(* A message is refused only if the server knows of the stream's player    *)
(* what the client has not noted, or the other way round.                  *)
LEMMA RegistersNext ==
  ASSUME TypeOK, Bookkeeping, ViewMatches, RegistersFirst, [Next]_vars
  PROVE  RegistersFirst'
<1> SUFFICES ASSUME NEW c \in Conns, c \notin dead', writing'[c] # NoMessage
             PROVE  ~ Refuses(view'[c], writing'[c])
  BY DEF RegistersFirst
<1>1. c \in Conns \ dead
  BY RegistrationSteps
<1>2. CASE UNCHANGED <<view[c], writing[c]>>
  BY <1>1, <1>2 DEF RegistersFirst
<1>3. ASSUME NEW d \in Conns, WriteSucceeds(d) \/ WriteFails(d)
      PROVE  UNCHANGED <<view[c], writing[c]>>
  <2>1. c # d
    BY <1>3 DEF WriteSucceeds, WriteFails, TypeOK
  <2> QED
    BY <1>3, <2>1 DEF WriteSucceeds, WriteFails, TypeOK
<1>4. CASE SendSelf \/ SendRemovePeer \/ SendAddPeer \/ SendQueued
  <2>1. context \in Conns /\ writing[context] = NoMessage /\ UNCHANGED view
    BY <1>4, WriteIsFree
    DEF SendSelf, SendRemovePeer, SendAddPeer, SendQueued, Write
  <2>2. CASE c # context
    <3>1. UNCHANGED writing[c]
      BY <1>4, <2>1, <2>2
      DEF SendSelf, SendRemovePeer, SendAddPeer, SendQueued, Write, TypeOK
    <3> QED
      BY <1>2, <2>1, <3>1
  <2>3. CASE c = context
    <3>1. view'[c].id = registeredId[c]
      <4>1. view'[c] = Noted(registeredId[c], registeredPeers[c])
        BY <1>1, <2>1, <2>3, IdleView
      <4> QED
        BY <4>1 DEF Noted
    <3>2. CASE SendSelf
      <4>1. writing'[c].type = IF registeredId[c] = NoId THEN "RegisterSelf"
                                                        ELSE "SetSelfId"
        BY <2>1, <2>3, <3>2 DEF SendSelf, Write, TypeOK
      <4> QED
        BY <3>1, <4>1 DEF Refuses
    <3>3. CASE ~ SendSelf
      <4>1. registeredId[c] # NoId
        BY <1>4, <2>3, <3>3, WriteIsFree
      <4>2. writing'[c].type \in {"RemovePeer", "AddPeer", "CombatEvent"}
        BY <1>4, <2>1, <2>3, <3>3
        DEF SendRemovePeer, SendAddPeer, SendQueued, Write, TypeOK
      <4> QED
        BY <3>1, <4>1, <4>2 DEF Refuses
    <3> QED
      BY <3>2, <3>3
  <2> QED
    BY <2>2, <2>3
<1> QED
  BY <1>2, <1>3, <1>4, RegistrationSteps

(* The status changes with the context in use, or is lost with it.         *)
LEMMA StatusNext ==
  ASSUME TypeOK, StatusTruthful, [Next]_vars
  PROVE  StatusTruthful'
<1> USE ConstantsAssumption DEF TypeOK, StatusTruthful
<1>1. CASE UNCHANGED <<context, connected, connecting, abandoned>>
  BY <1>1
<1>2. ASSUME NEW c \in Conns, Completes(c)
      PROVE  StatusTruthful'
  <2>1. CASE ConnectSucceeds(c)
    BY <2>1 DEF ConnectSucceeds
  <2>2. CASE ConnectFails(c)
    BY <2>2 DEF ConnectFails, LoseContext
  <2>3. CASE ForceDisconnect(c)
    BY <2>3 DEF ForceDisconnect
  <2>4. CASE ReadFails(c)
    BY <2>4 DEF ReadFails, LoseContext
  <2>5. CASE \/ FinishCompletes(c) \/ WriteSucceeds(c) \/ WriteFails(c)
             \/ HandleReadMessage(c)
    BY <1>1, <2>5
    DEF FinishCompletes, WriteSucceeds, WriteFails, HandleReadMessage
  <2> QED
    BY <1>2, <2>1, <2>2, <2>3, <2>4, <2>5 DEF Completes
<1>3. ASSUME NEW c \in Conns, Connect(c)
      PROVE  StatusTruthful'
  BY <1>3 DEF Connect
<1>4. CASE Acts /\ ~ \E c \in Conns : Connect(c)
  BY <1>1, <1>4
  DEF Acts, ShutDown, CancelDisabled, SendSelf, SelfIsRegistered, NothingToDo,
      SendRemovePeer, SendAddPeer, NoPeerEvent, SendQueued, NothingQueued, Write,
      Stays
<1>5. CASE Game
  BY <1>1, <1>5
  DEF Game, RegisterAgent_Self, RegisterAgent_Peer, DeregisterAgent, Changes,
      ProcessLocalEvent, SaveBudget, LocalEvent, SetEnabledStatus, Shutdown
<1>6. CASE \/ ServeReturns \/ FiveSecondsPass \/ UNCHANGED vars
           \/ \E c \in Conns : Break(c)
  BY <1>1, <1>6 DEF ServeReturns, FiveSecondsPass, Break, vars
<1> QED
  BY <1>2, <1>3, <1>4, <1>5, <1>6 DEF Next, Done

-----------------------------------------------------------------------------
LEMMA InitIInv == Init => IInv
<1> SUFFICES ASSUME Init
             PROVE  IInv
  OBVIOUS
<1> USE ConstantsAssumption DEF Init
<1>1. TypeOK
  <2>1. peers \in PeerTable /\ registeredPeers \in [Conns -> PeerTable]
    BY DEF PeerTable
  <2>2. view \in [Conns -> Views]
    BY DEF Views, NobodyKnown
  <2>3. transmitted \in [Conns -> Seq(1..MaxEvents)]
    OBVIOUS
  <2>4. writing \in [Conns -> Messages \cup {NoMessage}]
    OBVIOUS
  <2>5. /\ instanceId \in Ids \cup {NoId} /\ context \in Conns \cup {NoConn}
        /\ changes \in 0..MaxChanges /\ happened \in 0..MaxEvents
        /\ serve \in {"Wait", "Act", "Peers", "Events", "Returned"}
        /\ registeredId \in [Conns -> Ids \cup {NoId}]
    OBVIOUS
  <2>6. queuedEvents \in Seq(1..MaxEvents)
    OBVIOUS
  <2>7. /\ disabled \in BOOLEAN /\ shouldShutdown \in BOOLEAN
        /\ shutdown \in BOOLEAN /\ mayConnect \in BOOLEAN
        /\ connected \in BOOLEAN
    OBVIOUS
  <2>8. /\ writePending \subseteq Conns /\ unused \subseteq Conns
        /\ connecting \subseteq Conns /\ reading \subseteq Conns
        /\ finishing \subseteq Conns /\ dead \subseteq Conns
        /\ abandoned \subseteq Conns
    OBVIOUS
  <2> HIDE DEF Init
  <2> QED
    BY <2>1, <2>2, <2>3, <2>4, <2>5, <2>6, <2>7, <2>8 DEF TypeOK, Views
<1>2. Bookkeeping
  BY DEF Bookkeeping, WriteGate, OneOutstanding, UnusedIsIdle, LooksAreFree
<1>3. SelfStays /\ PeersDistinct /\ RegistersFirst /\ StatusTruthful
  BY DEF SelfStays, PeersDistinct, Distinct, RegistersFirst, StatusTruthful
<1>4. ViewMatches
  <2>1. \A a \in Accounts : WithAccount([u \in Agents |-> NoPeer], a) = {}
    BY DEF WithAccount
  <2>2. Noted(NoId, [u \in Agents |-> NoPeer]) = NobodyKnown
    BY <2>1 DEF Noted, NobodyKnown
  <2> QED
    BY <2>2, HandledNothing DEF ViewMatches
<1> QED
  BY <1>1, <1>2, <1>3, <1>4 DEF IInv, Bookkeeping

LEMMA Inductive == Spec => []IInv
<1>1. IInv /\ [Next]_vars => IInv'
  BY TypeNext, BookkeepingNext, SelfNext, PeersNext, ViewNext, RegistersNext,
     StatusNext
  DEF IInv, Bookkeeping
<1> QED
  BY InitIInv, <1>1, PTL DEF Spec

(* The state of the client has the types of its members, always: no        *)
(* message without an id, no peer without an account is ever written.      *)
THEOREM TypeCorrect == Spec => []TypeOK
<1>1. IInv => TypeOK
  BY DEF IInv
<1> QED
  BY <1>1, Inductive, PTL

(* WritePending is set exactly while a Connect or a Write is outstanding:  *)
(* the assert of Serve, Client.cpp line 392, never fails.                  *)
THEOREM GateHolds == Spec => []WriteGate
<1>1. IInv => WriteGate
  BY DEF IInv
<1> QED
  BY <1>1, Inductive, PTL

(* evtc_rpc_server never refuses a message of this client: each stream     *)
(* begins with the one RegisterSelf it carries.                            *)
THEOREM NothingIsRefused == Spec => []RegistersFirst
<1>1. IInv => RegistersFirst
  BY DEF IInv
<1> QED
  BY <1>1, Inductive, PTL

(* What Serve notes in RegisteredInstanceId and RegisteredPeers is what    *)
(* the server knows as soon as the message on its way has been handled.    *)
THEOREM ServerKnowsWhatIsNoted == Spec => []ViewMatches
<1>1. IInv => ViewMatches
  BY DEF IInv
<1> QED
  BY <1>1, Inductive, PTL

(* The status the player is shown is true of the connection in use.        *)
THEOREM StatusIsTrue == Spec => []StatusTruthful
<1>1. IInv => StatusTruthful
  BY DEF IInv
<1> QED
  BY <1>1, Inductive, PTL

(* No operation is started that gRPC would abort the program for.          *)
THEOREM NoIllegalOperation == Spec => OperationsAreLegal
<1>1. IInv /\ [Next]_vars => [LegalStep]_vars
  <2> SUFFICES ASSUME IInv, Next
               PROVE  LegalStep
    OBVIOUS
  <2> USE ConstantsAssumption DEF LegalStep
  <2>1. TypeOK /\ Bookkeeping
    BY DEF IInv, Bookkeeping
  <2>2. CASE UNCHANGED <<connecting, reading, writing, finishing>>
    BY <2>2
  <2>3. ASSUME NEW c \in Conns, Completes(c)
        PROVE  LegalStep
    <3>1. /\ connecting' \subseteq connecting /\ reading' \subseteq reading
          /\ shutdown => finishing' \subseteq finishing
      BY <2>3
      DEF Completes, ConnectSucceeds, ConnectFails, FinishCompletes, ReadNext,
          WriteSucceeds, WriteFails, HandleReadMessage, ForceDisconnect, ReadFails
    <3>2. writing' \in {writing, [writing EXCEPT ![c] = NoMessage]}
      BY <2>3
      DEF Completes, ConnectSucceeds, ConnectFails, FinishCompletes,
          WriteSucceeds, WriteFails, HandleReadMessage, ForceDisconnect, ReadFails
    <3>3. \A d \in Conns : writing'[d] \in {writing[d], NoMessage}
      BY <2>1, <3>2 DEF TypeOK
    <3> QED
      BY <3>1, <3>3
  <2>4. ASSUME NEW c \in Conns, Connect(c)
        PROVE  LegalStep
    BY <2>4 DEF Connect, Goes, Round
  <2>5. CASE SendSelf \/ SendRemovePeer \/ SendAddPeer \/ SendQueued
    <3>1. /\ context \in Conns /\ writing[context] = NoMessage
          /\ context \notin connecting /\ ~ shutdown
      BY <2>1, <2>5, WriteIsFree
    <3>2. PICK m : writing' = [writing EXCEPT ![context] = m]
      BY <2>5 DEF SendSelf, SendRemovePeer, SendAddPeer, SendQueued, Write
    <3> QED
      BY <2>1, <3>1, <3>2 DEF TypeOK
  <2>6. CASE \/ ShutDown \/ CancelDisabled \/ SelfIsRegistered \/ NothingToDo
             \/ NoPeerEvent \/ NothingQueued
    BY <2>2, <2>6
    DEF ShutDown, CancelDisabled, SelfIsRegistered, NothingToDo, NoPeerEvent,
        NothingQueued, Stays
  <2>7. CASE Game
    BY <2>2, <2>7
    DEF Game, RegisterAgent_Self, RegisterAgent_Peer, DeregisterAgent, Changes,
        ProcessLocalEvent, SaveBudget, LocalEvent, SetEnabledStatus, Shutdown
  <2>8. CASE \/ ServeReturns \/ FiveSecondsPass \/ Done
             \/ \E c \in Conns : Break(c)
    BY <2>2, <2>8 DEF ServeReturns, FiveSecondsPass, Done, Break, vars
  <2> QED
    BY <2>3, <2>4, <2>5, <2>6, <2>7, <2>8 DEF Next, Acts
<1> QED
  BY <1>1, Inductive, PTL DEF Spec, OperationsAreLegal

-----------------------------------------------------------------------------
(* The refinement: every step is one of EventUplink's, or none of them.    *)
Uplinked == <<happened, queuedEvents, context, unused, dead, OnTheWay,
              transmitted>>

LEMMA UplinkStutters ==
  ASSUME UNCHANGED Uplinked
  PROVE  UNCHANGED Uplink!vars
BY DEF Uplinked, Uplink!vars

(* What is on the way changes with the Write that is outstanding.          *)
LEMMA OnTheWaySame ==
  ASSUME UNCHANGED writing
  PROVE  UNCHANGED OnTheWay
BY DEF OnTheWay

LEMMA OnTheWayWritten ==
  ASSUME TypeOK, NEW c \in Conns, NEW m,
         writing' = [writing EXCEPT ![c] = m]
  PROVE  OnTheWay' = [OnTheWay EXCEPT ![c] = IF m.type = "CombatEvent"
                                             THEN m.event ELSE NoEvent]
BY DEF TypeOK, OnTheWay

LEMMA GameUplinks ==
  ASSUME TypeOK, Game
  PROVE  [Uplink!Next]_(Uplink!vars)
<1>1. CASE ProcessLocalEvent
  <2>1. Uplink!Happen
    BY <1>1, OnTheWaySame
    DEF ProcessLocalEvent, LocalEvent, QueueEvent, Uplink!Happen
  <2> QED
    BY <2>1 DEF Uplink!Next
<1>2. CASE SaveBudget
  <2>1. Uplink!Ignore
    BY <1>2, OnTheWaySame DEF SaveBudget, LocalEvent, Uplink!Ignore
  <2> QED
    BY <2>1 DEF Uplink!Next
<1>3. CASE ~ ProcessLocalEvent /\ ~ SaveBudget
  <2>1. UNCHANGED Uplinked
    BY <1>3, OnTheWaySame
    DEF Game, RegisterAgent_Self, RegisterAgent_Peer, DeregisterAgent, Changes,
        SetEnabledStatus, Shutdown, Uplinked
  <2> QED
    BY <2>1, UplinkStutters
<1> QED
  BY <1>1, <1>2, <1>3

LEMMA CompletionUplinks ==
  ASSUME TypeOK, NEW c \in Conns, Completes(c)
  PROVE  [Uplink!Next]_(Uplink!vars)
<1>1. CASE ConnectSucceeds(c) \/ FinishCompletes(c) \/ HandleReadMessage(c)
  <2>1. UNCHANGED Uplinked
    BY <1>1, OnTheWaySame
    DEF ConnectSucceeds, FinishCompletes, HandleReadMessage, GotEvent, Uplinked
  <2> QED
    BY <2>1, UplinkStutters
<1>2. CASE ConnectFails(c) \/ ForceDisconnect(c) \/ ReadFails(c)
  <2>1. /\ UNCHANGED <<happened, queuedEvents, unused, dead, OnTheWay,
                       transmitted>>
        /\ context' = NoConn \/ UNCHANGED context
    BY <1>2, OnTheWaySame
    DEF ConnectFails, ForceDisconnect, ReadFails, LoseContext, GotEvent
  <2>2. CASE context' = NoConn
    <3>1. Uplink!Abandon
      BY <2>1, <2>2 DEF Uplink!Abandon
    <3> QED
      BY <3>1 DEF Uplink!Next
  <2>3. CASE UNCHANGED context
    BY <2>1, <2>3, UplinkStutters DEF Uplinked
  <2> QED
    BY <2>1, <2>2, <2>3
<1>3. CASE WriteSucceeds(c) \/ WriteFails(c)
  <2>1. OnTheWay' = [OnTheWay EXCEPT ![c] = NoEvent]
    <3>1. NoMessage.type # "CombatEvent"
      BY DEF NoMessage
    <3>2. writing' = [writing EXCEPT ![c] = NoMessage]
      BY <1>3 DEF WriteSucceeds, WriteFails
    <3> QED
      BY <3>1, <3>2, OnTheWayWritten
  <2>2. UNCHANGED <<happened, queuedEvents, context, unused, dead>>
    BY <1>3 DEF WriteSucceeds, WriteFails, GotEvent
  <2>3. CASE writing[c].type # "CombatEvent"
    <3>1. UNCHANGED transmitted
      BY <1>3, <2>3 DEF WriteSucceeds, WriteFails
    <3>2. OnTheWay' = OnTheWay
      BY <2>1, <2>3 DEF OnTheWay
    <3> QED
      BY <2>2, <3>1, <3>2, UplinkStutters DEF Uplinked
  <2>4. CASE writing[c].type = "CombatEvent"
    <3>1. OnTheWay[c] = writing[c].event /\ OnTheWay[c] # NoEvent
      <4>1. writing[c] \in Messages \cup {NoMessage}
        BY DEF TypeOK
      <4>2. writing[c].event \in 1..MaxEvents
        BY <2>4, <4>1 DEF Messages, NoMessage
      <4> QED
        BY <2>4, <4>2, ConstantsAssumption DEF OnTheWay
    <3>2. CASE WriteSucceeds(c)
      <4>1. transmitted' = [transmitted EXCEPT ![c] = Append(@, OnTheWay[c])]
        BY <2>4, <3>1, <3>2 DEF WriteSucceeds
      <4>2. Uplink!Arrive(c)
        BY <2>1, <2>2, <3>1, <4>1 DEF Uplink!Arrive
      <4> QED
        BY <4>2 DEF Uplink!Next
    <3>3. CASE WriteFails(c)
      <4>1. c \in dead /\ UNCHANGED transmitted
        BY <3>3 DEF WriteFails
      <4>2. Uplink!Lose(c)
        BY <2>1, <2>2, <3>1, <4>1 DEF Uplink!Lose
      <4> QED
        BY <4>2 DEF Uplink!Next
    <3> QED
      BY <1>3, <3>2, <3>3
  <2> QED
    BY <2>3, <2>4
<1> QED
  BY <1>1, <1>2, <1>3 DEF Completes

LEMMA RoundUplinks ==
  ASSUME TypeOK, Bookkeeping, Acts
  PROVE  [Uplink!Next]_(Uplink!vars)
<1>1. CASE ShutDown \/ CancelDisabled
  <2>1. /\ UNCHANGED <<happened, queuedEvents, context, unused, OnTheWay,
                       transmitted>>
        /\ dead' = dead \cup ({context} \ {NoConn})
    BY <1>1, OnTheWaySame
    DEF ShutDown, CancelDisabled, TryCancel, Goes, Round
  <2>2. CASE context = NoConn
    BY <2>1, <2>2, UplinkStutters DEF Uplinked
  <2>3. CASE context # NoConn
    <3>1. context \in Conns /\ context \notin unused
      BY <2>3 DEF TypeOK, Bookkeeping, UnusedIsIdle
    <3>2. Uplink!Break(context)
      BY <2>1, <2>3, <3>1 DEF Uplink!Break
    <3> QED
      BY <3>1, <3>2 DEF Uplink!Next
  <2> QED
    BY <2>2, <2>3
<1>2. ASSUME NEW c \in Conns, Connect(c)
      PROVE  [Uplink!Next]_(Uplink!vars)
  <2>1. Uplink!Open(c)
    BY <1>2, OnTheWaySame DEF Connect, Goes, Round, Uplink!Open
  <2> QED
    BY <2>1 DEF Uplink!Next
<1>3. CASE SelfIsRegistered \/ NothingToDo \/ NoPeerEvent \/ NothingQueued
  <2>1. UNCHANGED Uplinked
    BY <1>3, OnTheWaySame
    DEF SelfIsRegistered, NothingToDo, NoPeerEvent, NothingQueued, MayWrite,
        Goes, Round, LooksAtPeers, Stays, Uplinked
  <2> QED
    BY <2>1, UplinkStutters
<1>4. CASE SendSelf \/ SendRemovePeer \/ SendAddPeer \/ SendQueued
  <2>1. /\ context \in Conns /\ writing[context] = NoMessage
    BY <1>4, WriteIsFree
  <2>2. OnTheWay[context] = NoEvent
    BY <2>1 DEF OnTheWay, NoMessage
  <2>3. UNCHANGED <<happened, context, unused, dead, transmitted>>
    BY <1>4
    DEF SendSelf, SendRemovePeer, SendAddPeer, SendQueued, MayWrite, Goes, Round,
        LooksAtPeers, Write
  <2>4. CASE SendQueued
    <3> DEFINE m == [type |-> "CombatEvent", event |-> Head(queuedEvents)]
    <3>1. writing' = [writing EXCEPT ![context] = m]
      BY <2>4 DEF SendQueued, Write
    <3>2. OnTheWay' = [OnTheWay EXCEPT ![context] = Head(queuedEvents)]
      <4>1. OnTheWay' = [OnTheWay EXCEPT ![context] =
                           IF m.type = "CombatEvent" THEN m.event ELSE NoEvent]
        BY <2>1, <3>1, OnTheWayWritten
      <4> QED
        BY <4>1
    <3>3. queuedEvents # <<>> /\ queuedEvents' = Tail(queuedEvents)
      BY <2>4 DEF SendQueued
    <3>4. Uplink!Send
      BY <2>1, <2>2, <2>3, <3>2, <3>3, ConstantsAssumption DEF Uplink!Send
    <3> QED
      BY <3>4 DEF Uplink!Next
  <2>5. CASE SendSelf \/ SendRemovePeer \/ SendAddPeer
    <3>1. PICK m : Write(m) /\ m.type # "CombatEvent"
      BY <2>5 DEF SendSelf, SendRemovePeer, SendAddPeer
    <3>2. OnTheWay' = [OnTheWay EXCEPT ![context] = NoEvent]
      BY <2>1, <3>1, OnTheWayWritten DEF Write
    <3>3. OnTheWay' = OnTheWay
      BY <2>2, <3>2 DEF OnTheWay
    <3>4. UNCHANGED queuedEvents
      BY <2>5 DEF SendSelf, SendRemovePeer, SendAddPeer
    <3> QED
      BY <2>3, <3>3, <3>4, UplinkStutters DEF Uplinked
  <2> QED
    BY <1>4, <2>4, <2>5
<1> QED
  BY <1>1, <1>2, <1>3, <1>4 DEF Acts

(* The client keeps the promise of EventUplink: the player's events go out *)
(* in the order in which they happened, each over one stream at most, and  *)
(* an event on its way is lost only with its stream.                       *)
THEOREM ClientIsUplink == Spec => ImplementsEventUplink
<1>1. Init => Uplink!Init
  <2> SUFFICES ASSUME Init
               PROVE  Uplink!Init
    OBVIOUS
  <2>1. OnTheWay = [c \in Conns |-> NoEvent]
    BY DEF Init, OnTheWay, NoMessage
  <2> QED
    BY <2>1 DEF Init, Uplink!Init
<1>2. IInv /\ [Next]_vars => [Uplink!Next]_(Uplink!vars)
  <2> SUFFICES ASSUME IInv, [Next]_vars
               PROVE  [Uplink!Next]_(Uplink!vars)
    OBVIOUS
  <2>1. TypeOK /\ Bookkeeping
    BY DEF IInv, Bookkeeping
  <2>2. CASE ServeReturns \/ FiveSecondsPass \/ UNCHANGED vars
    <3>1. UNCHANGED Uplinked
      BY <2>2, OnTheWaySame DEF ServeReturns, FiveSecondsPass, vars, Uplinked
    <3> QED
      BY <3>1, UplinkStutters
  <2>3. ASSUME NEW c \in Conns, Break(c)
        PROVE  [Uplink!Next]_(Uplink!vars)
    <3>1. Uplink!Break(c)
      BY <2>3, OnTheWaySame DEF Break, Uplink!Break
    <3> QED
      BY <3>1 DEF Uplink!Next
  <2> QED
    BY <2>1, <2>2, <2>3, GameUplinks, CompletionUplinks, RoundUplinks
    DEF Next, Done
<1> QED
  BY <1>1, <1>2, Inductive, PTL DEF Spec, ImplementsEventUplink
=============================================================================
