------------------------------ MODULE RpcClient ------------------------------
(***************************************************************************)
(* evtc_rpc_client (networking/Client.h and .cpp): the half of the addon   *)
(* that tells the server who and where the player is, who the player's     *)
(* peers are and what the player does.                                     *)
(*                                                                         *)
(* The game's threads call ProcessLocalEvent, ProcessAreaEvent,            *)
(* SetEnabledStatus and Shutdown. One thread runs Serve: each round takes  *)
(* a completion, if there is one within a millisecond, and then does one   *)
(* thing. Self, peers and queue are behind three locks, so the game may    *)
(* change any of them between two looks of the same round (serve says      *)
(* where the round is).                                                    *)
(*                                                                         *)
(* gRPC is external: a stream that is dead (cancelled, broken, or never    *)
(* connected) fails what is outstanding, a completion that is already in   *)
(* the queue may still be a success. A Write that succeeds has been handed *)
(* to the transport, which keeps the order; what evtc_rpc_server makes of  *)
(* the messages handed over is the view of the stream.                     *)
(***************************************************************************)
EXTENDS Integers, Sequences, FiniteSets, FiniteSetsExt

CONSTANTS
  Conns,        (* the ConnectionContexts, each used for one stream         *)
  Agents,       (* unique ids of the game's agents, ordered as numbers      *)
  Accounts,     (* account names, numbered in the order std::map gives them *)
  Ids,          (* instance ids                                             *)
  PeerInfos,    (* the PeerInfos the game gives to its agents               *)
  MaxChanges,   (* bound: how often the self and the peers change           *)
  MaxEvents,    (* bound: events happen as 1, 2, ..., MaxEvents             *)
  QUEUE_LIMIT,  (* 5000: no event is queued behind more than that           *)
  NoConn, NoId, NoPeer, NoEvent

ASSUME ConstantsAssumption ==
  /\ Agents \subseteq Nat
  /\ Accounts \subseteq Int
  /\ PeerInfos \subseteq [id : Ids, account : Accounts]
  /\ MaxChanges \in Nat
  /\ MaxEvents \in Nat
  /\ QUEUE_LIMIT \in Nat
  /\ NoConn \notin Conns
  /\ NoId \notin Ids
  /\ NoPeer \notin PeerInfos
  /\ NoEvent \notin 1..MaxEvents

VARIABLES
  instanceId,       (* mInstanceId                                          *)
  peers,            (* mPeers: agent -> PeerInfo                            *)
  changes,          (* changes so far, for MaxChanges                       *)
  happened,         (* events so far, for MaxEvents                         *)
  queuedEvents,     (* mQueuedEvents                                        *)
  disabled,         (* mDisabled                                            *)
  shouldShutdown,   (* mShouldShutdown                                      *)
  shutdown,         (* mShutdown                                            *)
  serve,            (* where Serve is                                       *)
  mayConnect,       (* mLastConnectionAttempt is more than 5 s ago          *)
  context,          (* mConnectionContext                                   *)
  connected,        (* mStatus.Connected                                    *)
  registeredId,     (* RegisteredInstanceId of each context                 *)
  registeredPeers,  (* RegisteredPeers of each context                      *)
  writePending,     (* contexts with WritePending set                       *)
  unused,           (* contexts that do not exist yet                       *)
  connecting,       (* contexts whose AsyncConnect is outstanding           *)
  reading,          (* contexts with a Read outstanding                     *)
  writing,          (* the message of the Write outstanding, or NoMessage   *)
  finishing,        (* contexts with a Finish outstanding                   *)
  dead,             (* contexts whose stream is over                        *)
  view,             (* what the server knows from each stream               *)
  transmitted,      (* events handed over on each stream (history)          *)
  abandoned         (* contexts ForceDisconnect has let go of (history)     *)

game     == <<instanceId, peers, changes, happened>>
control  == <<disabled, shouldShutdown, shutdown>>
contexts == <<registeredId, registeredPeers, writePending>>
streams  == <<unused, connecting, reading, writing, finishing, dead>>
history  == <<view, transmitted, abandoned>>
vars     == <<game, queuedEvents, control, serve, mayConnect, context,
              connected, contexts, streams, history>>

NoMessage == [type |-> "None"]
NobodyKnown == [id |-> NoId, peers |-> [a \in Accounts |-> NoId]]

Init ==
  /\ instanceId = NoId
  /\ peers = [u \in Agents |-> NoPeer]
  /\ changes = 0
  /\ happened = 0
  /\ queuedEvents = <<>>
  /\ disabled \in BOOLEAN
  /\ shouldShutdown = FALSE
  /\ shutdown = FALSE
  /\ serve = "Wait"
  /\ mayConnect = TRUE
  /\ context = NoConn
  /\ connected = FALSE
  /\ registeredId = [c \in Conns |-> NoId]
  /\ registeredPeers = [c \in Conns |-> [u \in Agents |-> NoPeer]]
  /\ writePending = {}
  /\ unused = Conns
  /\ connecting = {}
  /\ reading = {}
  /\ writing = [c \in Conns |-> NoMessage]
  /\ finishing = {}
  /\ dead = {}
  /\ view = [c \in Conns |-> NobodyKnown]
  /\ transmitted = [c \in Conns |-> <<>>]
  /\ abandoned = {}

-----------------------------------------------------------------------------
(* The game's threads. The self never goes back to "no instance". *)
Changes ==
  /\ changes < MaxChanges
  /\ changes' = changes + 1
  /\ UNCHANGED <<happened, queuedEvents, control, serve, mayConnect, context,
                 connected, contexts, streams, history>>

RegisterAgent_Self(id) ==
  /\ Changes
  /\ id # instanceId
  /\ instanceId' = id
  /\ UNCHANGED peers

(* A peer that comes while its agent is entered already is dropped. That   *)
(* no two agents have one instance id or one account at a time is the      *)
(* game's doing.                                                           *)
RegisterAgent_Peer(u, p) ==
  /\ Changes
  /\ peers[u] = NoPeer
  /\ \A v \in Agents :
       peers[v] # NoPeer => peers[v].id # p.id /\ peers[v].account # p.account
  /\ peers' = [peers EXCEPT ![u] = p]
  /\ UNCHANGED instanceId

DeregisterAgent(u) ==
  /\ Changes
  /\ peers[u] # NoPeer
  /\ peers' = [peers EXCEPT ![u] = NoPeer]
  /\ UNCHANGED instanceId

(* A combat event is queued, or dropped because the queue is full.         *)
QueueEvent(e) ==
  queuedEvents' = IF Len(queuedEvents) > QUEUE_LIMIT THEN queuedEvents
                  ELSE Append(queuedEvents, e)

LocalEvent ==
  /\ happened < MaxEvents
  /\ happened' = happened + 1
  /\ UNCHANGED <<instanceId, peers, changes, control, serve, mayConnect,
                 context, connected, contexts, streams, history>>

ProcessLocalEvent == LocalEvent /\ QueueEvent(happened + 1)

(* In budget mode most events are not of interest. *)
SaveBudget == LocalEvent /\ UNCHANGED queuedEvents

SetEnabledStatus ==
  /\ disabled' = ~ disabled
  /\ UNCHANGED <<game, queuedEvents, shouldShutdown, shutdown, serve,
                 mayConnect, context, connected, contexts, streams, history>>

Shutdown ==
  /\ ~ shouldShutdown /\ ~ shutdown
  /\ shouldShutdown' = TRUE
  /\ UNCHANGED <<game, queuedEvents, disabled, shutdown, serve, mayConnect,
                 context, connected, contexts, streams, history>>
-----------------------------------------------------------------------------
(* A completion begins a round of Serve; with mShutdown the round is over  *)
(* when the completion has been handled.                                   *)
GotEvent ==
  /\ serve = "Wait"
  /\ serve' = IF shutdown THEN "Wait" ELSE "Act"
  /\ UNCHANGED <<game, queuedEvents, control, mayConnect, unused>>

(* Variant for the mutation checks: the flag is kept. *)
WriteEnds_KeepFlag(c) == UNCHANGED writePending

(* The flag of a write is reset whether it succeeded or not. *)
WriteEnds(c) == writePending' = writePending \ {c}

(* A stream that turns out to be dead is not the connection any more. *)
LoseContext(c) ==
  IF shutdown \/ context # c THEN UNCHANGED <<context, connected>>
  ELSE context' = NoConn /\ connected' = FALSE

(* Variant for the mutation checks: which context has connected is not     *)
(* looked at.                                                              *)
ConnectSucceeds_AnyContext(c) ==
  /\ GotEvent
  /\ c \in connecting
  /\ connecting' = connecting \ {c}
  /\ connected' = TRUE
  /\ WriteEnds(c)
  /\ UNCHANGED <<context, registeredId, registeredPeers, reading, writing,
                 finishing, dead, history>>

ConnectSucceeds(c) ==
  /\ GotEvent
  /\ c \in connecting
  /\ connecting' = connecting \ {c}
  /\ connected' = (connected \/ context = c)
  /\ WriteEnds(c)
  /\ UNCHANGED <<context, registeredId, registeredPeers, reading, writing,
                 finishing, dead, history>>

(* Variant for the mutation checks: the shutdown is not looked at.         *)
ConnectFails_Finish(c) ==
  /\ GotEvent
  /\ c \in connecting \cap dead
  /\ connecting' = connecting \ {c}
  /\ finishing' = finishing \cup {c}
  /\ LoseContext(c)
  /\ WriteEnds(c)
  /\ UNCHANGED <<registeredId, registeredPeers, reading, writing, dead, history>>

(* A Finish fetches the reason. *)
ConnectFails(c) ==
  /\ GotEvent
  /\ c \in connecting \cap dead
  /\ connecting' = connecting \ {c}
  /\ finishing' = IF shutdown THEN finishing ELSE finishing \cup {c}
  /\ LoseContext(c)
  /\ WriteEnds(c)
  /\ UNCHANGED <<registeredId, registeredPeers, reading, writing, dead, history>>

FinishCompletes(c) ==
  /\ GotEvent
  /\ c \in finishing
  /\ finishing' = finishing \ {c}
  /\ UNCHANGED <<context, connected, contexts, connecting, reading, writing,
                 dead, history>>

(* What the server does with a message: RegisterSelf and SetSelfId give    *)
(* the sender its id, AddPeer enters or overwrites an account, RemovePeer  *)
(* takes out the first account with that id.                               *)
PeersWithId(v, id) == {a \in Accounts : v.peers[a] = id}

Handled(v, m) ==
  CASE m.type \in {"RegisterSelf", "SetSelfId"} -> [v EXCEPT !.id = m.id]
    [] m.type = "AddPeer" -> [v EXCEPT !.peers[m.account] = m.id]
    [] m.type = "RemovePeer" /\ PeersWithId(v, m.id) # {} ->
         [v EXCEPT !.peers[Min(PeersWithId(v, m.id))] = NoId]
    [] OTHER -> v

(* It refuses a second RegisterSelf and whatever comes before the first,   *)
(* and ends the connection.                                                *)
Refuses(v, m) == (m.type = "RegisterSelf") <=> (v.id # NoId)

WriteSucceeds(c) ==
  /\ GotEvent
  /\ writing[c] # NoMessage
  /\ writing' = [writing EXCEPT ![c] = NoMessage]
  /\ WriteEnds(c)
  /\ view' = [view EXCEPT ![c] = Handled(@, writing[c])]
  /\ transmitted' = IF writing[c].type # "CombatEvent" THEN transmitted
                    ELSE [transmitted EXCEPT ![c] = Append(@, writing[c].event)]
  /\ UNCHANGED <<context, connected, registeredId, registeredPeers, connecting,
                 reading, finishing, dead, abandoned>>

WriteFails(c) ==
  /\ GotEvent
  /\ c \in dead
  /\ writing[c] # NoMessage
  /\ writing' = [writing EXCEPT ![c] = NoMessage]
  /\ WriteEnds(c)
  /\ UNCHANGED <<context, connected, registeredId, registeredPeers, connecting,
                 reading, finishing, dead, history>>

(* The next Read is started before the message is looked at. *)
ReadNext(c) ==
  /\ c \in reading
  /\ reading' = IF shutdown THEN reading \ {c} ELSE reading

(* A combat event goes to the callback; a message of an unknown type is    *)
(* ignored.                                                                *)
HandleReadMessage(c) ==
  /\ GotEvent
  /\ ReadNext(c)
  /\ UNCHANGED <<context, connected, contexts, connecting, writing, finishing,
                 dead, history>>

(* ForceDisconnect after a malformed message: the context is let go of, if *)
(* it is the one in use. Its stream is neither finished nor cancelled, and *)
(* the status is not touched.                                              *)
ForceDisconnect(c) ==
  /\ GotEvent
  /\ ReadNext(c)
  /\ context' = IF context = c THEN NoConn ELSE context
  /\ abandoned' = IF context = c THEN abandoned \cup {c} ELSE abandoned
  /\ UNCHANGED <<connected, contexts, connecting, writing, finishing, dead,
                 view, transmitted>>

ReadFails(c) ==
  /\ GotEvent
  /\ c \in reading \cap dead
  /\ reading' = reading \ {c}
  /\ LoseContext(c)
  /\ UNCHANGED <<contexts, connecting, writing, finishing, dead, history>>
-----------------------------------------------------------------------------
(* The rest of the round: after a completion, or after a millisecond       *)
(* without one, Serve does the first of these that applies.                *)
Round ==
  /\ serve \in {"Wait", "Act"}
  /\ ~ shutdown
  /\ UNCHANGED <<game, disabled>>

(* Variant for the mutation checks: the connection is left alone. *)
TryCancel_Never == dead' = dead

(* TryCancel, if there is a connection. *)
TryCancel == dead' = dead \cup ({context} \ {NoConn})

(* Before the completion queue is shut down, the connection is cancelled.  *)
ShutDown ==
  /\ Round
  /\ shouldShutdown
  /\ shouldShutdown' = FALSE
  /\ shutdown' = TRUE
  /\ TryCancel
  /\ serve' = "Wait"
  /\ UNCHANGED <<queuedEvents, mayConnect, context, connected, contexts, unused,
                 connecting, reading, writing, finishing, history>>

Goes == Round /\ ~ shouldShutdown /\ UNCHANGED <<shouldShutdown, shutdown>>

CancelDisabled ==
  /\ Goes
  /\ disabled
  /\ TryCancel
  /\ serve' = "Wait"
  /\ UNCHANGED <<queuedEvents, mayConnect, context, connected, contexts, unused,
                 connecting, reading, writing, finishing, history>>

(* Connect and the first Read are started together. *)
Connect(c) ==
  /\ Goes
  /\ ~ disabled
  /\ context = NoConn
  /\ mayConnect
  /\ c \in unused
  /\ context' = c
  /\ unused' = unused \ {c}
  /\ connecting' = connecting \cup {c}
  /\ writePending' = writePending \cup {c}
  /\ reading' = reading \cup {c}
  /\ mayConnect' = FALSE
  /\ serve' = "Wait"
  /\ UNCHANGED <<queuedEvents, connected, registeredId, registeredPeers,
                 writing, finishing, dead, history>>

(* One message is on its way over a stream at most. *)
MayWrite ==
  /\ Goes
  /\ ~ disabled
  /\ context # NoConn
  /\ context \notin writePending

Write(m) ==
  /\ writing' = [writing EXCEPT ![context] = m]
  /\ writePending' = writePending \cup {context}
  /\ serve' = "Wait"
  /\ UNCHANGED <<mayConnect, context, connected, unused, connecting, reading,
                 finishing, dead, history>>

(* Variant for the mutation checks: the self is sent once per connection.  *)
SendSelf_Once ==
  /\ MayWrite
  /\ instanceId # NoId /\ registeredId[context] = NoId
  /\ registeredId' = [registeredId EXCEPT ![context] = instanceId]
  /\ Write([type |-> "RegisterSelf", id |-> instanceId])
  /\ UNCHANGED <<queuedEvents, registeredPeers>>

(* Variant for the mutation checks: a move is announced by registering.    *)
SendSelf_Again ==
  /\ MayWrite
  /\ registeredId[context] # instanceId
  /\ registeredId' = [registeredId EXCEPT ![context] = instanceId]
  /\ Write([type |-> "RegisterSelf", id |-> instanceId])
  /\ UNCHANGED <<queuedEvents, registeredPeers>>

(* The self is registered, or has moved since.                             *)
SendSelf ==
  /\ MayWrite
  /\ registeredId[context] # instanceId
  /\ registeredId' = [registeredId EXCEPT ![context] = instanceId]
  /\ Write([type |-> IF registeredId[context] = NoId THEN "RegisterSelf"
                                                     ELSE "SetSelfId",
            id |-> instanceId])
  /\ UNCHANGED <<queuedEvents, registeredPeers>>

Stays == UNCHANGED <<queuedEvents, mayConnect, context, connected, contexts,
                     streams, history>>

SelfIsRegistered ==
  /\ MayWrite
  /\ registeredId[context] = instanceId
  /\ instanceId # NoId
  /\ serve' = "Peers"
  /\ Stays

(* Nothing to do in this round. *)
NothingToDo ==
  /\ Goes
  /\ ~ disabled
  /\ \/ context = NoConn /\ (~ mayConnect \/ unused = {})
     \/ context # NoConn /\ \/ context \in writePending
                            \/ registeredId[context] = NoId /\ instanceId = NoId
  /\ serve' = "Wait"
  /\ Stays

(* The second look, at the peers: those the server should forget go first. *)
LooksAtPeers == serve = "Peers" /\ UNCHANGED <<game, control>>

Outdated == {u \in Agents : /\ registeredPeers[context][u] # NoPeer
                            /\ registeredPeers[context][u] # peers[u]}
Missing  == {u \in Agents : /\ registeredPeers[context][u] = NoPeer
                            /\ peers[u] # NoPeer}

(* Variant for the mutation checks: the entry is erased before it is read. *)
SendRemovePeer_Erased ==
  /\ LooksAtPeers
  /\ Outdated # {}
  /\ LET u == Min(Outdated) IN
       registeredPeers' = [registeredPeers EXCEPT ![context][u] = NoPeer]
  /\ Write([type |-> "RemovePeer", id |-> NoId])
  /\ UNCHANGED <<queuedEvents, registeredId>>

SendRemovePeer ==
  /\ LooksAtPeers
  /\ Outdated # {}
  /\ LET u == Min(Outdated) IN
       /\ registeredPeers' = [registeredPeers EXCEPT ![context][u] = NoPeer]
       /\ Write([type |-> "RemovePeer", id |-> registeredPeers[context][u].id])
  /\ UNCHANGED <<queuedEvents, registeredId>>

(* Variant for the mutation checks: new peers are sent first.              *)
MayAddPeer_First == Missing # {}

MayAddPeer == Outdated = {} /\ Missing # {}

SendAddPeer ==
  /\ LooksAtPeers
  /\ MayAddPeer
  /\ LET u == Min(Missing) IN
       /\ registeredPeers' = [registeredPeers EXCEPT ![context][u] = peers[u]]
       /\ Write([type |-> "AddPeer", id |-> peers[u].id,
                 account |-> peers[u].account])
  /\ UNCHANGED <<queuedEvents, registeredId>>

NoPeerEvent ==
  /\ LooksAtPeers
  /\ Outdated = {} /\ Missing = {}
  /\ serve' = "Events"
  /\ Stays

(* Variant for the mutation checks: the event stays in the queue.          *)
SendQueued_Keep ==
  /\ serve = "Events"
  /\ queuedEvents # <<>>
  /\ Write([type |-> "CombatEvent", event |-> Head(queuedEvents)])
  /\ UNCHANGED <<game, control, queuedEvents, registeredId, registeredPeers>>

(* The third look, at the queue. *)
SendQueued ==
  /\ serve = "Events"
  /\ queuedEvents # <<>>
  /\ queuedEvents' = Tail(queuedEvents)
  /\ Write([type |-> "CombatEvent", event |-> Head(queuedEvents)])
  /\ UNCHANGED <<game, control, registeredId, registeredPeers>>

NothingQueued ==
  /\ serve = "Events"
  /\ queuedEvents = <<>>
  /\ serve' = "Wait"
  /\ Stays
  /\ UNCHANGED <<game, control>>

(* The completion queue has been shut down and is empty. *)
Idle == /\ connecting \cup reading \cup finishing = {}
        /\ \A c \in Conns : writing[c] = NoMessage

ServeReturns ==
  /\ serve = "Wait"
  /\ shutdown
  /\ Idle
  /\ serve' = "Returned"
  /\ UNCHANGED <<game, queuedEvents, control, mayConnect, context, connected,
                 contexts, streams, history>>
-----------------------------------------------------------------------------
(* The stream's other end, the network, and time. *)
Break(c) ==
  /\ c \notin unused \cup dead
  /\ dead' = dead \cup {c}
  /\ UNCHANGED <<game, queuedEvents, control, serve, mayConnect, context,
                 connected, contexts, unused, connecting, reading, writing,
                 finishing, history>>

FiveSecondsPass ==
  /\ ~ mayConnect
  /\ mayConnect' = TRUE
  /\ UNCHANGED <<game, queuedEvents, control, serve, context, connected,
                 contexts, streams, history>>

Done == serve = "Returned" /\ UNCHANGED vars
-----------------------------------------------------------------------------
Game ==
  \/ \E id \in Ids : RegisterAgent_Self(id)
  \/ \E u \in Agents : \/ DeregisterAgent(u)
                       \/ \E p \in PeerInfos : RegisterAgent_Peer(u, p)
  \/ ProcessLocalEvent \/ SaveBudget \/ SetEnabledStatus \/ Shutdown

Completes(c) ==
  \/ ConnectSucceeds(c) \/ ConnectFails(c) \/ FinishCompletes(c)
  \/ WriteSucceeds(c) \/ WriteFails(c)
  \/ HandleReadMessage(c) \/ ForceDisconnect(c) \/ ReadFails(c)

Acts ==
  \/ ShutDown \/ CancelDisabled \/ (\E c \in Conns : Connect(c))
  \/ SendSelf \/ SelfIsRegistered \/ NothingToDo
  \/ SendRemovePeer \/ SendAddPeer \/ NoPeerEvent
  \/ SendQueued \/ NothingQueued

Next ==
  \/ Game \/ Acts \/ ServeReturns \/ FiveSecondsPass \/ Done
  \/ \E c \in Conns : Completes(c) \/ Break(c)

(* Serve keeps going. AsyncNext hands out what has completed before it     *)
(* waits, so a completion is taken although Serve is busy in between;      *)
(* gRPC completes what was started, a Read only when the stream is over.   *)
Fairness ==
  /\ WF_vars(Acts)
  /\ WF_vars(ServeReturns)
  /\ WF_vars(FiveSecondsPass)
  /\ \A c \in Conns : /\ SF_vars(ConnectSucceeds(c) \/ ConnectFails(c))
                      /\ SF_vars(FinishCompletes(c))
                      /\ SF_vars(WriteSucceeds(c) \/ WriteFails(c))
                      /\ SF_vars(ReadFails(c))

Spec     == Init /\ [][Next]_vars
FairSpec == Spec /\ Fairness
-----------------------------------------------------------------------------
Messages ==
       [type : {"RegisterSelf", "SetSelfId", "RemovePeer"}, id : Ids]
  \cup [type : {"AddPeer"}, id : Ids, account : Accounts]
  \cup [type : {"CombatEvent"}, event : 1..MaxEvents]

PeerTable == [Agents -> PeerInfos \cup {NoPeer}]

TypeOK ==
  /\ instanceId \in Ids \cup {NoId}
  /\ peers \in PeerTable
  /\ changes \in 0..MaxChanges
  /\ happened \in 0..MaxEvents
  /\ queuedEvents \in Seq(1..MaxEvents)
  /\ disabled \in BOOLEAN
  /\ shouldShutdown \in BOOLEAN
  /\ shutdown \in BOOLEAN
  /\ serve \in {"Wait", "Act", "Peers", "Events", "Returned"}
  /\ mayConnect \in BOOLEAN
  /\ context \in Conns \cup {NoConn}
  /\ connected \in BOOLEAN
  /\ registeredId \in [Conns -> Ids \cup {NoId}]
  /\ registeredPeers \in [Conns -> PeerTable]
  /\ writePending \subseteq Conns
  /\ unused \subseteq Conns
  /\ connecting \subseteq Conns
  /\ reading \subseteq Conns
  /\ writing \in [Conns -> Messages \cup {NoMessage}]
  /\ finishing \subseteq Conns
  /\ dead \subseteq Conns
  /\ view \in [Conns -> [id : Ids \cup {NoId},
                         peers : [Accounts -> Ids \cup {NoId}]]]
  /\ transmitted \in [Conns -> Seq(1..MaxEvents)]
  /\ abandoned \subseteq Conns

(* The assert of Serve (Client.cpp line 392) and its converse: WritePending*)
(* is set exactly while a Connect or a Write is outstanding, so that       *)
(* neither two Writes overlap nor a connection falls silent for good.      *)
WriteGate ==
  \A c \in Conns :
    c \in writePending <=> c \in connecting \/ writing[c] # NoMessage

(* The server never refuses what the client writes: the first message of a *)
(* stream is a RegisterSelf, and there is no second one.                   *)
RegistersFirst ==
  \A c \in Conns :
    c \notin dead /\ writing[c] # NoMessage => ~ Refuses(view[c], writing[c])

(* What the client notes as registered is what the server knows once it    *)
(* has the message on its way: the same id, and exactly the peers' accounts*)
(* under the peers' ids, although RemovePeer names an id, not an account.  *)
WithAccount(table, a) ==
  {u \in Agents : table[u] # NoPeer /\ table[u].account = a}

Noted(id, table) ==
  [id |-> id,
   peers |-> [a \in Accounts |->
     IF WithAccount(table, a) = {} THEN NoId
     ELSE table[CHOOSE u \in WithAccount(table, a) : TRUE].id]]

ViewMatches ==
  \A c \in Conns \ dead :
    Handled(view[c], writing[c]) = Noted(registeredId[c], registeredPeers[c])

(* The status shown to the player: it says "connected" of the connection   *)
(* in use, whose Connect has succeeded, unless a connection was abandoned  *)
(* (ForceDisconnect does not touch the status).                            *)
StatusTruthful ==
  connected /\ abandoned = {} => context # NoConn /\ context \notin connecting

(* What lies behind these: of the operations that WritePending stands for  *)
(* one is outstanding at most; a context that does not exist yet has none; *)
(* between the second look and the third the connection is there, free to  *)
(* write and registered; a self once registered is still in the game; no   *)
(* two peers share an id or an account, nor do two that are registered.    *)
OneOutstanding == \A c \in connecting : writing[c] = NoMessage

UnusedIsIdle ==
  \A c \in unused : c # context /\ c \notin connecting /\ writing[c] = NoMessage

LooksAreFree ==
  serve \in {"Peers", "Events"} => /\ context # NoConn
                                  /\ context \notin writePending
                                  /\ registeredId[context] # NoId
                                  /\ ~ shutdown

SelfStays ==
  \A c \in Conns : registeredId[c] # NoId => instanceId # NoId

Distinct(table) ==
  \A u, v \in Agents : u # v /\ table[u] # NoPeer /\ table[v] # NoPeer =>
    table[u].id # table[v].id /\ table[u].account # table[v].account

PeersDistinct == Distinct(peers) /\ \A c \in Conns : Distinct(registeredPeers[c])

IInv ==
  /\ TypeOK
  /\ WriteGate /\ OneOutstanding /\ UnusedIsIdle /\ LooksAreFree
  /\ SelfStays /\ PeersDistinct
  /\ ViewMatches /\ RegistersFirst /\ StatusTruthful

(* Nothing is started once the completion queue has been shut down, and a  *)
(* Write not while the Connect or a Write is outstanding: gRPC aborts the  *)
(* program for either.                                                     *)
LegalStep ==
  /\ \A c \in Conns : writing'[c] \notin {writing[c], NoMessage} =>
                        writing[c] = NoMessage /\ c \notin connecting
  /\ shutdown => /\ connecting' \subseteq connecting
                 /\ reading' \subseteq reading
                 /\ finishing' \subseteq finishing
                 /\ \A c \in Conns : writing'[c] \in {writing[c], NoMessage}

OperationsAreLegal == [][LegalStep]_vars

(* As long as a connection lasts, the server's view of it comes to be what *)
(* the game says, however the changes and the writes were interleaved.     *)
Lasts(c) ==
  /\ context = c /\ c \notin dead
  /\ instanceId # NoId
  /\ ~ disabled /\ ~ shouldShutdown /\ ~ shutdown

UpToDate(c) ==
  /\ view[c].id = instanceId
  /\ \A u \in Agents : peers[u] # NoPeer =>
                         view[c].peers[peers[u].account] = peers[u].id
  /\ \A a \in Accounts : view[c].peers[a] # NoId =>
       \E u \in Agents : peers[u] # NoPeer /\ peers[u].account = a

Converges == \A c \in Conns : <>[]Lasts(c) => <>[]UpToDate(c)

(* As long as a connection lasts, the queue is emptied, again and again;    *)
(* FlushEvents waits for that.                                             *)
QueueDrains == \A c \in Conns : <>[]Lasts(c) => []<>(queuedEvents = <<>>)

(* A client that stays disabled gives its connection up. *)
DisableEnds == disabled ~> \/ ~ disabled \/ context = NoConn
                           \/ shouldShutdown \/ shutdown

(* After Shutdown, Serve returns, so that mod_release can join its thread  *)
(* -- unless the stream of an abandoned connection stays open: nobody      *)
(* cancels it.                                                             *)
ShutdownEnds ==
  shouldShutdown ~> serve = "Returned" \/ ~ abandoned \subseteq dead
-----------------------------------------------------------------------------
(* The refinement: what is on its way over a stream is the combat event    *)
(* being written.                                                          *)
OnTheWay == [c \in Conns |-> IF writing[c].type = "CombatEvent"
                              THEN writing[c].event ELSE NoEvent]

Uplink == INSTANCE EventUplink WITH
  QueueLimit <- QUEUE_LIMIT,
  waiting  <- queuedEvents,
  current  <- context,
  fresh    <- unused,
  broken   <- dead,
  onTheWay <- OnTheWay,
  arrived  <- transmitted

(* The client behaves like the abstract EventUplink. *)
ImplementsEventUplink == Uplink!Init /\ [][Uplink!Next]_(Uplink!vars)

=============================================================================
