------------------------------ MODULE RpcServer ------------------------------
(***************************************************************************)
(* evtc_rpc_server: the registry of agents (networking/Server.h and .cpp)  *)
(* behind the gRPC frontend (networking/ServerFrontendGrpc.h and .cpp).    *)
(*                                                                         *)
(* The program runs one Serve thread. It takes one completed operation at  *)
(* a time from the completion queue, so an action is the whole handler of  *)
(* one completion. What runs beside it is Shutdown, called by a signal     *)
(* handler, whose only access to the rest is an exchange and an alarm.     *)
(*                                                                         *)
(* gRPC is external: an operation started on a stream completes once, in   *)
(* any order with the others. A read completes with a message, or fails    *)
(* when the client has hung up or the stream is finished. A write that was *)
(* started may fail once the client has hung up or a Finish was started.   *)
(* A message is modelled by what the handler does with it.                 *)
(***************************************************************************)
EXTENDS Integers, Sequences, FiniteSets, FiniteSetsExt

CONSTANTS
  Conns,       (* the ConnectionContexts, each used for one connection      *)
  Accounts,    (* account names, numbered in the order std::map gives them  *)
  Ids,         (* instance ids                                              *)
  Events,      (* combat events, each sent once                             *)
  AccountOf,   (* the account each connection registers: it registers once  *)
  SelfIds,     (* the instance ids its client has in the course of time     *)
  PeersOf,     (* the accounts its client adds, with the ids it adds        *)
  NoConn, NoAccount, NoId, NoEvent

ASSUME ConstantsAssumption ==
  /\ Accounts \subseteq Int
  /\ AccountOf \in [Conns -> Accounts]
  /\ SelfIds \in [Conns -> SUBSET Ids]
  /\ PeersOf \in [Conns -> SUBSET (Accounts \X Ids)]
  /\ NoConn \notin Conns
  /\ NoAccount \notin Accounts
  /\ NoId \notin Ids
  /\ NoEvent \notin Events

VARIABLES
  registeredAgents,   (* mRegisteredAgents: account -> connection           *)
  iterator,           (* Iterator: the account a connection is entered as   *)
  instanceId,         (* InstanceId of each connection                      *)
  peers,              (* Peers of each connection: account -> instance id   *)
  silent,             (* connections whose LastCallTime is 30 s ago or more *)
  forceDisconnected,  (* connections with ForceDisconnected set             *)
  writePending,       (* connections with WritePending set                  *)
  queuedEvents,       (* QueuedEvents of each connection                    *)
  shutdownState,      (* mShutdownState                                     *)
  returned,           (* Serve has returned and main ends the program       *)
  alarm,              (* the alarm of Shutdown                              *)
  unused,             (* contexts that do not exist yet                     *)
  listening,          (* the context with a RequestConnect outstanding      *)
  reading,            (* connections with a Read outstanding                *)
  writing,            (* the event of the Write outstanding, or NoEvent     *)
  finishing,          (* connections with a Finish outstanding              *)
  finished,           (* connections whose Finish has completed             *)
  hungUp,             (* connections whose client's messages have ended     *)
  seen,               (* combat events received from clients (history)      *)
  transmitted         (* events each client has been sent (history)         *)

registry == <<registeredAgents, iterator, instanceId, peers, silent>>
frontend == <<forceDisconnected, writePending, queuedEvents>>
process  == <<shutdownState, returned, alarm>>
streams  == <<unused, listening, reading, writing, finishing, finished, hungUp>>
vars     == <<registry, frontend, process, streams, seen, transmitted>>

Registered == {registeredAgents[a] : a \in Accounts} \ {NoConn}

Init ==
  /\ registeredAgents = [a \in Accounts |-> NoConn]
  /\ iterator = [c \in Conns |-> NoAccount]
  /\ instanceId = [c \in Conns |-> NoId]
  /\ peers = [c \in Conns |-> [a \in Accounts |-> NoId]]
  /\ silent = Conns
  /\ forceDisconnected = {}
  /\ writePending = {}
  /\ queuedEvents = [c \in Conns |-> <<>>]
  /\ shutdownState = "Online"
  /\ returned = FALSE
  /\ alarm = "off"
  /\ \E c \in Conns : listening = c /\ unused = Conns \ {c}
  /\ reading = {}
  /\ writing = [c \in Conns |-> NoEvent]
  /\ finishing = {}
  /\ finished = {}
  /\ hungUp = {}
  /\ seen = {}
  /\ transmitted = [c \in Conns |-> <<>>]

-----------------------------------------------------------------------------
(* The Serve loop around a handler. Handles: the completion is handled     *)
(* while the server is online. Drains: the first completion after Shutdown *)
(* shuts the queue down; from then on completions are only cleaned up.     *)
Running == ~ returned /\ alarm # "aborted"

Handles == Running /\ shutdownState = "Online" /\ UNCHANGED process

Drains ==
  /\ Running
  /\ shutdownState # "Online"
  /\ shutdownState' = "ShuttingDown"
  /\ UNCHANGED returned

IsShuttingDown == shutdownState' = "ShuttingDown"

(* Variants for the mutation checks: the shutdown is not asked for; the    *)
(* answer is taken the wrong way round.                                    *)
FinishStream_Always(c) ==
  /\ forceDisconnected' = forceDisconnected \cup {c}
  /\ finishing' = IF c \in forceDisconnected
                  THEN finishing ELSE finishing \cup {c}

FinishStream_Inverted(c) ==
  /\ forceDisconnected' = forceDisconnected \cup {c}
  /\ finishing' = IF c \in forceDisconnected \/ ~ IsShuttingDown
                  THEN finishing ELSE finishing \cup {c}

(* ForceDisconnect of the frontend's connection: a stream is finished once,*)
(* and not when the queue has been shut down.                              *)
FinishStream(c) ==
  /\ forceDisconnected' = forceDisconnected \cup {c}
  /\ finishing' = IF c \in forceDisconnected \/ IsShuttingDown
                  THEN finishing ELSE finishing \cup {c}

(* ForceDisconnect of the server: the entry the context holds goes first. *)
ForceDisconnect(c) ==
  /\ registeredAgents' =
       [a \in Accounts |-> IF iterator[c] = a THEN NoConn
                                              ELSE registeredAgents[a]]
  /\ iterator' = [iterator EXCEPT ![c] = NoAccount]
  /\ FinishStream(c)
-----------------------------------------------------------------------------
(* A new client connects: its first Read is started, and a new context     *)
(* waits for the next client. Conns bounds how many there are.             *)
HandleConnect(c) ==
  /\ Handles
  /\ c = listening
  /\ reading' = reading \cup {c}
  /\ IF unused = {} THEN listening' = NoConn /\ UNCHANGED unused
     ELSE \E d \in unused : listening' = d /\ unused' = unused \ {d}
  /\ UNCHANGED <<registry, frontend, writing, finishing, finished, hungUp,
                 seen, transmitted>>

ConnectDropped(c) ==
  /\ Drains
  /\ c = listening
  /\ listening' = NoConn
  /\ UNCHANGED <<registry, frontend, alarm, unused, reading, writing,
                 finishing, finished, hungUp, seen, transmitted>>

(* A Read completes with a message. When the handler has returned the next *)
(* Read is started, whatever the handler did: reading does not change.     *)
MessageFrom(c) == Handles /\ c \in reading /\ c \notin hungUp \cup finished

IsRegistered(c) == iterator[c] # NoAccount

(* A message that was handled without an error. *)
Accepted(c) == silent' = silent \ {c}

(* A message whose handler reports an error ends the connection. *)
Refuse(c) ==
  /\ ForceDisconnect(c)
  /\ UNCHANGED <<instanceId, peers, silent, writePending, queuedEvents, unused,
                 listening, reading, writing, finished, hungUp, seen,
                 transmitted>>

MayRegister(c) == c \notin forceDisconnected /\ ~ IsRegistered(c)

(* Variants for the mutation checks: the connection that is superseded     *)
(* keeps its registration, or its stream.                                  *)
TakeAccount_KeepOld(c, a) ==
  /\ registeredAgents' = [registeredAgents EXCEPT ![a] = c]
  /\ iterator' = [iterator EXCEPT ![c] = a]
  /\ IF registeredAgents[a] = NoConn
     THEN UNCHANGED <<forceDisconnected, finishing>>
     ELSE FinishStream(registeredAgents[a])

TakeAccount_KeepStream(c, a) ==
  /\ registeredAgents' = [registeredAgents EXCEPT ![a] = c]
  /\ iterator' = [d \in Conns |-> IF d = c THEN a
                                  ELSE IF d = registeredAgents[a] THEN NoAccount
                                  ELSE iterator[d]]
  /\ UNCHANGED <<forceDisconnected, finishing>>

(* The account's entry now leads to c. A connection that held it before    *)
(* loses its entry and is disconnected.                                    *)
TakeAccount(c, a) ==
  LET old == registeredAgents[a] IN
    /\ registeredAgents' = [registeredAgents EXCEPT ![a] = c]
    /\ iterator' = [d \in Conns |-> IF d = c THEN a
                                    ELSE IF d = old THEN NoAccount
                                    ELSE iterator[d]]
    /\ IF old = NoConn THEN UNCHANGED <<forceDisconnected, finishing>>
                       ELSE FinishStream(old)

IsTaken(a) == registeredAgents[a] # NoConn /\ registeredAgents[a] \notin silent

HandleRegisterSelf(c, id, a) ==
  /\ MessageFrom(c)
  /\ MayRegister(c)
  /\ ~ IsTaken(a)
  /\ TakeAccount(c, a)
  /\ instanceId' = [instanceId EXCEPT ![c] = id]
  /\ Accepted(c)
  /\ UNCHANGED <<peers, writePending, queuedEvents, unused, listening, reading,
                 writing, finished, hungUp, seen, transmitted>>

RefuseRegisterSelf(c, a) ==
  /\ MessageFrom(c)
  /\ ~ MayRegister(c) \/ IsTaken(a)
  /\ Refuse(c)

(* Any of the other messages before RegisterSelf, or a malformed one. *)
RefuseUnregistered(c) ==
  /\ MessageFrom(c)
  /\ ~ IsRegistered(c)
  /\ Refuse(c)

RefuseMalformed(c) == MessageFrom(c) /\ Refuse(c)

(* A well-formed message from a registered connection that only touches    *)
(* the registry.                                                           *)
RegisteredMessage(c) ==
  /\ MessageFrom(c)
  /\ IsRegistered(c)
  /\ Accepted(c)
  /\ UNCHANGED <<registeredAgents, iterator, forceDisconnected, streams>>

HandleSetSelfId(c, id) ==
  /\ RegisteredMessage(c)
  /\ instanceId' = [instanceId EXCEPT ![c] = id]
  /\ UNCHANGED <<peers, writePending, queuedEvents, seen, transmitted>>

HandleAddPeer(c, id, a) ==
  /\ RegisteredMessage(c)
  /\ peers' = [peers EXCEPT ![c][a] = id]
  /\ UNCHANGED <<instanceId, writePending, queuedEvents, seen, transmitted>>

(* The first peer with that instance id, in the order of the names. *)
PeersWithId(c, id) == {a \in Accounts : peers[c][a] = id}

HandleRemovePeer(c, id) ==
  /\ RegisteredMessage(c)
  /\ peers' = IF PeersWithId(c, id) = {} THEN peers
              ELSE [peers EXCEPT ![c][Min(PeersWithId(c, id))] = NoId]
  /\ UNCHANGED <<instanceId, writePending, queuedEvents, seen, transmitted>>

(* SendEventToClient, for each connection of R: the event is written, or   *)
(* queued behind the write that is outstanding.                            *)
SendEventToClient(R, e) ==
  /\ writing' = [d \in Conns |-> IF d \in R \ writePending THEN e ELSE writing[d]]
  /\ queuedEvents' = [d \in Conns |-> IF d \in R \cap writePending
                                      THEN Append(queuedEvents[d], e)
                                      ELSE queuedEvents[d]]
  /\ writePending' = writePending \cup R

(* The peers of c that are registered under the id c knows them by. *)
Recipients(c) ==
  {registeredAgents[a] : a \in {b \in Accounts :
     /\ peers[c][b] # NoId
     /\ registeredAgents[b] # NoConn
     /\ instanceId[registeredAgents[b]] = peers[c][b]}}

HandleCombatEvent(c, e) ==
  /\ MessageFrom(c)
  /\ IsRegistered(c)
  /\ e \notin seen
  /\ seen' = seen \cup {e}
  /\ SendEventToClient(Recipients(c), e)
  /\ Accepted(c)
  /\ UNCHANGED <<registeredAgents, iterator, instanceId, peers,
                 forceDisconnected, unused, listening, reading, finishing,
                 finished, hungUp, transmitted>>

(* A message of a type the server does not know changes nothing, it does   *)
(* not count as a call either.                                             *)
IgnoreUnknownType(c) ==
  /\ MessageFrom(c)
  /\ UNCHANGED <<registry, frontend, streams, seen, transmitted>>

ReadFails(c) ==
  /\ Handles
  /\ c \in reading
  /\ c \in hungUp \cup finished
  /\ reading' = reading \ {c}
  /\ ForceDisconnect(c)
  /\ UNCHANGED <<instanceId, peers, silent, writePending, queuedEvents, unused,
                 listening, writing, finished, hungUp, seen, transmitted>>

(* Variant for the mutation checks: a read that is drained is deleted like *)
(* the other operations.                                                   *)
ReadDrained_JustDelete(c) ==
  /\ Drains
  /\ c \in reading
  /\ reading' = reading \ {c}
  /\ UNCHANGED <<registry, frontend, alarm, unused, listening, writing,
                 finishing, finished, hungUp, seen, transmitted>>

ReadDrained(c) ==
  /\ Drains
  /\ c \in reading
  /\ reading' = reading \ {c}
  /\ ForceDisconnect(c)
  /\ UNCHANGED <<instanceId, peers, silent, writePending, queuedEvents, alarm,
                 unused, listening, writing, finished, hungUp, seen,
                 transmitted>>
-----------------------------------------------------------------------------
(* A Write completes. The next queued event is written with the same tag.  *)
Transmitted(c) ==
  transmitted' = [transmitted EXCEPT ![c] = Append(@, writing[c])]

(* Variants for the mutation checks: the event is not popped; the queue is *)
(* left when one write has completed; the flag is not reset.               *)
HandleWriteEvent_KeepHead(c) ==
  /\ Handles
  /\ writing[c] # NoEvent
  /\ c \notin finished
  /\ Transmitted(c)
  /\ IF queuedEvents[c] # <<>>
     THEN /\ writing' = [writing EXCEPT ![c] = Head(queuedEvents[c])]
          /\ UNCHANGED writePending
     ELSE /\ writing' = [writing EXCEPT ![c] = NoEvent]
          /\ writePending' = writePending \ {c}
  /\ UNCHANGED <<registry, queuedEvents, forceDisconnected, unused, listening,
                 reading, finishing, finished, hungUp, seen>>

WriteCompletesAlone(c) ==
  /\ Handles
  /\ writing[c] # NoEvent
  /\ c \notin finished
  /\ Transmitted(c)
  /\ writing' = [writing EXCEPT ![c] = NoEvent]
  /\ UNCHANGED <<registry, queuedEvents, forceDisconnected, unused, listening,
                 reading, finishing, finished, hungUp, seen>>

HandleWriteEvent_LeaveQueue(c) ==
  WriteCompletesAlone(c) /\ writePending' = writePending \ {c}

HandleWriteEvent_KeepFlag(c) == WriteCompletesAlone(c) /\ UNCHANGED writePending

HandleWriteEvent(c) ==
  /\ Handles
  /\ writing[c] # NoEvent
  /\ c \notin finished
  /\ Transmitted(c)
  /\ IF queuedEvents[c] # <<>>
     THEN /\ writing' = [writing EXCEPT ![c] = Head(queuedEvents[c])]
          /\ queuedEvents' = [queuedEvents EXCEPT ![c] = Tail(@)]
          /\ UNCHANGED writePending
     ELSE /\ writing' = [writing EXCEPT ![c] = NoEvent]
          /\ writePending' = writePending \ {c}
          /\ UNCHANGED queuedEvents
  /\ UNCHANGED <<registry, forceDisconnected, unused, listening, reading,
                 finishing, finished, hungUp, seen>>

(* The tag of a write that failed is deleted and WritePending stays set:   *)
(* nothing is written to this connection any more.                         *)
WriteFails(c) ==
  /\ Handles
  /\ writing[c] # NoEvent
  /\ c \in hungUp \cup finishing \cup finished
  /\ writing' = [writing EXCEPT ![c] = NoEvent]
  /\ UNCHANGED <<registry, frontend, unused, listening, reading, finishing,
                 finished, hungUp, seen, transmitted>>

WriteDrained(c) ==
  /\ Drains
  /\ writing[c] # NoEvent
  /\ writing' = [writing EXCEPT ![c] = NoEvent]
  /\ \/ Transmitted(c)
     \/ UNCHANGED transmitted
  /\ UNCHANGED <<registry, frontend, alarm, unused, listening, reading,
                 finishing, finished, hungUp, seen>>

FinishCompletes(c) ==
  /\ Handles \/ (Drains /\ UNCHANGED alarm)
  /\ c \in finishing
  /\ finishing' = finishing \ {c}
  /\ finished' = finished \cup {c}
  /\ UNCHANGED <<registry, frontend, unused, listening, reading, writing,
                 hungUp, seen, transmitted>>
-----------------------------------------------------------------------------
(* Operations that will still come out of the completion queue. *)
Outstanding ==
  \/ listening # NoConn
  \/ reading # {}
  \/ finishing # {}
  \/ alarm = "set"
  \/ \E c \in Conns : writing[c] # NoEvent

(* Variant for the mutation checks: Serve is not woken.                    *)
Shutdown_NoAlarm ==
  /\ Running
  /\ shutdownState = "Online"
  /\ shutdownState' = "ShouldShutdown"
  /\ alarm' = "done"
  /\ UNCHANGED <<registry, frontend, returned, streams, seen, transmitted>>

(* Shutdown, from the signal handler: the state, then an alarm that wakes  *)
(* Serve. If Serve has taken another completion in between, the queue may  *)
(* have been drained by now, and gRPC aborts the program for an alarm set  *)
(* on such a queue.                                                        *)
Shutdown ==
  /\ Running
  /\ shutdownState = "Online"
  /\ shutdownState' = "ShouldShutdown"
  /\ alarm' = "due"
  /\ UNCHANGED <<registry, frontend, returned, streams, seen, transmitted>>

SetAlarm ==
  /\ alarm = "due"
  /\ alarm' = IF shutdownState = "ShuttingDown" /\ ~ Outstanding
              THEN "aborted" ELSE "set"
  /\ UNCHANGED <<registry, frontend, shutdownState, returned, streams, seen,
                 transmitted>>

WakeUp ==
  /\ Drains
  /\ alarm = "set"
  /\ alarm' = "done"
  /\ UNCHANGED <<registry, frontend, streams, seen, transmitted>>

(* Next of the completion queue has nothing left to return, so Serve       *)
(* returns and main destroys the frontend and the server.                  *)
ServeReturns ==
  /\ Running
  /\ shutdownState = "ShuttingDown"
  /\ ~ Outstanding
  /\ returned' = TRUE
  /\ UNCHANGED <<registry, frontend, shutdownState, alarm, streams, seen,
                 transmitted>>

(* The client's end, and time: LastCallTime starts at the clock's epoch,   *)
(* and its age matters for connections that are registered.                *)
HangUp(c) ==
  /\ Running
  /\ c \in reading \ hungUp
  /\ hungUp' = hungUp \cup {c}
  /\ UNCHANGED <<registry, frontend, process, unused, listening, reading,
                 writing, finishing, finished, seen, transmitted>>

FallSilent(c) ==
  /\ Running
  /\ c \in Registered \ silent
  /\ silent' = silent \cup {c}
  /\ UNCHANGED <<registeredAgents, iterator, instanceId, peers, frontend,
                 process, streams, seen, transmitted>>

Stopped == (returned /\ alarm # "due") \/ alarm = "aborted"

Done == Stopped /\ UNCHANGED vars
-----------------------------------------------------------------------------
Receives(c) ==
  \/ \E id \in SelfIds[c] : \/ HandleRegisterSelf(c, id, AccountOf[c])
                             \/ HandleSetSelfId(c, id)
  \/ RefuseRegisterSelf(c, AccountOf[c])
  \/ \E p \in PeersOf[c] : \/ HandleAddPeer(c, p[2], p[1])
                           \/ HandleRemovePeer(c, p[2])
  \/ \E e \in Events : HandleCombatEvent(c, e)
  \/ RefuseUnregistered(c) \/ RefuseMalformed(c) \/ IgnoreUnknownType(c)

Completes(c) ==
  \/ ReadFails(c) \/ ReadDrained(c) \/ ConnectDropped(c)
  \/ HandleWriteEvent(c) \/ WriteFails(c) \/ WriteDrained(c)
  \/ FinishCompletes(c)

Next ==
  \/ \E c \in Conns : \/ HandleConnect(c) \/ Receives(c) \/ Completes(c)
                      \/ HangUp(c) \/ FallSilent(c)
  \/ Shutdown \/ SetAlarm \/ WakeUp \/ ServeReturns
  \/ Done

(* gRPC completes what was started, Serve keeps taking completions, and a  *)
(* signal handler that has begun ends. Clients owe nothing: a Read or a    *)
(* RequestConnect need not complete before the stream, or the gRPC server, *)
(* is shut down, which Serve does with the first completion it gets after  *)
(* Shutdown.                                                               *)
Cancelled == shutdownState = "ShuttingDown"
Broken(c) == Cancelled \/ c \in hungUp \cup finished

Fairness ==
  /\ \A c \in Conns : WF_vars(ReadFails(c) \/ (Broken(c) /\ ReadDrained(c)))
  /\ \A c \in Conns : WF_vars(Cancelled /\ ConnectDropped(c))
  /\ \A c \in Conns : WF_vars(HandleWriteEvent(c) \/ WriteFails(c)
                                                  \/ WriteDrained(c))
  /\ \A c \in Conns : WF_vars(FinishCompletes(c))
  /\ WF_vars(SetAlarm)
  /\ WF_vars(WakeUp)
  /\ WF_vars(ServeReturns)

Spec     == Init /\ [][Next]_vars
FairSpec == Spec /\ Fairness
-----------------------------------------------------------------------------
TypeOK ==
  /\ registeredAgents \in [Accounts -> Conns \cup {NoConn}]
  /\ iterator \in [Conns -> Accounts \cup {NoAccount}]
  /\ instanceId \in [Conns -> Ids \cup {NoId}]
  /\ peers \in [Conns -> [Accounts -> Ids \cup {NoId}]]
  /\ silent \subseteq Conns
  /\ forceDisconnected \subseteq Conns
  /\ writePending \subseteq Conns
  /\ queuedEvents \in [Conns -> Seq(Events)]
  /\ shutdownState \in {"Online", "ShouldShutdown", "ShuttingDown"}
  /\ returned \in BOOLEAN
  /\ alarm \in {"off", "due", "set", "done", "aborted"}
  /\ unused \subseteq Conns
  /\ listening \in Conns \cup {NoConn}
  /\ reading \subseteq Conns
  /\ writing \in [Conns -> Events \cup {NoEvent}]
  /\ finishing \subseteq Conns
  /\ finished \subseteq Conns
  /\ hungUp \subseteq Conns
  /\ seen \subseteq Events
  /\ transmitted \in [Conns -> Seq(Events)]

(* The table and the iterators the connections keep into it agree: an      *)
(* iterator that led to another connection's entry, or to none, would be   *)
(* erased with the wrong entry or twice.                                   *)
RegistryConsistent ==
  \A a \in Accounts, c \in Conns : registeredAgents[a] = c <=> iterator[c] = a

(* A registered connection has not been disconnected, and a Read is        *)
(* outstanding on it: that Read is what takes the entry out when the       *)
(* client is gone.                                                         *)
RegisteredIsAlive ==
  \A c \in Registered : c \notin forceDisconnected /\ c \in reading

(* A client that has registered is registered still, or it has been        *)
(* disconnected: it never keeps a stream on which it believes to be        *)
(* registered and is not.                                                  *)
NobodyForgotten ==
  \A c \in Conns :
    instanceId[c] # NoId /\ ~ IsRegistered(c) => c \in forceDisconnected

(* The assert of the server's destructor (Server.cpp line 24): when Serve  *)
(* has returned, every entry has been taken out.                           *)
TableEmptyAtEnd == returned => Registered = {}

(* WritePending says whether a Write is outstanding, as long as the        *)
(* connection is alive, and events are only queued behind a Write; a write *)
(* that completes finds the flag set (assert at line 314 of the frontend). *)
WriteInProgress ==
  \A c \in Conns :
    /\ writing[c] # NoEvent => c \in writePending
    /\ queuedEvents[c] # <<>> => c \in writePending
    /\ c \in writePending => \/ writing[c] # NoEvent
                             \/ c \in hungUp \cup forceDisconnected
                             \/ shutdownState = "ShuttingDown"

(* No operation is started once the completion queue has been shut down,   *)
(* a stream is finished once, and a Write is not started while another one *)
(* is outstanding: gRPC aborts the program for any of these.               *)
LegalStep ==
  /\ \A c \in Conns : writing[c] # NoEvent /\ writing'[c] # writing[c] =>
       writing'[c] = NoEvent \/ transmitted'[c] # transmitted[c]
  /\ \A c \in finishing' \ finishing : c \notin finished
  /\ shutdownState' = "ShuttingDown" =>
       /\ finishing' \subseteq finishing
       /\ reading' \subseteq reading
       /\ listening' \in {listening, NoConn}
       /\ \A c \in Conns : writing'[c] \in {writing[c], NoEvent}

OperationsAreLegal == [][LegalStep]_vars

(* A client that is gone, or that was disconnected, leaves nothing behind: *)
(* no entry in the table and no operation that keeps its context alive.    *)
LeavesNothing(c) ==
  /\ c \notin Registered \cup reading \cup finishing
  /\ writing[c] = NoEvent

ConnectionsEnd ==
  \A c \in Conns : c \in hungUp \cup forceDisconnected
                     ~> LeavesNothing(c) \/ alarm = "aborted"

(* After Shutdown, Serve returns, unless the alarm aborts the program (see *)
(* SetAlarm).                                                              *)
ShutdownEnds == shutdownState # "Online" ~> returned \/ alarm = "aborted"

(* An event that was accepted for a connection is sent to it while the     *)
(* client is there: no completion leaves the queue standing.               *)
OnItsWay(c, e) ==
  writing[c] = e \/ \E i \in DOMAIN queuedEvents[c] : queuedEvents[c][i] = e

EventsArrive ==
  \A c \in Conns, e \in Events :
    OnItsWay(c, e) ~> \/ \E i \in DOMAIN transmitted[c] : transmitted[c][i] = e
                      \/ c \in hungUp \cup forceDisconnected
                      \/ shutdownState # "Online"
-----------------------------------------------------------------------------
(* The inductive invariant behind the safety properties. Bookkeeping: only *)
(* a connection that was disconnected is finished, and a Serve that has    *)
(* returned has seen the end of every Read.                                *)
Bookkeeping ==
  /\ finishing \cup finished \subseteq forceDisconnected
  /\ returned => reading = {}

IInv ==
  /\ TypeOK
  /\ RegistryConsistent
  /\ RegisteredIsAlive
  /\ NobodyForgotten
  /\ WriteInProgress
  /\ Bookkeeping
-----------------------------------------------------------------------------
(* The refinement: what is on its way to a client is the event being       *)
(* written and those queued behind it. Nothing is after a write has failed.*)
InboxOf(c) ==
  IF writing[c] = NoEvent THEN <<>> ELSE <<writing[c]>> \o queuedEvents[c]

Relay == INSTANCE EventRelay WITH
  holder   <- registeredAgents,
  ended    <- forceDisconnected,
  closing  <- shutdownState # "Online",
  inbox    <- [c \in Conns |-> InboxOf(c)],
  received <- transmitted

(* The server behaves like the abstract EventRelay. *)
ImplementsEventRelay == Relay!Init /\ [][Relay!Next]_(Relay!vars)

=============================================================================
