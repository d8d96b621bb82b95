------------------------ MODULE RpcServerRefinement ------------------------
(***************************************************************************)
(* RpcServer implements EventRelay, for any number of connections,         *)
(* accounts, ids and events.                                               *)
(*                                                                         *)
(* The map to the abstract state leaves out the streams, the flags and the *)
(* ids. The lemmas go through the operations of the server and name the    *)
(* step of the relay that each of them is. What makes the map hold is      *)
(* proved in RpcServerProofs: that the table and the iterators agree (so   *)
(* the entry a connection erases is its own), and that the flag, the Write *)
(* and the queue agree (so an event that is written at once overtakes no   *)
(* other).                                                                 *)
(***************************************************************************)
EXTENDS RpcServerProofs

USE ConstantsAssumption

Inboxes == [c \in Conns |-> InboxOf(c)]

(* The state of the relay that a state of the server stands for. *)
Relayed == <<registeredAgents, forceDisconnected, hungUp,
             shutdownState # "Online", Inboxes, transmitted>>

LEMMA RelayedIsVars == Relayed = Relay!vars /\ Relayed' = Relay!vars'
  BY DEF Relayed, Relay!vars, Inboxes

-----------------------------------------------------------------------------
(* An event with a queue behind it. *)
LEMMA EventThenQueue ==
  ASSUME NEW w \in Events, NEW q \in Seq(Events)
  PROVE  <<w>> \o q # <<>> /\ Head(<<w>> \o q) = w /\ Tail(<<w>> \o q) = q
<1>1. <<w>> \o q # <<>>
  <2>1. Len(<<w>> \o q) = Len(q) + 1
    OBVIOUS
  <2> QED BY <2>1
<1>2. Head(<<w>> \o q) = w
  OBVIOUS
<1>3. Tail(<<w>> \o q) = q
  OBVIOUS
<1> QED BY <1>1, <1>2, <1>3

LEMMA QueueGrows ==
  ASSUME NEW w \in Events, NEW q \in Seq(Events), NEW e \in Events
  PROVE  Append(<<w>> \o q, e) = <<w>> \o Append(q, e)
  OBVIOUS

LEMMA QueueFromHead ==
  ASSUME NEW q \in Seq(Events), q # <<>>
  PROVE  /\ Head(q) \in Events
         /\ Tail(q) \in Seq(Events)
         /\ q = <<Head(q)>> \o Tail(q)
  OBVIOUS

(* What is on its way to one connection. *)
LEMMA InboxCases ==
  ASSUME TypeOK, NEW c \in Conns
  PROVE  /\ Inboxes[c] = InboxOf(c)
         /\ writing[c] = NoEvent => InboxOf(c) = <<>>
         /\ writing[c] # NoEvent =>
              /\ writing[c] \in Events
              /\ queuedEvents[c] \in Seq(Events)
              /\ InboxOf(c) = <<writing[c]>> \o queuedEvents[c]
              /\ InboxOf(c) # <<>>
              /\ Head(InboxOf(c)) = writing[c]
              /\ Tail(InboxOf(c)) = queuedEvents[c]
<1> USE DEF TypeOK
<1>1. Inboxes[c] = InboxOf(c)
  BY DEF Inboxes
<1>2. writing[c] = NoEvent => InboxOf(c) = <<>>
  BY DEF InboxOf
<1>3. ASSUME writing[c] # NoEvent
      PROVE  /\ writing[c] \in Events
             /\ queuedEvents[c] \in Seq(Events)
             /\ InboxOf(c) = <<writing[c]>> \o queuedEvents[c]
  BY <1>3 DEF InboxOf
<1>4. ASSUME writing[c] # NoEvent
      PROVE  /\ InboxOf(c) # <<>>
             /\ Head(InboxOf(c)) = writing[c]
             /\ Tail(InboxOf(c)) = queuedEvents[c]
  BY <1>3, <1>4, EventThenQueue
<1> QED BY <1>1, <1>2, <1>3, <1>4

LEMMA InboxesStay ==
  ASSUME UNCHANGED <<writing, queuedEvents>>
  PROVE  Inboxes' = Inboxes
  BY DEF Inboxes, InboxOf

-----------------------------------------------------------------------------
(* A step that is none of the relay's. *)
LEMMA UnseenStep ==
  ASSUME UNCHANGED <<registeredAgents, forceDisconnected, hungUp, writing,
                     queuedEvents, transmitted>>,
         shutdownState' # "Online" <=> shutdownState # "Online"
  PROVE  UNCHANGED Relay!vars
<1>1. UNCHANGED Relayed
  BY InboxesStay DEF Relayed
<1> QED BY <1>1, RelayedIsVars

(* A registration is a Join, or a TakeOver when another connection held    *)
(* the account.                                                            *)
LEMMA RegistrationIsJoin ==
  ASSUME IInv, NEW c \in Conns, NEW id \in SelfIds[c],
         HandleRegisterSelf(c, id, AccountOf[c])
  PROVE  Relay!Join(c, AccountOf[c]) \/ Relay!TakeOver(c, AccountOf[c])
<1> DEFINE a == AccountOf[c]
<1>1. a \in Accounts
  OBVIOUS
<1>2. /\ c \notin forceDisconnected
      /\ iterator[c] = NoAccount
      /\ TakeAccount(c, a)
      /\ UNCHANGED <<hungUp, shutdownState, writing, queuedEvents,
                     transmitted>>
  BY DEF HandleRegisterSelf, MayRegister, IsRegistered, MessageFrom, Handles,
         process
<1>3. c \notin Relay!Holders
  BY <1>2 DEF Relay!Holders, IInv, RegistryConsistent
<1>4. registeredAgents' = [registeredAgents EXCEPT ![a] = c]
  BY <1>2 DEF TakeAccount
<1>5. Inboxes' = Inboxes
  BY <1>2, InboxesStay
<1> HIDE DEF a
<1>6. CASE registeredAgents[a] = NoConn
  <2>1. forceDisconnected' = forceDisconnected
    BY <1>2, <1>6 DEF TakeAccount
  <2> QED BY <1>2, <1>3, <1>4, <1>5, <1>6, <2>1 DEF Relay!Join, Inboxes, a
<1>7. CASE registeredAgents[a] # NoConn
  <2>1. forceDisconnected' = forceDisconnected \cup {registeredAgents[a]}
    BY <1>2, <1>7 DEF TakeAccount, FinishStream
  <2> QED BY <1>2, <1>3, <1>4, <1>5, <1>7, <2>1 DEF Relay!TakeOver, Inboxes, a
<1> QED BY <1>6, <1>7

(* A connection that is disconnected leaves: the entry its iterator leads  *)
(* to is the only one it has.                                              *)
LEMMA DisconnectIsLeave ==
  ASSUME IInv, NEW c \in Conns, ForceDisconnect(c),
         shutdownState' # "Online" <=> shutdownState # "Online",
         UNCHANGED <<hungUp, writing, queuedEvents, transmitted>>
  PROVE  Relay!Leave(c)
<1>1. registeredAgents' =
        [a \in Accounts |->
           IF registeredAgents[a] = c THEN NoConn ELSE registeredAgents[a]]
  BY DEF ForceDisconnect, IInv, RegistryConsistent
<1>2. forceDisconnected' = forceDisconnected \cup {c}
  BY DEF ForceDisconnect, FinishStream
<1>3. Inboxes' = Inboxes
  BY InboxesStay
<1> QED BY <1>1, <1>2, <1>3 DEF Relay!Leave, Inboxes

(* A combat event is relayed to those recipients that can still be written *)
(* to. WriteInProgress is what makes the inbox of a recipient without a    *)
(* Write empty, so that the event goes to the end of it in either case.    *)
LEMMA EventIsRelayed ==
  ASSUME IInv, NEW c \in Conns, NEW e \in Events, HandleCombatEvent(c, e)
  PROVE  Relay!Relay(c, e)
<1> USE DEF IInv, TypeOK
<1> DEFINE R == Recipients(c)
           audience ==
             {d \in R : d \notin writePending \/ writing[d] # NoEvent}
<1>1. /\ SendEventToClient(R, e)
      /\ iterator[c] # NoAccount
      /\ UNCHANGED <<registeredAgents, forceDisconnected, hungUp,
                     shutdownState, transmitted>>
  BY DEF HandleCombatEvent, IsRegistered, MessageFrom, Handles, process
<1>2. c \in Relay!Holders
  BY <1>1 DEF Relay!Holders, RegistryConsistent
<1>3. audience \in SUBSET Relay!Holders
  BY DEF Recipients, Relay!Holders
<1> HIDE DEF R
<1>4. ASSUME NEW d \in Conns
      PROVE  Inboxes'[d] = IF d \in audience THEN Append(Inboxes[d], e)
                                             ELSE Inboxes[d]
  <2>1. /\ Inboxes[d] = InboxOf(d)
        /\ Inboxes'[d] = IF writing'[d] = NoEvent THEN <<>>
                         ELSE <<writing'[d]>> \o queuedEvents'[d]
    BY DEF Inboxes, InboxOf
  <2>2. /\ writing'[d] = IF d \in R \ writePending THEN e ELSE writing[d]
        /\ queuedEvents'[d] = IF d \in R \cap writePending
                              THEN Append(queuedEvents[d], e)
                              ELSE queuedEvents[d]
    BY <1>1 DEF SendEventToClient
  <2>3. queuedEvents[d] \in Seq(Events) /\ e # NoEvent
    OBVIOUS
  <2>4. CASE d \in R \ writePending
    <3>1. writing[d] = NoEvent /\ queuedEvents[d] = <<>>
      BY <2>4 DEF WriteInProgress
    <3>2. Inboxes[d] = <<>>
      BY <2>1, <3>1 DEF InboxOf
    <3>3. Inboxes'[d] = <<e>> \o <<>>
      BY <2>1, <2>2, <2>3, <2>4, <3>1
    <3>4. Append(<<>>, e) = <<e>> /\ <<e>> \o <<>> = <<e>>
      OBVIOUS
    <3> QED BY <2>4, <3>2, <3>3, <3>4
  <2>5. CASE d \in R /\ d \in writePending /\ writing[d] # NoEvent
    <3>1. Inboxes[d] = <<writing[d]>> \o queuedEvents[d]
      BY <2>1, <2>5, InboxCases
    <3>2. Inboxes'[d] = <<writing[d]>> \o Append(queuedEvents[d], e)
      BY <2>1, <2>2, <2>5
    <3>3. writing[d] \in Events
      BY <2>5
    <3>4. Append(<<writing[d]>> \o queuedEvents[d], e)
            = <<writing[d]>> \o Append(queuedEvents[d], e)
      <4>1. queuedEvents[d] \in Seq(Events)
        OBVIOUS
      <4> HIDE DEF IInv, TypeOK
      <4> QED BY <3>3, <4>1, QueueGrows
    <3> QED BY <2>5, <3>1, <3>2, <3>4
  <2>6. CASE d \in R /\ d \in writePending /\ writing[d] = NoEvent
    BY <2>1, <2>2, <2>6 DEF InboxOf
  <2>7. CASE d \notin R
    BY <2>1, <2>2, <2>7 DEF InboxOf
  <2> QED BY <2>4, <2>5, <2>6, <2>7
<1> HIDE DEF audience
<1>5. Inboxes' = [d \in Conns |-> IF d \in audience THEN Append(Inboxes[d], e)
                                                    ELSE Inboxes[d]]
  <2>1. Inboxes' = [d \in Conns |-> Inboxes'[d]]
    BY DEF Inboxes
  <2> QED BY <1>4, <2>1
<1> QED BY <1>1, <1>2, <1>3, <1>5 DEF Relay!Relay, Inboxes

-----------------------------------------------------------------------------
(* The inbox of one connection changes when its Write is over. *)
LEMMA InboxOfOne ==
  ASSUME TypeOK, NEW c \in Conns, NEW w \in Events \cup {NoEvent},
         writing' = [writing EXCEPT ![c] = w],
         \A d \in Conns \ {c} : queuedEvents'[d] = queuedEvents[d]
  PROVE  Inboxes' = [Inboxes EXCEPT ![c] =
                       IF w = NoEvent THEN <<>> ELSE <<w>> \o queuedEvents'[c]]
<1> USE DEF TypeOK
<1>1. writing'[c] = w /\ \A d \in Conns \ {c} : writing'[d] = writing[d]
  OBVIOUS
<1> QED BY <1>1 DEF Inboxes, InboxOf

(* A Write that has completed: the client receives its next event.         *)
LEMMA CompletionIsReceive ==
  ASSUME IInv, NEW c \in Conns, HandleWriteEvent(c)
  PROVE  Relay!Receive(c)
<1> USE DEF IInv, TypeOK
<1>1. /\ writing[c] # NoEvent
      /\ UNCHANGED <<registeredAgents, forceDisconnected, hungUp,
                     shutdownState>>
      /\ transmitted' =
           [transmitted EXCEPT ![c] = Append(transmitted[c], writing[c])]
  BY DEF HandleWriteEvent, Handles, process, registry, Transmitted
<1>2. /\ Inboxes[c] # <<>>
      /\ Head(Inboxes[c]) = writing[c]
      /\ Tail(Inboxes[c]) = queuedEvents[c]
  BY <1>1, InboxCases
<1>3. Inboxes' = [Inboxes EXCEPT ![c] = queuedEvents[c]]
  <2>1. queuedEvents[c] \in Seq(Events)
    OBVIOUS
  <2>2. CASE queuedEvents[c] # <<>>
    <3>1. /\ Head(queuedEvents[c]) \in Events
          /\ queuedEvents[c] =
               <<Head(queuedEvents[c])>> \o Tail(queuedEvents[c])
      BY <2>1, <2>2, QueueFromHead
    <3>2. /\ writing' = [writing EXCEPT ![c] = Head(queuedEvents[c])]
          /\ queuedEvents' = [queuedEvents EXCEPT ![c] = Tail(queuedEvents[c])]
      BY <2>2 DEF HandleWriteEvent
    <3>3. /\ queuedEvents'[c] = Tail(queuedEvents[c])
          /\ \A d \in Conns \ {c} : queuedEvents'[d] = queuedEvents[d]
      BY <3>2
    <3>4. Head(queuedEvents[c]) # NoEvent
      BY <3>1
    <3> QED BY <3>1, <3>2, <3>3, <3>4, InboxOfOne
  <2>3. CASE queuedEvents[c] = <<>>
    <3>1. /\ writing' = [writing EXCEPT ![c] = NoEvent]
          /\ queuedEvents' = queuedEvents
      BY <2>3 DEF HandleWriteEvent
    <3> QED BY <2>3, <3>1, InboxOfOne
  <2> QED BY <2>2, <2>3
<1> QED BY <1>1, <1>2, <1>3 DEF Relay!Receive, Inboxes

(* A Write that failed: what was on its way to that client is lost. *)
LEMMA FailureIsLose ==
  ASSUME IInv, NEW c \in Conns, WriteFails(c)
  PROVE  Relay!Lose(c)
<1>1. /\ writing' = [writing EXCEPT ![c] = NoEvent]
      /\ c \in hungUp \cup forceDisconnected
      /\ UNCHANGED <<queuedEvents, registeredAgents, forceDisconnected, hungUp,
                     shutdownState, transmitted>>
  BY DEF WriteFails, Handles, process, registry, frontend, IInv, Bookkeeping
<1>2. Inboxes' = [Inboxes EXCEPT ![c] = <<>>]
  BY <1>1, InboxOfOne DEF IInv
<1> QED BY <1>1, <1>2 DEF Relay!Lose, Inboxes

(* A Write that is drained: its event was sent or not, the rest is lost. *)
LEMMA DrainIsLast ==
  ASSUME IInv, NEW c \in Conns, WriteDrained(c)
  PROVE  Relay!Lose(c) \/ Relay!ReceiveLast(c)
<1>1. /\ writing' = [writing EXCEPT ![c] = NoEvent]
      /\ writing[c] # NoEvent
      /\ shutdownState # "Online" /\ shutdownState' # "Online"
      /\ UNCHANGED <<queuedEvents, registeredAgents, forceDisconnected,
                     hungUp>>
  BY DEF WriteDrained, Drains, registry, frontend
<1>2. Inboxes' = [Inboxes EXCEPT ![c] = <<>>]
  BY <1>1, InboxOfOne DEF IInv
<1>3. Inboxes[c] # <<>> /\ Head(Inboxes[c]) = writing[c]
  BY <1>1, InboxCases DEF IInv
<1>4. CASE transmitted' = transmitted
  BY <1>1, <1>2, <1>4 DEF Relay!Lose, Inboxes
<1>5. CASE Transmitted(c)
  BY <1>1, <1>2, <1>3, <1>5 DEF Relay!ReceiveLast, Transmitted, Inboxes
<1> QED BY <1>4, <1>5 DEF WriteDrained

-----------------------------------------------------------------------------
(* Every step of the server is a step of the relay, or none at all. *)
LEMMA StepIsRelay ==
  ASSUME IInv, [Next]_vars
  PROVE  [Relay!Next]_(Relay!vars)
<1>1. CASE UNCHANGED vars
  <2>1. UNCHANGED Relay!vars
    BY <1>1, UnseenStep DEF vars, registry, frontend, process, streams
  <2> QED BY <2>1
<1>2. ASSUME NEW c \in Conns, Receives(c)
      PROVE  Relay!Next \/ UNCHANGED Relay!vars
  <2>1. ASSUME NEW id \in SelfIds[c], HandleRegisterSelf(c, id, AccountOf[c])
        PROVE  Relay!Next
    <3>1. AccountOf[c] \in Accounts
      OBVIOUS
    <3> QED BY <2>1, <3>1, RegistrationIsJoin DEF Relay!Next
  <2>2. ASSUME MessageFrom(c), Refuse(c)
        PROVE  Relay!Next
    <3>1. /\ ForceDisconnect(c)
          /\ UNCHANGED <<hungUp, writing, queuedEvents, transmitted,
                         shutdownState>>
      BY <2>2 DEF Refuse, MessageFrom, Handles, process
    <3>2. Relay!Leave(c)
      BY <3>1, DisconnectIsLeave
    <3> QED BY <3>2 DEF Relay!Next
  <2>3. ASSUME NEW e \in Events, HandleCombatEvent(c, e)
        PROVE  Relay!Next
    <3>1. Relay!Relay(c, e)
      BY <2>3, EventIsRelayed
    <3> QED BY <3>1 DEF Relay!Next
  <2>4. ASSUME \/ \E id \in SelfIds[c] : HandleSetSelfId(c, id)
               \/ \E p \in PeersOf[c] : \/ HandleAddPeer(c, p[2], p[1])
                                        \/ HandleRemovePeer(c, p[2])
               \/ IgnoreUnknownType(c)
        PROVE  UNCHANGED Relay!vars
    BY <2>4, UnseenStep
    DEF HandleSetSelfId, HandleAddPeer, HandleRemovePeer, IgnoreUnknownType,
        RegisteredMessage, MessageFrom, Handles, process, registry, frontend,
        streams
  <2> QED
    BY <1>2, <2>1, <2>2, <2>3, <2>4
    DEF Receives, RefuseRegisterSelf, RefuseUnregistered, RefuseMalformed
<1>3. ASSUME NEW c \in Conns, Completes(c)
      PROVE  Relay!Next \/ UNCHANGED Relay!vars
  <2>1. CASE ReadFails(c) \/ ReadDrained(c)
    <3>1. /\ ForceDisconnect(c)
          /\ shutdownState' # "Online" <=> shutdownState # "Online"
          /\ UNCHANGED <<hungUp, writing, queuedEvents, transmitted>>
      BY <2>1 DEF ReadFails, ReadDrained, Handles, Drains, process
    <3>2. Relay!Leave(c)
      BY <3>1, DisconnectIsLeave
    <3> QED BY <3>2 DEF Relay!Next
  <2>2. CASE ConnectDropped(c)
    BY <2>2, UnseenStep DEF ConnectDropped, Drains, registry, frontend
  <2>3. CASE FinishCompletes(c)
    BY <2>3, UnseenStep DEF FinishCompletes, Handles, Drains, process,
                            registry, frontend
  <2>4. CASE HandleWriteEvent(c)
    BY <2>4, CompletionIsReceive DEF Relay!Next
  <2>5. CASE WriteFails(c)
    BY <2>5, FailureIsLose DEF Relay!Next
  <2>6. CASE WriteDrained(c)
    BY <2>6, DrainIsLast DEF Relay!Next
  <2> QED BY <1>3, <2>1, <2>2, <2>3, <2>4, <2>5, <2>6 DEF Completes
<1>4. ASSUME NEW c \in Conns, HandleConnect(c) \/ FallSilent(c)
      PROVE  UNCHANGED Relay!vars
  BY <1>4, UnseenStep DEF HandleConnect, FallSilent, Handles, registry,
                          frontend, process, streams
<1>5. ASSUME NEW c \in Conns, HangUp(c)
      PROVE  Relay!Next
  <2>1. /\ hungUp' = hungUp \cup {c}
        /\ UNCHANGED <<registeredAgents, forceDisconnected, shutdownState,
                       writing, queuedEvents, transmitted>>
    BY <1>5 DEF HangUp, registry, frontend, process
  <2>2. Inboxes' = Inboxes
    BY <2>1, InboxesStay
  <2>3. Relay!HangUp(c)
    BY <2>1, <2>2 DEF Relay!HangUp, Inboxes
  <2> QED BY <2>3 DEF Relay!Next
<1>6. CASE Shutdown
  <2>1. /\ shutdownState' # "Online"
        /\ UNCHANGED <<registeredAgents, forceDisconnected, hungUp, writing,
                       queuedEvents, transmitted>>
    BY <1>6 DEF Shutdown, registry, frontend, streams
  <2>2. Inboxes' = Inboxes
    BY <2>1, InboxesStay
  <2>3. Relay!Close
    BY <2>1, <2>2 DEF Relay!Close, Inboxes
  <2> QED BY <2>3 DEF Relay!Next
<1>7. CASE SetAlarm \/ WakeUp \/ ServeReturns
  BY <1>7, UnseenStep DEF SetAlarm, WakeUp, ServeReturns, Drains, registry,
                          frontend, streams
<1> QED
  <2>1. CASE Next
    BY <2>1, <1>1, <1>2, <1>3, <1>4, <1>5, <1>6, <1>7 DEF Next, Done
  <2> QED BY <1>1, <2>1

(* The server behaves like the abstract EventRelay: a client receives the  *)
(* events of its peers in the order in which they were relayed, each once, *)
(* and an account is held by one connection.                               *)
THEOREM ServerIsRelay == Spec => ImplementsEventRelay
<1>1. Init => Relay!Init
  <2> SUFFICES ASSUME Init PROVE Relay!Init
    OBVIOUS
  <2>1. \A c \in Conns : InboxOf(c) = <<>>
    BY DEF Init, InboxOf
  <2>2. (shutdownState # "Online") = FALSE
    BY DEF Init
  <2> QED BY <2>1, <2>2 DEF Init, Relay!Init
<1>2. IInv /\ [Next]_vars => [Relay!Next]_(Relay!vars)
  BY StepIsRelay
<1> QED BY <1>1, <1>2, Inductive, PTL DEF Spec, ImplementsEventRelay

=============================================================================
