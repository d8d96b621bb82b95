-------------------------- MODULE RpcServerProofs --------------------------
(***************************************************************************)
(* Proofs about RpcServer, for any number of connections, accounts, ids    *)
(* and events.                                                             *)
(*                                                                         *)
(* RegistryShape sorts the steps by what they do to the registry: one      *)
(* connection is disconnected, one takes an account, one changes its id,   *)
(* or nothing happens to it. The invariants of the registry are proved     *)
(* from that alone.                                                        *)
(***************************************************************************)
EXTENDS RpcServer, TLAPS

USE ConstantsAssumption

(* What ForceDisconnect and TakeAccount write is well typed. *)
LEMMA RegistryTypes ==
  ASSUME TypeOK, NEW c \in Conns
  PROVE  /\ ForceDisconnect(c) =>
              /\ registeredAgents' \in [Accounts -> Conns \cup {NoConn}]
              /\ iterator' \in [Conns -> Accounts \cup {NoAccount}]
              /\ forceDisconnected' \subseteq Conns
              /\ finishing' \subseteq Conns
         /\ TakeAccount(c, AccountOf[c]) =>
              /\ registeredAgents' \in [Accounts -> Conns \cup {NoConn}]
              /\ iterator' \in [Conns -> Accounts \cup {NoAccount}]
              /\ forceDisconnected' \subseteq Conns
              /\ finishing' \subseteq Conns
<1> USE DEF TypeOK
<1>1. ASSUME NEW d \in Conns, FinishStream(d)
      PROVE  forceDisconnected' \subseteq Conns /\ finishing' \subseteq Conns
  BY <1>1 DEF FinishStream
<1>2. ASSUME ForceDisconnect(c)
      PROVE  /\ registeredAgents' \in [Accounts -> Conns \cup {NoConn}]
             /\ iterator' \in [Conns -> Accounts \cup {NoAccount}]
             /\ forceDisconnected' \subseteq Conns
             /\ finishing' \subseteq Conns
  BY <1>1, <1>2 DEF ForceDisconnect
<1>3. ASSUME TakeAccount(c, AccountOf[c])
      PROVE  /\ registeredAgents' \in [Accounts -> Conns \cup {NoConn}]
             /\ iterator' \in [Conns -> Accounts \cup {NoAccount}]
             /\ forceDisconnected' \subseteq Conns
             /\ finishing' \subseteq Conns
  <2>1. AccountOf[c] \in Accounts
    OBVIOUS
  <2> QED BY <1>1, <1>3, <2>1 DEF TakeAccount
<1> QED BY <1>2, <1>3

(* A write that completes extends what its client was sent. *)
LEMMA TransmittedType ==
  ASSUME TypeOK, NEW c \in Conns, writing[c] \in Events, Transmitted(c)
  PROVE  transmitted' \in [Conns -> Seq(Events)]
<1>1. transmitted[c] \in Seq(Events)
  BY DEF TypeOK
<1>2. Append(transmitted[c], writing[c]) \in Seq(Events)
  BY <1>1
<1> QED BY <1>2 DEF TypeOK, Transmitted

(* Every step keeps the types. *)
LEMMA TypeNext ==
  ASSUME TypeOK, [Next]_vars
  PROVE  TypeOK'
<1> USE DEF TypeOK
<1>1. CASE UNCHANGED vars
  BY <1>1 DEF vars, registry, frontend, process, streams
<1>2. ASSUME NEW c \in Conns, Receives(c)
      PROVE  TypeOK'
  <2>1. ASSUME NEW id \in SelfIds[c], HandleRegisterSelf(c, id, AccountOf[c])
        PROVE  TypeOK'
    BY <2>1, RegistryTypes DEF HandleRegisterSelf, MessageFrom, Handles,
                               process, Accepted
  <2>2. ASSUME NEW id \in SelfIds[c], HandleSetSelfId(c, id)
        PROVE  TypeOK'
    BY <2>2 DEF HandleSetSelfId, RegisteredMessage, MessageFrom, Handles,
                process, streams, Accepted
  <2>3. ASSUME MessageFrom(c), Refuse(c)
        PROVE  TypeOK'
    BY <2>3, RegistryTypes DEF Refuse, MessageFrom, Handles, process
  <2>4. ASSUME NEW p \in PeersOf[c],
               HandleAddPeer(c, p[2], p[1]) \/ HandleRemovePeer(c, p[2])
        PROVE  TypeOK'
    <3>1. p[1] \in Accounts /\ p[2] \in Ids
      OBVIOUS
    <3>2. ASSUME NEW a, NEW v \in Ids \cup {NoId}
          PROVE  [peers EXCEPT ![c][a] = v] \in [Conns -> [Accounts -> Ids \cup {NoId}]]
      OBVIOUS
    <3>3. peers' \in [Conns -> [Accounts -> Ids \cup {NoId}]]
      BY <2>4, <3>1, <3>2 DEF HandleAddPeer, HandleRemovePeer
    <3> QED
      BY <2>4, <3>3 DEF HandleAddPeer, HandleRemovePeer, RegisteredMessage,
                        MessageFrom, Handles, process, streams, Accepted
  <2>5. ASSUME NEW e \in Events, HandleCombatEvent(c, e)
        PROVE  TypeOK'
    <3> DEFINE R == Recipients(c)
    <3>1. R \subseteq Conns
      BY DEF Recipients
    <3>2. SendEventToClient(R, e)
      BY <2>5 DEF HandleCombatEvent
    <3>3. queuedEvents' \in [Conns -> Seq(Events)]
      BY <3>2 DEF SendEventToClient
    <3>4. writing' \in [Conns -> Events \cup {NoEvent}] /\ writePending' \subseteq Conns
      BY <3>1, <3>2 DEF SendEventToClient
    <3> QED
      BY <2>5, <3>3, <3>4 DEF HandleCombatEvent, MessageFrom, Handles, process,
                              Accepted
  <2>6. CASE IgnoreUnknownType(c)
    BY <2>6 DEF IgnoreUnknownType, MessageFrom, Handles, process, registry,
                frontend, streams
  <2> QED
    BY <1>2, <2>1, <2>2, <2>3, <2>4, <2>5, <2>6
    DEF Receives, RefuseRegisterSelf, RefuseUnregistered, RefuseMalformed
<1>3. ASSUME NEW c \in Conns, Completes(c)
      PROVE  TypeOK'
  <2>1. CASE ReadFails(c)
    BY <2>1, RegistryTypes DEF ReadFails, Handles, process
  <2>2. CASE ReadDrained(c)
    BY <2>2, RegistryTypes DEF ReadDrained, Drains
  <2>3. CASE ConnectDropped(c)
    BY <2>3 DEF ConnectDropped, Drains, registry, frontend
  <2>4. CASE HandleWriteEvent(c)
    <3>1. writing[c] \in Events
      BY <2>4 DEF HandleWriteEvent
    <3>2. transmitted' \in [Conns -> Seq(Events)]
      BY <2>4, <3>1, TransmittedType DEF HandleWriteEvent
    <3>3. /\ writing' \in [Conns -> Events \cup {NoEvent}]
          /\ queuedEvents' \in [Conns -> Seq(Events)]
          /\ writePending' \subseteq Conns
      <4>1. CASE queuedEvents[c] # <<>>
        <5>1. queuedEvents[c] \in Seq(Events)
          OBVIOUS
        <5>2. Head(queuedEvents[c]) \in Events /\ Tail(queuedEvents[c]) \in Seq(Events)
          BY <4>1, <5>1
        <5>3. /\ writing' = [writing EXCEPT ![c] = Head(queuedEvents[c])]
              /\ queuedEvents' = [queuedEvents EXCEPT ![c] = Tail(queuedEvents[c])]
              /\ writePending' = writePending
          BY <2>4, <4>1 DEF HandleWriteEvent
        <5>4. writing' \in [Conns -> Events \cup {NoEvent}]
          BY <5>2, <5>3
        <5>5. queuedEvents' \in [Conns -> Seq(Events)]
          BY <5>2, <5>3
        <5> QED BY <5>3, <5>4, <5>5
      <4>2. CASE queuedEvents[c] = <<>>
        BY <2>4, <4>2 DEF HandleWriteEvent
      <4> QED BY <4>1, <4>2
    <3> QED
      BY <2>4, <3>2, <3>3 DEF HandleWriteEvent, Handles, process, registry
  <2>5. CASE WriteFails(c)
    BY <2>5 DEF WriteFails, Handles, process, registry, frontend
  <2>6. CASE WriteDrained(c)
    <3>1. writing[c] \in Events
      BY <2>6 DEF WriteDrained
    <3>2. transmitted' \in [Conns -> Seq(Events)]
      BY <2>6, <3>1, TransmittedType DEF WriteDrained
    <3> QED
      BY <2>6, <3>2 DEF WriteDrained, Drains, registry, frontend
  <2>7. CASE FinishCompletes(c)
    BY <2>7 DEF FinishCompletes, Handles, Drains, process, registry, frontend
  <2> QED BY <1>3, <2>1, <2>2, <2>3, <2>4, <2>5, <2>6, <2>7 DEF Completes
<1>4. ASSUME NEW c \in Conns,
             HandleConnect(c) \/ HangUp(c) \/ FallSilent(c)
      PROVE  TypeOK'
  BY <1>4 DEF HandleConnect, HangUp, FallSilent, Handles, registry, frontend,
              process, streams
<1>5. CASE Shutdown \/ SetAlarm \/ WakeUp \/ ServeReturns
  BY <1>5 DEF Shutdown, SetAlarm, WakeUp, ServeReturns, Drains, registry,
              frontend, streams
<1> QED
  <2>1. CASE Next
    BY <2>1, <1>1, <1>2, <1>3, <1>4, <1>5 DEF Next, Done
  <2> QED BY <1>1, <2>1

-----------------------------------------------------------------------------
(* The four kinds of step. *)
Disconnects(c) ==
  /\ ForceDisconnect(c)
  /\ reading \ {c} \subseteq reading'
  /\ UNCHANGED instanceId

Registers(c, id) ==
  /\ MayRegister(c)
  /\ c \in reading
  /\ TakeAccount(c, AccountOf[c])
  /\ instanceId' = [instanceId EXCEPT ![c] = id]
  /\ UNCHANGED reading

Renames(c, id) ==
  /\ IsRegistered(c)
  /\ instanceId' = [instanceId EXCEPT ![c] = id]
  /\ UNCHANGED <<registeredAgents, iterator, forceDisconnected, reading>>

LeavesRegistry ==
  /\ reading \subseteq reading'
  /\ UNCHANGED <<registeredAgents, iterator, forceDisconnected, instanceId>>

(* Every step of the server is of one of the four kinds. *)
LEMMA RegistryShape ==
  ASSUME [Next]_vars
  PROVE  \/ \E c \in Conns : Disconnects(c)
         \/ \E c \in Conns : \E id \in SelfIds[c] : Registers(c, id)
         \/ \E c \in Conns : \E id \in SelfIds[c] : Renames(c, id)
         \/ LeavesRegistry
<1>1. CASE UNCHANGED vars
  BY <1>1 DEF vars, registry, frontend, streams, LeavesRegistry
<1>2. ASSUME NEW c \in Conns, Receives(c)
      PROVE  \/ Disconnects(c)
             \/ \E id \in SelfIds[c] : Registers(c, id) \/ Renames(c, id)
             \/ LeavesRegistry
  <2>1. CASE \E id \in SelfIds[c] : HandleRegisterSelf(c, id, AccountOf[c])
    BY <2>1 DEF HandleRegisterSelf, MessageFrom, Registers
  <2>2. CASE \E id \in SelfIds[c] : HandleSetSelfId(c, id)
    BY <2>2 DEF HandleSetSelfId, RegisteredMessage, Renames, streams
  <2>3. CASE RefuseRegisterSelf(c, AccountOf[c]) \/ RefuseUnregistered(c)
             \/ RefuseMalformed(c)
    BY <2>3 DEF RefuseRegisterSelf, RefuseUnregistered, RefuseMalformed,
                Refuse, Disconnects
  <2>4. CASE \E p \in PeersOf[c] : HandleAddPeer(c, p[2], p[1])
                                   \/ HandleRemovePeer(c, p[2])
    BY <2>4 DEF HandleAddPeer, HandleRemovePeer, RegisteredMessage, streams,
                LeavesRegistry
  <2>5. CASE \E e \in Events : HandleCombatEvent(c, e)
    BY <2>5 DEF HandleCombatEvent, LeavesRegistry
  <2>6. CASE IgnoreUnknownType(c)
    BY <2>6 DEF IgnoreUnknownType, registry, frontend, streams, LeavesRegistry
  <2> QED BY <1>2, <2>1, <2>2, <2>3, <2>4, <2>5, <2>6 DEF Receives
<1>3. ASSUME NEW c \in Conns, Completes(c)
      PROVE  Disconnects(c) \/ LeavesRegistry
  <2>1. CASE ReadFails(c) \/ ReadDrained(c)
    BY <2>1 DEF ReadFails, ReadDrained, Disconnects
  <2>2. CASE ConnectDropped(c) \/ FinishCompletes(c)
    BY <2>2 DEF ConnectDropped, FinishCompletes, registry, frontend,
                LeavesRegistry
  <2>3. CASE HandleWriteEvent(c) \/ WriteFails(c) \/ WriteDrained(c)
    BY <2>3 DEF HandleWriteEvent, WriteFails, WriteDrained, registry, frontend,
                LeavesRegistry
  <2> QED BY <1>3, <2>1, <2>2, <2>3 DEF Completes
<1>4. ASSUME NEW c \in Conns,
             HandleConnect(c) \/ HangUp(c) \/ FallSilent(c)
      PROVE  LeavesRegistry
  BY <1>4 DEF HandleConnect, HangUp, FallSilent, registry, frontend, streams,
              LeavesRegistry
<1>5. CASE Shutdown \/ SetAlarm \/ WakeUp \/ ServeReturns \/ Done
  BY <1>5 DEF Shutdown, SetAlarm, WakeUp, ServeReturns, Done, vars, registry,
              frontend, streams, LeavesRegistry
<1> QED
  <2>1. CASE Next
    BY <2>1, <1>2, <1>3, <1>4, <1>5 DEF Next
  <2> QED BY <1>1, <2>1

-----------------------------------------------------------------------------
(* The table and the iterators stay in agreement. *)
LEMMA RegistryNext ==
  ASSUME TypeOK, RegistryConsistent, [Next]_vars
  PROVE  RegistryConsistent'
<1> USE DEF TypeOK
<1>1. ASSUME NEW c \in Conns, Disconnects(c)
      PROVE  RegistryConsistent'
  <2>1. /\ registeredAgents' = [a \in Accounts |->
               IF iterator[c] = a THEN NoConn ELSE registeredAgents[a]]
        /\ iterator' = [iterator EXCEPT ![c] = NoAccount]
    BY <1>1 DEF Disconnects, ForceDisconnect
  <2> SUFFICES ASSUME NEW a \in Accounts, NEW d \in Conns
               PROVE  registeredAgents'[a] = d <=> iterator'[d] = a
    BY DEF RegistryConsistent
  <2>2. registeredAgents[a] = d <=> iterator[d] = a
    BY DEF RegistryConsistent
  <2>3. registeredAgents[a] = c <=> iterator[c] = a
    BY DEF RegistryConsistent
  <2>4. CASE d = c
    BY <2>1, <2>3, <2>4
  <2>5. CASE d # c
    BY <2>1, <2>2, <2>3, <2>5
  <2> QED BY <2>4, <2>5
<1>2. ASSUME NEW c \in Conns, NEW id \in SelfIds[c], Registers(c, id)
      PROVE  RegistryConsistent'
  <2> DEFINE acc == AccountOf[c]
             old == registeredAgents[acc]
  <2>1. /\ acc \in Accounts
        /\ iterator[c] = NoAccount
        /\ registeredAgents' = [registeredAgents EXCEPT ![acc] = c]
        /\ iterator' = [d \in Conns |-> IF d = c THEN acc
                                        ELSE IF d = old THEN NoAccount
                                        ELSE iterator[d]]
    BY <1>2 DEF Registers, TakeAccount, MayRegister, IsRegistered
  <2> SUFFICES ASSUME NEW a \in Accounts, NEW d \in Conns
               PROVE  registeredAgents'[a] = d <=> iterator'[d] = a
    BY DEF RegistryConsistent
  <2>2. CASE d = c
    BY <2>1, <2>2 DEF RegistryConsistent
  <2>3. CASE d # c
    <3>1. /\ registeredAgents[a] = d <=> iterator[d] = a
          /\ registeredAgents[acc] = d <=> iterator[d] = acc
      BY <2>1 DEF RegistryConsistent
    <3>2. CASE d = old
      BY <2>1, <2>3, <3>1, <3>2
    <3>3. CASE d # old
      BY <2>1, <2>3, <3>1, <3>3
    <3> QED BY <3>2, <3>3
  <2> QED BY <2>2, <2>3
<1>3. CASE LeavesRegistry \/ \E c \in Conns : \E id \in SelfIds[c] : Renames(c, id)
  BY <1>3 DEF LeavesRegistry, Renames, RegistryConsistent
<1> QED BY <1>1, <1>2, <1>3, RegistryShape

(* A registered connection stays alive: it is disconnected, and its Read   *)
(* ends, together with its entry.                                          *)
LEMMA AliveNext ==
  ASSUME TypeOK, RegistryConsistent, RegisteredIsAlive, [Next]_vars
  PROVE  RegisteredIsAlive'
<1> USE DEF TypeOK
<1>0. /\ RegistryConsistent'
      /\ \A b \in Accounts, d \in Conns :
           registeredAgents[b] = d => d \notin forceDisconnected /\ d \in reading
  BY RegistryNext DEF RegisteredIsAlive, Registered
<1> SUFFICES ASSUME NEW a \in Accounts, NEW d \in Conns,
                    registeredAgents'[a] = d
             PROVE  d \notin forceDisconnected' /\ d \in reading'
  <2>1. \A d \in Registered' : d \in Conns /\ \E a \in Accounts : registeredAgents'[a] = d
    <3>1. registeredAgents' \in [Accounts -> Conns \cup {NoConn}]
      BY TypeNext
    <3> QED BY <3>1 DEF Registered
  <2> QED BY <2>1 DEF RegisteredIsAlive
<1>1. ASSUME NEW c \in Conns, Disconnects(c)
      PROVE  d \notin forceDisconnected' /\ d \in reading'
  <2>1. /\ registeredAgents' = [b \in Accounts |->
               IF iterator[c] = b THEN NoConn ELSE registeredAgents[b]]
        /\ forceDisconnected' = forceDisconnected \cup {c}
        /\ reading \ {c} \subseteq reading'
    BY <1>1 DEF Disconnects, ForceDisconnect, FinishStream
  <2>2. registeredAgents[a] = d /\ iterator[c] # a
    BY <2>1
  <2>3. d # c
    BY <2>2 DEF RegistryConsistent
  <2> QED BY <1>0, <2>1, <2>2, <2>3
<1>2. ASSUME NEW c \in Conns, NEW id \in SelfIds[c], Registers(c, id)
      PROVE  d \notin forceDisconnected' /\ d \in reading'
  <2> DEFINE acc == AccountOf[c]
             old == registeredAgents[acc]
  <2>1. /\ acc \in Accounts
        /\ c \in reading /\ c \notin forceDisconnected
        /\ iterator[c] = NoAccount
        /\ registeredAgents' = [registeredAgents EXCEPT ![acc] = c]
        /\ reading' = reading
        /\ forceDisconnected' \subseteq forceDisconnected \cup {old}
        /\ old = NoConn => forceDisconnected' = forceDisconnected
    BY <1>2 DEF Registers, TakeAccount, MayRegister, IsRegistered, FinishStream
  <2>2. CASE a = acc
    <3>1. d = c
      BY <2>1, <2>2
    <3>2. old # c
      <4>1. registeredAgents[acc] = c <=> iterator[c] = acc
        BY <2>1 DEF RegistryConsistent
      <4> QED BY <2>1, <4>1
    <3> QED BY <2>1, <3>1, <3>2
  <2>3. CASE a # acc
    <3>1. registeredAgents[a] = d
      BY <2>1, <2>3
    <3>2. iterator[d] = a
      BY <3>1 DEF RegistryConsistent
    <3>3. old # d
      BY <2>1, <2>3, <3>2 DEF RegistryConsistent
    <3> QED BY <1>0, <2>1, <3>1, <3>3
  <2> QED BY <2>2, <2>3
<1>3. CASE LeavesRegistry \/ \E c \in Conns : \E id \in SelfIds[c] : Renames(c, id)
  BY <1>0, <1>3 DEF LeavesRegistry, Renames
<1> QED BY <1>1, <1>2, <1>3, RegistryShape

(* A connection that is deprived of its entry is disconnected at once.     *)
LEMMA ForgottenNext ==
  ASSUME TypeOK, RegistryConsistent, NobodyForgotten, [Next]_vars
  PROVE  NobodyForgotten'
<1> USE DEF TypeOK
<1> SUFFICES ASSUME NEW d \in Conns,
                    instanceId'[d] # NoId, iterator'[d] = NoAccount
             PROVE  d \in forceDisconnected'
  BY DEF NobodyForgotten, IsRegistered
<1>0. instanceId[d] # NoId /\ iterator[d] = NoAccount => d \in forceDisconnected
  BY DEF NobodyForgotten, IsRegistered
<1>1. ASSUME NEW c \in Conns, Disconnects(c)
      PROVE  d \in forceDisconnected'
  <2>1. /\ iterator' = [iterator EXCEPT ![c] = NoAccount]
        /\ instanceId' = instanceId
        /\ forceDisconnected' = forceDisconnected \cup {c}
    BY <1>1 DEF Disconnects, ForceDisconnect, FinishStream
  <2> QED BY <1>0, <2>1
<1>2. ASSUME NEW c \in Conns, NEW id \in SelfIds[c], Registers(c, id)
      PROVE  d \in forceDisconnected'
  <2> DEFINE acc == AccountOf[c]
             old == registeredAgents[acc]
  <2>1. /\ acc \in Accounts
        /\ iterator' = [e \in Conns |-> IF e = c THEN acc
                                        ELSE IF e = old THEN NoAccount
                                        ELSE iterator[e]]
        /\ instanceId' = [instanceId EXCEPT ![c] = id]
        /\ forceDisconnected' = IF old = NoConn THEN forceDisconnected
                                ELSE forceDisconnected \cup {old}
    BY <1>2 DEF Registers, TakeAccount, FinishStream
  <2>2. d # c
    BY <2>1
  <2>3. CASE d = old
    BY <2>1, <2>3
  <2>4. CASE d # old
    BY <1>0, <2>1, <2>2, <2>4
  <2> QED BY <2>3, <2>4
<1>3. ASSUME NEW c \in Conns, NEW id \in SelfIds[c], Renames(c, id)
      PROVE  d \in forceDisconnected'
  BY <1>0, <1>3 DEF Renames, IsRegistered
<1>4. CASE LeavesRegistry
  BY <1>0, <1>4 DEF LeavesRegistry
<1> QED BY <1>1, <1>2, <1>3, <1>4, RegistryShape

-----------------------------------------------------------------------------
(* Only disconnected connections are finished; Serve returns after the     *)
(* last Read.                                                              *)
LEMMA BookkeepingNext ==
  ASSUME TypeOK, Bookkeeping, [Next]_vars
  PROVE  Bookkeeping'
<1> USE DEF Bookkeeping
<1>1. CASE UNCHANGED vars
  BY <1>1 DEF vars, frontend, process, streams
<1>2. ASSUME NEW d, FinishStream(d)
      PROVE  /\ forceDisconnected \subseteq forceDisconnected'
             /\ finishing' \subseteq finishing \cup forceDisconnected'
  BY <1>2 DEF FinishStream
<1>3. ASSUME NEW c \in Conns, Receives(c)
      PROVE  Bookkeeping'
  <2> DEFINE OnlyDisconnects ==
        /\ ~ returned' /\ finished' = finished
        /\ forceDisconnected \subseteq forceDisconnected'
        /\ finishing' \subseteq finishing \cup forceDisconnected'
  <2>1. OnlyDisconnects
    <3>1. ASSUME NEW id \in SelfIds[c], HandleRegisterSelf(c, id, AccountOf[c])
          PROVE  OnlyDisconnects
      BY <1>2, <3>1 DEF HandleRegisterSelf, MessageFrom, Handles, Running,
                        process, TakeAccount
    <3>2. ASSUME MessageFrom(c), Refuse(c)
          PROVE  OnlyDisconnects
      BY <1>2, <3>2 DEF Refuse, ForceDisconnect, MessageFrom, Handles, Running,
                        process
    <3>3. ASSUME MessageFrom(c),
                 UNCHANGED <<forceDisconnected, finishing, finished>>
          PROVE  OnlyDisconnects
      BY <3>3 DEF MessageFrom, Handles, Running, process
    <3> QED
      BY <1>3, <3>1, <3>2, <3>3
      DEF Receives, RefuseRegisterSelf, RefuseUnregistered, RefuseMalformed,
          HandleSetSelfId, HandleAddPeer, HandleRemovePeer, RegisteredMessage,
          HandleCombatEvent, IgnoreUnknownType, streams, frontend
  <2> QED BY <2>1
<1>4. ASSUME NEW c \in Conns, Completes(c)
      PROVE  Bookkeeping'
  <2>1. CASE ReadFails(c) \/ ReadDrained(c)
    BY <1>2, <2>1 DEF ReadFails, ReadDrained, ForceDisconnect, Handles, Drains,
                      Running, process
  <2>2. CASE ConnectDropped(c)
    BY <2>2 DEF ConnectDropped, Drains, frontend
  <2>3. CASE HandleWriteEvent(c)
    BY <2>3 DEF HandleWriteEvent, Handles, process
  <2>4. CASE WriteFails(c) \/ WriteDrained(c)
    BY <2>4 DEF WriteFails, WriteDrained, Handles, Drains, process, frontend
  <2>5. CASE FinishCompletes(c)
    BY <2>5 DEF FinishCompletes, Handles, Drains, process, frontend
  <2> QED BY <1>4, <2>1, <2>2, <2>3, <2>4, <2>5 DEF Completes
<1>5. ASSUME NEW c \in Conns,
             HandleConnect(c) \/ HangUp(c) \/ FallSilent(c)
      PROVE  Bookkeeping'
  BY <1>5 DEF HandleConnect, HangUp, FallSilent, Handles, Running, frontend,
              process, streams
<1>6. CASE Shutdown \/ SetAlarm \/ WakeUp \/ ServeReturns
  BY <1>6 DEF Shutdown, SetAlarm, WakeUp, ServeReturns, Drains, Outstanding,
              frontend, streams
<1> QED
  <2>1. CASE Next
    BY <2>1, <1>1, <1>3, <1>4, <1>5, <1>6 DEF Next, Done
  <2> QED BY <1>1, <2>1

-----------------------------------------------------------------------------
(* The kinds of step, seen from the writes. *)
Sends == \E R \in SUBSET Conns, e \in Events :
           /\ SendEventToClient(R, e)
           /\ UNCHANGED <<hungUp, forceDisconnected, shutdownState>>

Breaks(c) ==
  /\ writing' = [writing EXCEPT ![c] = NoEvent]
  /\ \/ c \in hungUp \cup forceDisconnected
     \/ shutdownState' = "ShuttingDown"
  /\ UNCHANGED <<queuedEvents, writePending, hungUp, forceDisconnected>>
  /\ shutdownState = "ShuttingDown" => shutdownState' = "ShuttingDown"

LeavesWrites ==
  /\ UNCHANGED <<writing, queuedEvents, writePending>>
  /\ hungUp \subseteq hungUp'
  /\ forceDisconnected \subseteq forceDisconnected'
  /\ shutdownState = "ShuttingDown" => shutdownState' = "ShuttingDown"

(* Every step sends an event, completes a write, loses one, or has nothing *)
(* to do with the writes.                                                  *)
LEMMA WriteShape ==
  ASSUME TypeOK, Bookkeeping, [Next]_vars
  PROVE  \/ Sends
         \/ \E c \in Conns : HandleWriteEvent(c) \/ Breaks(c)
         \/ LeavesWrites
<1>1. CASE UNCHANGED vars
  BY <1>1 DEF vars, frontend, process, streams, LeavesWrites
<1>2. ASSUME NEW d, FinishStream(d)
      PROVE  forceDisconnected \subseteq forceDisconnected'
  BY <1>2 DEF FinishStream
<1>3. ASSUME NEW c \in Conns, Receives(c)
      PROVE  Sends \/ LeavesWrites
  <2>1. ASSUME NEW id \in SelfIds[c], HandleRegisterSelf(c, id, AccountOf[c])
        PROVE  LeavesWrites
    BY <1>2, <2>1 DEF HandleRegisterSelf, MessageFrom, Handles, process,
                      TakeAccount, LeavesWrites
  <2>2. ASSUME MessageFrom(c), Refuse(c)
        PROVE  LeavesWrites
    BY <1>2, <2>2 DEF Refuse, ForceDisconnect, MessageFrom, Handles, process,
                      LeavesWrites
  <2>3. ASSUME NEW e \in Events, HandleCombatEvent(c, e)
        PROVE  Sends
    <3>1. Recipients(c) \in SUBSET Conns
      BY DEF Recipients, TypeOK
    <3> QED
      BY <2>3, <3>1 DEF HandleCombatEvent, MessageFrom, Handles, process, Sends
  <2>4. ASSUME MessageFrom(c), UNCHANGED <<frontend, writing, hungUp>>
        PROVE  LeavesWrites
    BY <2>4 DEF MessageFrom, Handles, process, frontend, LeavesWrites
  <2> QED
    BY <1>3, <2>1, <2>2, <2>3, <2>4
    DEF Receives, RefuseRegisterSelf, RefuseUnregistered, RefuseMalformed,
        HandleSetSelfId, HandleAddPeer, HandleRemovePeer, RegisteredMessage,
        IgnoreUnknownType, streams, frontend
<1>4. ASSUME NEW c \in Conns, Completes(c)
      PROVE  HandleWriteEvent(c) \/ Breaks(c) \/ LeavesWrites
  <2>1. CASE ReadFails(c) \/ ReadDrained(c)
    BY <1>2, <2>1 DEF ReadFails, ReadDrained, ForceDisconnect, Handles, Drains,
                      process, LeavesWrites
  <2>2. CASE ConnectDropped(c)
    BY <2>2 DEF ConnectDropped, Drains, frontend, LeavesWrites
  <2>3. CASE WriteFails(c)
    BY <2>3 DEF WriteFails, Handles, process, frontend, Bookkeeping, Breaks
  <2>4. CASE WriteDrained(c)
    BY <2>4 DEF WriteDrained, Drains, frontend, Breaks
  <2>5. CASE FinishCompletes(c)
    BY <2>5 DEF FinishCompletes, Handles, Drains, process, frontend,
                LeavesWrites
  <2> QED BY <1>4, <2>1, <2>2, <2>3, <2>4, <2>5 DEF Completes
<1>5. ASSUME NEW c \in Conns,
             HandleConnect(c) \/ HangUp(c) \/ FallSilent(c)
      PROVE  LeavesWrites
  BY <1>5 DEF HandleConnect, HangUp, FallSilent, Handles, frontend, process,
              streams, LeavesWrites
<1>6. CASE Shutdown \/ SetAlarm \/ WakeUp \/ ServeReturns
  BY <1>6 DEF Shutdown, SetAlarm, WakeUp, ServeReturns, Drains, frontend,
              streams, LeavesWrites
<1> QED
  <2>1. CASE Next
    BY <2>1, <1>1, <1>3, <1>4, <1>5, <1>6 DEF Next, Done
  <2> QED BY <1>1, <2>1

(* The flag, the write and the queue stay in agreement. *)
LEMMA WriteNext ==
  ASSUME TypeOK, Bookkeeping, WriteInProgress, [Next]_vars
  PROVE  WriteInProgress'
<1> USE DEF TypeOK
<1> DEFINE Good(d) ==
      /\ writing[d] # NoEvent => d \in writePending
      /\ queuedEvents[d] # <<>> => d \in writePending
      /\ d \in writePending => \/ writing[d] # NoEvent
                               \/ d \in hungUp \cup forceDisconnected
                               \/ shutdownState = "ShuttingDown"
<1> SUFFICES ASSUME NEW d \in Conns
             PROVE  Good(d)'
  BY DEF WriteInProgress
<1>0. Good(d)
  BY DEF WriteInProgress
<1>1. CASE Sends
  <2>1. PICK R \in SUBSET Conns, e \in Events :
          /\ SendEventToClient(R, e)
          /\ UNCHANGED <<hungUp, forceDisconnected, shutdownState>>
    BY <1>1 DEF Sends
  <2>2. /\ writing'[d] = IF d \in R \ writePending THEN e ELSE writing[d]
        /\ d \notin R \cap writePending => queuedEvents'[d] = queuedEvents[d]
        /\ writePending' = writePending \cup R
    BY <2>1 DEF SendEventToClient
  <2> QED BY <1>0, <2>1, <2>2
<1>2. ASSUME NEW c \in Conns, HandleWriteEvent(c)
      PROVE  Good(d)'
  <2>1. /\ UNCHANGED <<hungUp, forceDisconnected, shutdownState>>
        /\ writing[c] # NoEvent
    BY <1>2 DEF HandleWriteEvent, Handles, process
  <2>2. CASE queuedEvents[c] # <<>>
    <3>1. queuedEvents[c] \in Seq(Events)
      OBVIOUS
    <3>2. Head(queuedEvents[c]) \in Events
      BY <2>2, <3>1
    <3>3. /\ writing' = [writing EXCEPT ![c] = Head(queuedEvents[c])]
          /\ queuedEvents' = [queuedEvents EXCEPT ![c] = Tail(queuedEvents[c])]
          /\ writePending' = writePending
      BY <1>2, <2>2 DEF HandleWriteEvent
    <3>4. CASE d = c
      <4>1. d \in writePending' /\ writing'[d] # NoEvent
        BY <2>1, <3>2, <3>3, <3>4, <1>0
      <4> QED BY <4>1
    <3>5. CASE d # c
      <4>1. writing'[d] = writing[d] /\ queuedEvents'[d] = queuedEvents[d]
        BY <3>3, <3>5
      <4> QED BY <1>0, <2>1, <3>3, <4>1
    <3> QED BY <3>4, <3>5
  <2>3. CASE queuedEvents[c] = <<>>
    <3>1. /\ writing' = [writing EXCEPT ![c] = NoEvent]
          /\ queuedEvents' = queuedEvents
          /\ writePending' = writePending \ {c}
      BY <1>2, <2>3 DEF HandleWriteEvent
    <3> QED BY <1>0, <2>1, <2>3, <3>1
  <2> QED BY <2>2, <2>3
<1>3. ASSUME NEW c \in Conns, Breaks(c)
      PROVE  Good(d)'
  BY <1>0, <1>3 DEF Breaks
<1>4. CASE LeavesWrites
  BY <1>0, <1>4 DEF LeavesWrites
<1> QED BY <1>1, <1>2, <1>3, <1>4, WriteShape

-----------------------------------------------------------------------------
(* What the handlers start is legal. *)
LEMMA LegalNext ==
  ASSUME IInv, [Next]_vars
  PROVE  [LegalStep]_vars
<1> SUFFICES ASSUME Next PROVE LegalStep \/ UNCHANGED vars
  OBVIOUS
<1> USE DEF IInv, TypeOK, LegalStep
<1>1. ASSUME NEW d, FinishStream(d)
      PROVE  /\ \A c \in finishing' \ finishing : c \notin finished
             /\ shutdownState' = "ShuttingDown" => finishing' \subseteq finishing
  BY <1>1 DEF FinishStream, IsShuttingDown, Bookkeeping
<1>2. ASSUME NEW c \in Conns, Receives(c)
      PROVE  LegalStep
  <2>1. shutdownState' = "Online"
    BY <1>2 DEF Receives, HandleRegisterSelf, HandleSetSelfId, HandleAddPeer,
       HandleRemovePeer, HandleCombatEvent, RefuseRegisterSelf,
       RefuseUnregistered, RefuseMalformed, IgnoreUnknownType,
       RegisteredMessage, MessageFrom, Handles, process
  <2>2. ASSUME NEW id \in SelfIds[c], HandleRegisterSelf(c, id, AccountOf[c])
        PROVE  LegalStep
    BY <1>1, <2>1, <2>2 DEF HandleRegisterSelf, TakeAccount
  <2>3. ASSUME Refuse(c)
        PROVE  LegalStep
    BY <1>1, <2>1, <2>3 DEF Refuse, ForceDisconnect
  <2>4. ASSUME NEW e \in Events, HandleCombatEvent(c, e)
        PROVE  LegalStep
    <3>1. finishing' = finishing
      BY <2>4 DEF HandleCombatEvent
    <3>2. ASSUME NEW d \in Conns, writing[d] # NoEvent
          PROVE  writing'[d] = writing[d]
      BY <2>4, <3>2 DEF HandleCombatEvent, SendEventToClient, WriteInProgress
    <3> QED BY <2>1, <3>1, <3>2
  <2>5. ASSUME UNCHANGED <<writing, finishing>>
        PROVE  LegalStep
    BY <2>1, <2>5
  <2> QED
    BY <1>2, <2>2, <2>3, <2>4, <2>5
    DEF Receives, RefuseRegisterSelf, RefuseUnregistered, RefuseMalformed,
        HandleSetSelfId, HandleAddPeer, HandleRemovePeer, RegisteredMessage,
        IgnoreUnknownType, streams
<1>3. ASSUME NEW c \in Conns, Completes(c)
      PROVE  LegalStep
  <2>1. CASE ReadFails(c) \/ ReadDrained(c)
    BY <1>1, <2>1 DEF ReadFails, ReadDrained, ForceDisconnect
  <2>2. CASE ConnectDropped(c)
    BY <2>2 DEF ConnectDropped
  <2>3. CASE HandleWriteEvent(c)
    <3>1. shutdownState' = "Online" /\ finishing' = finishing
      BY <2>3 DEF HandleWriteEvent, Handles, process
    <3>2. transmitted[c] \in Seq(Events) /\ writing[c] \in Events
      BY <2>3 DEF HandleWriteEvent
    <3>3. transmitted'[c] = Append(transmitted[c], writing[c])
      BY <2>3 DEF HandleWriteEvent, Transmitted
    <3>4. transmitted'[c] # transmitted[c]
      BY <3>2, <3>3
    <3>5. ASSUME NEW d \in Conns, d # c
          PROVE  writing'[d] = writing[d]
      BY <2>3, <3>5 DEF HandleWriteEvent
    <3> QED BY <3>1, <3>4, <3>5
  <2>4. CASE WriteFails(c) \/ WriteDrained(c)
    BY <2>4 DEF WriteFails, WriteDrained
  <2>5. CASE FinishCompletes(c)
    BY <2>5 DEF FinishCompletes
  <2> QED BY <1>3, <2>1, <2>2, <2>3, <2>4, <2>5 DEF Completes
<1>4. ASSUME NEW c \in Conns,
             HandleConnect(c) \/ HangUp(c) \/ FallSilent(c)
      PROVE  LegalStep
  BY <1>4 DEF HandleConnect, HangUp, FallSilent, Handles, process, streams
<1>5. CASE Shutdown \/ SetAlarm \/ WakeUp \/ ServeReturns
  BY <1>5 DEF Shutdown, SetAlarm, WakeUp, ServeReturns, streams
<1> QED BY <1>2, <1>3, <1>4, <1>5 DEF Next, Done

(* IInv holds at the start and every step keeps it. *)
LEMMA Inductive ==
  /\ Init => IInv
  /\ IInv /\ [Next]_vars => IInv'
<1>1. ASSUME Init
      PROVE  IInv
  <2>1. TypeOK
    <3>1. [c \in Conns |-> <<>>] \in [Conns -> Seq(Events)]
      OBVIOUS
    <3>2. queuedEvents \in [Conns -> Seq(Events)] /\ transmitted \in [Conns -> Seq(Events)]
      BY <1>1, <3>1 DEF Init
    <3>3. listening \in Conns /\ unused \subseteq Conns
      BY <1>1 DEF Init
    <3> QED BY <1>1, <3>2, <3>3 DEF Init, TypeOK
  <2> QED
    BY <1>1, <2>1 DEF Init, IInv, RegistryConsistent, RegisteredIsAlive,
       Registered, NobodyForgotten, WriteInProgress, Bookkeeping
<1>2. ASSUME IInv, [Next]_vars
      PROVE  IInv'
  BY <1>2, TypeNext, RegistryNext, AliveNext, ForgottenNext, WriteNext,
     BookkeepingNext DEF IInv
<1> QED BY <1>1, <1>2

(* The state of the server has the types of its members, always. *)
THEOREM TypeCorrect == Spec => []TypeOK
<1>1. IInv => TypeOK
  BY DEF IInv
<1> QED BY <1>1, Inductive, PTL DEF Spec

(* The table and the iterators into it agree, always: Server.cpp never     *)
(* erases an entry that is not the connection's own.                       *)
THEOREM TableAgrees == Spec => []RegistryConsistent
<1>1. IInv => RegistryConsistent
  BY DEF IInv
<1> QED BY <1>1, Inductive, PTL DEF Spec

(* A registered connection is not disconnected and is being read from.     *)
THEOREM RegisteredAreAlive == Spec => []RegisteredIsAlive
<1>1. IInv => RegisteredIsAlive
  BY DEF IInv
<1> QED BY <1>1, Inductive, PTL DEF Spec

(* A connection that lost its registration has been disconnected. *)
THEOREM NobodyIsForgotten == Spec => []NobodyForgotten
<1>1. IInv => NobodyForgotten
  BY DEF IInv
<1> QED BY <1>1, Inductive, PTL DEF Spec

(* The assert of the destructor, Server.cpp line 24, never fails.          *)
THEOREM DestructorAssert == Spec => []TableEmptyAtEnd
<1>1. IInv => TableEmptyAtEnd
  BY DEF IInv, Bookkeeping, RegisteredIsAlive, TableEmptyAtEnd
<1> QED BY <1>1, Inductive, PTL DEF Spec

(* WritePending, the Write outstanding and the queue behind it agree.      *)
THEOREM WritesAgree == Spec => []WriteInProgress
<1>1. IInv => WriteInProgress
  BY DEF IInv
<1> QED BY <1>1, Inductive, PTL DEF Spec

(* No operation is started that gRPC would abort the program for.          *)
THEOREM LegalOperations == Spec => OperationsAreLegal
<1>1. IInv /\ [Next]_vars => [LegalStep]_vars
  BY LegalNext
<1> QED BY <1>1, Inductive, PTL DEF Spec, OperationsAreLegal

=============================================================================
