------------------------ MODULE EventProcessorProofs ------------------------
(* Theorems about EventProcessor, for any agents, instance ids, threads,   *)
(* objects and times.                                                      *)
EXTENDS EventProcessor, TLAPS

(* Each method of PlayerStats keeps the type of the statistics. *)
LEMMA StatsTyping ==
  ASSUME NEW s \in StatsOf(Times, Ids)
  PROVE  /\ Fresh \in StatsOf(Times, Ids)
         /\ ResetIfNotInCombat(s) \in StatsOf(Times, Ids)
         /\ \A t \in Times :
              /\ EnteredCombat(s, t) \in StatsOf(Times, Ids)
              /\ DamageEvent(s, t) \in StatsOf(Times, Ids)
         /\ \A t \in Times, last \in Times \cup {0} :
              ExitedCombat(s, t, last) \in StatsOf(Times, Ids)
         /\ \A u \in Ids : HealingEvent(s, u) \in StatsOf(Times, Ids)
<1>1. Fresh \in StatsOf(Times, Ids)
  BY DEF Fresh, StatsOf
<1>2. \A t \in Times : EnteredCombat(s, t) \in StatsOf(Times, Ids)
  BY DEF EnteredCombat, Fresh, StatsOf
<1>3. \A t \in Times, last \in Times \cup {0} :
        ExitedCombat(s, t, last) \in StatsOf(Times, Ids)
  BY DEF ExitedCombat, Later, StatsOf
<1>4. ResetIfNotInCombat(s) \in StatsOf(Times, Ids)
  BY <1>1 DEF ResetIfNotInCombat
<1>5. \A t \in Times : DamageEvent(s, t) \in StatsOf(Times, Ids)
  BY DEF DamageEvent, Later, StatsOf
<1>6. \A u \in Ids : HealingEvent(s, u) \in StatsOf(Times, Ids)
  BY DEF HealingEvent, StatsOf
<1> QED
  BY <1>1, <1>2, <1>3, <1>4, <1>5, <1>6

(* Entering an agent keeps the types, and nothing is forgotten. *)
LEMMA AddAgentTyping ==
  ASSUME TableTypeOK, NEW u \in Ids, NEW i \in InstIds, NEW k \in Said,
         AddAgent(u, i, k)
  PROVE  TableTypeOK' /\ Known' = Known \cup {u}
<1>1. Updated(mAgents[u], k) \in Kinds
  BY DEF TableTypeOK, Updated, Said, Kinds
<1>2. TableTypeOK'
  BY <1>1 DEF TableTypeOK, AddAgent
<1>3. \A v \in Ids : mAgents'[v] # "unknown" <=> v = u \/ mAgents[v] # "unknown"
  BY <1>1 DEF TableTypeOK, AddAgent, Kinds
<1> QED
  BY <1>2, <1>3 DEF Known

LEMMA TypeInit ==
  ASSUME Init
  PROVE  TypeOK
<1>1. Fresh \in StatsOf(Times, Ids)
  BY DEF Fresh, StatsOf
<1>2. TableTypeOK /\ StateTypeOK
  BY <1>1, ConstantsAssumption
     DEF Init, TableInit, TableTypeOK, StateTypeOK, Kinds
<1>3. LocalTypeOK /\ PeerTypeOK /\ GetterTypeOK
  BY ConstantsAssumption
     DEF Init, LocalTypeOK, PeerTypeOK, GetterTypeOK, LocalPcs, GetterPcs
<1> QED
  BY <1>2, <1>3 DEF TypeOK

(* A part of the state that a step leaves alone keeps its type. *)
LEMMA UnchangedTyping ==
  ASSUME TypeOK
  PROVE  /\ UNCHANGED tableVars => TableTypeOK'
         /\ UNCHANGED <<calls, nameless, stateVars>> => StateTypeOK'
         /\ UNCHANGED localVars => LocalTypeOK'
         /\ UNCHANGED peerVars => PeerTypeOK'
         /\ UNCHANGED getterVars => GetterTypeOK'
<1> USE DEF TypeOK
<1>1. UNCHANGED tableVars => TableTypeOK'
  BY DEF tableVars, TableTypeOK
<1>2. UNCHANGED <<calls, nameless, stateVars>> => StateTypeOK'
  BY DEF stateVars, StateTypeOK
<1>3. UNCHANGED localVars => LocalTypeOK'
  BY DEF localVars, LocalTypeOK
<1>4. UNCHANGED peerVars => PeerTypeOK'
  BY DEF peerVars, PeerTypeOK
<1>5. UNCHANGED getterVars => GetterTypeOK'
  BY DEF getterVars, GetterTypeOK
<1> QED
  BY <1>1, <1>2, <1>3, <1>4, <1>5

(* Every step of AreaCombat and LocalCombat keeps the types. *)
LEMMA LocalTyping ==
  ASSUME TypeOK, LoopOnMap, AreaCombat \/ \E t \in Threads : LocalCombat(t)
  PROVE  TypeOK'
<1> USE ConstantsAssumption
<1>1. ASSUME NEW u \in Ids, NEW i \in InstIds, NEW k \in Kinds,
             AreaRegister(u, i, k)
      PROVE  TypeOK'
  <2>1. TableTypeOK'
    BY <1>1, AddAgentTyping DEF AreaRegister, TypeOK, Said
  <2>2. StateTypeOK'
    BY <1>1 DEF AreaRegister, NewCall, stateVars, TypeOK, StateTypeOK
  <2> QED
    BY <1>1, <2>1, <2>2, UnchangedTyping DEF AreaRegister, TypeOK
<1>2. ASSUME NEW u \in Ids, NEW time \in Times, AreaDeregister(u, time)
      PROVE  TypeOK'
  <2>1. mPeerStates[u] \in Objects
    BY <1>2 DEF AreaDeregister, PeerIds, TypeOK, StateTypeOK
  <2>2. ExitedCombat(heap[mPeerStates[u]], time, 0) \in StatsOf(Times, Ids)
    BY <2>1, StatsTyping DEF TypeOK, StateTypeOK
  <2>3. StateTypeOK'
    BY <1>2, <2>1, <2>2 DEF AreaDeregister, NewCall, TypeOK, StateTypeOK
  <2> QED
    BY <1>2, <2>3, UnchangedTyping DEF AreaDeregister, TypeOK
<1>3. ASSUME NEW t \in Threads, NEW u \in Ids, NEW i \in InstIds,
             LocalRegister(t, u, i) \/ LocalHeal(t, u, i)
      PROVE  TypeOK'
  <2>1. TableTypeOK'
    <3>1. CASE \E k \in Said : AddAgent(u, i, k)
      BY <3>1, AddAgentTyping DEF TypeOK
    <3>2. CASE UNCHANGED tableVars
      BY <3>2, UnchangedTyping
    <3> QED
      BY <1>3, <3>1, <3>2 DEF LocalRegister, LocalHeal, Said, Kinds
  <2>2. nameless' \subseteq Ids
    BY <1>3 DEF LocalRegister, LocalHeal, TypeOK, StateTypeOK
  <2>3. StateTypeOK'
    BY <1>3, <2>2 DEF LocalRegister, LocalHeal, NewCall, stateVars, TypeOK,
                StateTypeOK
  <2>4. LocalTypeOK'
    BY <1>3 DEF LocalRegister, LocalHeal, At, TypeOK, LocalTypeOK, LocalPcs
  <2> QED
    BY <1>3, <2>1, <2>3, <2>4, UnchangedTyping
       DEF LocalRegister, LocalHeal, TypeOK
<1>4. ASSUME NEW t \in Threads, NEW time \in Times,
             \/ LocalDeregister(t, time) \/ LocalExitCombat(t, time)
             \/ LocalDamage(t, time)
      PROVE  TypeOK'
  <2>1. mLocalState' \in StatsOf(Times, Ids)
    <3>1. mLocalState \in StatsOf(Times, Ids)
      BY DEF TypeOK, StateTypeOK
    <3>2. /\ ExitedCombat(mLocalState, time, 0) \in StatsOf(Times, Ids)
          /\ DamageEvent(mLocalState, time) \in StatsOf(Times, Ids)
      BY <3>1, StatsTyping
    <3> QED
      BY <1>4, <3>2
         DEF LocalDeregister, LocalExitCombat, LocalDamage, LocalUpdate
  <2>2. LocalUpdate(mLocalState')
    BY <1>4 DEF LocalDeregister, LocalExitCombat, LocalDamage, LocalUpdate
  <2>3. StateTypeOK'
    BY <2>1, <2>2 DEF LocalUpdate, NewCall, TypeOK, StateTypeOK
  <2> QED
    BY <2>2, <2>3, UnchangedTyping DEF LocalUpdate, TypeOK
<1>5. ASSUME NEW t \in Threads, NEW self \in BOOLEAN, NEW time \in Times,
             LocalEnterCombat(t, self, time)
      PROVE  TypeOK'
  <2>1. EnteredCombat(mLocalState, time) \in StatsOf(Times, Ids)
    BY StatsTyping DEF TypeOK, StateTypeOK
  <2>2. StateTypeOK'
    BY <1>5, <2>1 DEF LocalEnterCombat, NewCall, TypeOK, StateTypeOK
  <2>3. LocalTypeOK'
    BY <1>5 DEF LocalEnterCombat, At, TypeOK, LocalTypeOK, LocalPcs
  <2> QED
    BY <1>5, <2>2, <2>3, UnchangedTyping DEF LocalEnterCombat, TypeOK
<1>6. ASSUME NEW t \in Threads, NEW u \in Ids, ResetPeer(t, u)
      PROVE  TypeOK'
  <2>1. mPeerStates[u] \in Objects
    BY <1>6 DEF ResetPeer, First, LoopOnMap, PeerIds, TypeOK, StateTypeOK
  <2>2. ResetIfNotInCombat(heap[mPeerStates[u]]) \in StatsOf(Times, Ids)
    BY <2>1, StatsTyping DEF TypeOK, StateTypeOK
  <2>3. StateTypeOK'
    BY <1>6, <2>1, <2>2 DEF ResetPeer, callVars, TypeOK, StateTypeOK
  <2>4. LocalTypeOK'
    BY <1>6 DEF ResetPeer, TypeOK, LocalTypeOK, LocalPcs
  <2> QED
    BY <1>6, <2>3, <2>4, UnchangedTyping DEF ResetPeer, callVars, TypeOK
<1>7. ASSUME NEW t \in Threads, NEW u \in Ids,
             ErasePeer(t, u) \/ KeepPeer(t, u)
      PROVE  TypeOK'
  <2>1. heap' \in [Objects -> StatsOf(Times, Ids)]
    BY <1>7 DEF ErasePeer, KeepPeer, TypeOK, StateTypeOK, Fresh, StatsOf
  <2>2. mPeerStates' \in [Ids -> Objects \cup {NoObject}]
    BY <1>7 DEF ErasePeer, KeepPeer, TypeOK, StateTypeOK
  <2>3. NextPeer(t, u)
    BY <1>7 DEF ErasePeer, KeepPeer
  <2>4. StateTypeOK'
    BY <2>1, <2>2, <2>3 DEF NextPeer, callVars, TypeOK, StateTypeOK
  <2>5. LocalTypeOK'
    BY <2>3 DEF NextPeer, At, TypeOK, LocalTypeOK, LocalPcs
  <2> QED
    BY <2>3, <2>4, <2>5, UnchangedTyping DEF NextPeer, callVars, TypeOK
<1>8. ASSUME NEW t \in Threads,
             LocalStoreSelf(t) \/ LockPeers(t) \/ UnlockPeers(t)
      PROVE  TypeOK'
  <2>1. StateTypeOK'
    BY <1>8 DEF LocalStoreSelf, LockPeers, UnlockPeers, callVars, At, TypeOK,
                StateTypeOK, LocalTypeOK
  <2>2. LocalTypeOK'
    BY <1>8 DEF LocalStoreSelf, LockPeers, UnlockPeers, At, TypeOK,
                LocalTypeOK, LocalPcs, PeerIds
  <2> QED
    BY <1>8, <2>1, <2>2, UnchangedTyping
       DEF LocalStoreSelf, LockPeers, UnlockPeers, callVars, TypeOK
<1>9. ASSUME NEW t \in Threads, LocalRecord(t)
      PROVE  TypeOK'
  <2>1. target[t] \in Ids
    BY <1>9 DEF LocalRecord, At, TypeOK, LocalTypeOK
  <2>2. HealingEvent(mLocalState, target[t]) \in StatsOf(Times, Ids)
    BY <2>1, StatsTyping DEF TypeOK, StateTypeOK
  <2>3. StateTypeOK'
    BY <1>9, <2>2 DEF LocalRecord, callVars, TypeOK, StateTypeOK
  <2>4. LocalTypeOK'
    BY <1>9 DEF LocalRecord, At, TypeOK, LocalTypeOK, LocalPcs
  <2> QED
    BY <1>9, <2>3, <2>4, UnchangedTyping DEF LocalRecord, callVars, TypeOK
<1> QED
  BY <1>1, <1>2, <1>3, <1>4, <1>5, <1>6, <1>7, <1>8, <1>9
     DEF AreaCombat, LocalCombat

(* Every step of PeerCombat keeps the types. *)
LEMMA PeerTyping ==
  ASSUME TypeOK, PeerCombat
  PROVE  TypeOK'
<1> USE ConstantsAssumption
<1>1. ASSUME NEW s \in StatsOf(Times, Ids), PeerUpdate(s), state \in Objects
      PROVE  TypeOK'
  <2>1. StateTypeOK'
    BY <1>1 DEF PeerUpdate, callVars, TypeOK, StateTypeOK
  <2>2. PeerTypeOK'
    BY <1>1 DEF PeerUpdate, TypeOK, PeerTypeOK
  <2> QED
    BY <1>1, <2>1, <2>2, UnchangedTyping DEF PeerUpdate, callVars, TypeOK
<1>2. ASSUME NEW i \in InstIds, PeerBegin(i)
      PROVE  TypeOK'
  <2>1. GetUniqueId(i, FALSE) \in Ids
    BY <1>2 DEF PeerBegin, GetUniqueId, TypeOK, TableTypeOK
  <2>2. PeerTypeOK'
    BY <1>2, <2>1 DEF PeerBegin, TypeOK, PeerTypeOK
  <2>3. StateTypeOK'
    BY <1>2 DEF PeerBegin, NewCall, stateVars, TypeOK, StateTypeOK
  <2> QED
    BY <1>2, <2>2, <2>3, UnchangedTyping DEF PeerBegin, TypeOK
<1>3. ASSUME NEW i \in InstIds, PeerHeal(i)
      PROVE  TypeOK'
  <2>1. GetUniqueId(i, TRUE) \in Ids
    BY <1>3 DEF PeerHeal, GetUniqueId, TypeOK, TableTypeOK
  <2>2. PeerTypeOK'
    BY <1>3, <2>1 DEF PeerHeal, TypeOK, PeerTypeOK
  <2> QED
    BY <1>3, <2>2, UnchangedTyping DEF PeerHeal, callVars, TypeOK
<1>4. ASSUME NEW o \in Objects, PeerInsert(o)
      PROVE  TypeOK'
  <2>1. heap' \in [Objects -> StatsOf(Times, Ids)]
    BY <1>4 DEF PeerInsert, TypeOK, StateTypeOK, Fresh, StatsOf
  <2>2. mPeerStates' \in [Ids -> Objects \cup {NoObject}]
    BY <1>4 DEF PeerInsert, TypeOK, StateTypeOK
  <2>3. StateTypeOK'
    BY <1>4, <2>1, <2>2 DEF PeerInsert, callVars, TypeOK, StateTypeOK
  <2>4. PeerTypeOK'
    BY <1>4 DEF PeerInsert, TypeOK, PeerTypeOK
  <2> QED
    BY <1>4, <2>3, <2>4, UnchangedTyping DEF PeerInsert, callVars, TypeOK
<1>5. ASSUME NEW time \in Times, PeerEnterCombat(time) \/ PeerDamage(time)
      PROVE  TypeOK'
  <2>1. state \in Objects /\ heap[state] \in StatsOf(Times, Ids)
    BY <1>5 DEF PeerEnterCombat, PeerDamage, TypeOK, StateTypeOK, PeerTypeOK
  <2> QED
    BY <1>1, <1>5, <2>1, StatsTyping DEF PeerEnterCombat, PeerDamage
<1>6. ASSUME NEW time \in Times, NEW last \in Times \cup {0},
             PeerExitCombat(time, last)
      PROVE  TypeOK'
  <2>1. state \in Objects /\ heap[state] \in StatsOf(Times, Ids)
    BY <1>6 DEF PeerExitCombat, TypeOK, StateTypeOK, PeerTypeOK
  <2> QED
    BY <1>1, <1>6, <2>1, StatsTyping DEF PeerExitCombat
<1>7. CASE PeerIgnore \/ PeerRecord
  <2>1. /\ state \in Objects /\ heap[state] \in StatsOf(Times, Ids)
        /\ PeerRecord => dstUniqueId \in Ids
    BY <1>7 DEF PeerIgnore, PeerRecord, TypeOK, StateTypeOK, PeerTypeOK
  <2> QED
    BY <1>1, <1>7, <2>1, StatsTyping DEF PeerIgnore, PeerRecord
<1>8. CASE PeerFind \/ PeerEnd
  <2>1. PeerTypeOK'
    BY <1>8 DEF PeerFind, PeerEnd, TypeOK, StateTypeOK, PeerTypeOK
  <2> QED
    BY <1>8, <2>1, UnchangedTyping DEF PeerFind, PeerEnd, callVars, TypeOK
<1> QED
  BY <1>2, <1>3, <1>4, <1>5, <1>6, <1>7, <1>8 DEF PeerCombat

(* Every step of GetState keeps the types. *)
LEMMA GetTyping ==
  ASSUME TypeOK, GetState
  PROVE  TypeOK'
<1> USE DEF TypeOK, GetterTypeOK, GetterPcs
<1>1. UNCHANGED <<callVars, stateVars, localVars, peerVars>>
  BY DEF GetState, SkipPeer, GetPeerStats, GetPeerAgents, GetBegin,
         GetLocalStats, GetLocalAgents, CopyPeers, GetEnd
<1>2. ASSUME NEW u \in Ids \cup {NoId}, GetAgents(u)
      PROVE  used' \subseteq Ids /\ result' \in [Ids \cup {NoId} -> BOOLEAN]
  BY <1>2 DEF GetAgents
<1>3. ASSUME NEW u \in Ids, SkipPeer(u) \/ GetPeerAgents(u)
      PROVE  GetterTypeOK'
  BY <1>2, <1>3 DEF SkipPeer, GetPeerAgents
<1>4. ASSUME NEW u \in Ids, GetPeerStats(u)
      PROVE  GetterTypeOK'
  <2>1. peerStates[u] \in Objects
    BY <1>4 DEF GetPeerStats, First
  <2>2. used' \subseteq Ids
    BY <1>4, <2>1 DEF GetPeerStats, StateTypeOK, StatsOf
  <2> QED
    BY <1>4, <2>2 DEF GetPeerStats
<1>5. ASSUME GetBegin \/ GetEnd
      PROVE  GetterTypeOK'
  BY <1>5 DEF GetBegin, GetEnd, StateTypeOK
<1>6. ASSUME CopyPeers
      PROVE  GetterTypeOK'
  BY <1>6 DEF CopyPeers, StateTypeOK, PeerIds
<1>7. ASSUME GetLocalStats
      PROVE  GetterTypeOK'
  <2>1. mLocalState.events \subseteq Ids
    BY DEF StateTypeOK, StatsOf
  <2> QED
    BY <1>7, <2>1 DEF GetLocalStats
<1>8. ASSUME GetLocalAgents
      PROVE  GetterTypeOK'
  <2>1. used' \subseteq Ids /\ result' \in [Ids \cup {NoId} -> BOOLEAN]
    BY <1>2, <1>8 DEF GetLocalAgents
  <2> QED
    BY <1>8, <2>1 DEF GetLocalAgents
<1>9. GetterTypeOK'
  BY <1>3, <1>4, <1>5, <1>6, <1>7, <1>8 DEF GetState
<1> QED
  BY <1>1, <1>9, UnchangedTyping DEF callVars

(* Every step keeps the types. *)
LEMMA TypeNext ==
  ASSUME TypeOK, LoopOnMap, [Next]_vars
  PROVE  TypeOK'
<1>1. CASE UNCHANGED vars
  BY <1>1, UnchangedTyping DEF vars, callVars, TypeOK
<1> QED
  BY <1>1, LocalTyping, PeerTyping, GetTyping DEF Next

(***************************************************************************)
(* The invariant. KnownInv: whatever a thread has read out of the table or *)
(* recorded leads to an agent that is in the table, since an agent is      *)
(* entered before anything refers to it, and the table forgets nobody. The *)
(* local player's own heals may also have gone to agents without a name.   *)
(***************************************************************************)
Accounted == Known \cup nameless

KnownInv ==
  /\ \A i \in InstIds : mInstanceIds[i] \in Known \cup {NoId}
  /\ \A t \in Threads :
       local[t] \in {"registered", "healed"} => target[t] \in Accounted
  /\ mLocalState.events \subseteq Accounted
  /\ \A o \in Objects : heap[o].events \subseteq Known
  /\ PeerIds \subseteq Known
  /\ peer # "idle" => peerUniqueId \in Known
  /\ peer = "healed" => dstUniqueId \in Known
  /\ toGet \subseteq Known
  /\ used \subseteq Accounted
  /\ SnapshotMapped

IInv == TypeOK /\ ReferencesAgree /\ KnownInv

(* Every step keeps the references of the threads current. *)
LEMMA ReferencesNext ==
  ASSUME TypeOK, ReferencesAgree, [Next]_vars
  PROVE  ReferencesAgree'
<1> USE ConstantsAssumption
<1>0. HeldIsCurrent /\ OwnObject /\ LoopOnMap
  BY DEF ReferencesAgree
<1>1. ASSUME UNCHANGED <<mPeerStates, mPeerStatesLock, localVars, state,
                        peerUniqueId, peerStates>>
      PROVE  ReferencesAgree'
  BY <1>1 DEF ReferencesAgree, HeldIsCurrent, OwnObject, LoopOnMap, PeerIds,
              localVars
<1>2. ASSUME UNCHANGED <<mPeerStates, mPeerStatesLock, iter, state,
                        peerUniqueId, peerStates>>,
             NEW t \in Threads, NEW from, NEW to, At(t, from, to),
             {from, to} \cap {"loop", "counting"} = {}
      PROVE  ReferencesAgree'
  <2>1. LoopOnMap'
    BY <1>0, <1>2 DEF LoopOnMap, At, PeerIds, TypeOK, LocalTypeOK
  <2> QED
    BY <1>0, <1>2, <2>1 DEF ReferencesAgree, HeldIsCurrent, OwnObject, PeerIds
<1>3. CASE UNCHANGED vars
  BY <1>1, <1>3 DEF vars, stateVars, peerVars, getterVars
<1>4. CASE AreaCombat
  BY <1>1, <1>4 DEF AreaCombat, AreaRegister, AreaDeregister, stateVars,
                    peerVars, getterVars
<1>5. ASSUME NEW t \in Threads, LocalCombat(t)
      PROVE  ReferencesAgree'
  <2>1. ASSUME NEW u \in Ids, NEW i \in InstIds,
               LocalRegister(t, u, i) \/ LocalHeal(t, u, i)
        PROVE  ReferencesAgree'
    BY <1>2, <2>1 DEF LocalRegister, LocalHeal, stateVars, peerVars, getterVars
  <2>2. ASSUME NEW time \in Times,
               \/ LocalDeregister(t, time) \/ LocalExitCombat(t, time)
               \/ LocalDamage(t, time)
        PROVE  ReferencesAgree'
    BY <1>1, <2>2 DEF LocalDeregister, LocalExitCombat, LocalDamage,
                      LocalUpdate, peerVars, getterVars
  <2>3. ASSUME NEW self \in BOOLEAN, NEW time \in Times,
               LocalEnterCombat(t, self, time)
        PROVE  ReferencesAgree'
    BY <1>2, <2>3 DEF LocalEnterCombat, peerVars, getterVars
  <2>4. ASSUME LocalStoreSelf(t) \/ LocalRecord(t)
        PROVE  ReferencesAgree'
    BY <1>2, <2>4 DEF LocalStoreSelf, LocalRecord, peerVars, getterVars
  <2>5. ASSUME LockPeers(t) \/ UnlockPeers(t)
               \/ \E u \in Ids : ResetPeer(t, u) \/ KeepPeer(t, u)
        PROVE  ReferencesAgree'
    <3>1. UNCHANGED <<mPeerStates, peerVars, getterVars>>
      BY <2>5 DEF LockPeers, UnlockPeers, ResetPeer, KeepPeer, NextPeer
    <3>2. PeerIds' = PeerIds
      BY <3>1 DEF PeerIds
    <3>3. LoopOnMap'
      <4>1. CASE LockPeers(t)
        BY <1>0, <3>2, <4>1 DEF LoopOnMap, LockPeers, LockFree, At, TypeOK,
                                LocalTypeOK
      <4>2. CASE UnlockPeers(t)
        BY <1>0, <3>2, <4>2 DEF LoopOnMap, UnlockPeers, At, TypeOK,
                                LocalTypeOK
      <4>3. ASSUME NEW u \in Ids, ResetPeer(t, u)
            PROVE  LoopOnMap'
        BY <1>0, <3>2, <4>3 DEF LoopOnMap, ResetPeer, First, TypeOK,
                                LocalTypeOK
      <4>4. ASSUME NEW u \in Ids, KeepPeer(t, u)
            PROVE  LoopOnMap'
        BY <1>0, <3>2, <4>4 DEF LoopOnMap, KeepPeer, NextPeer, First, At,
                                TypeOK, LocalTypeOK
      <4> QED
        BY <2>5, <4>1, <4>2, <4>3, <4>4
    <3> QED
      BY <1>0, <3>1, <3>2, <3>3
         DEF ReferencesAgree, HeldIsCurrent, OwnObject, peerVars, getterVars
  <2>6. ASSUME NEW u \in Ids, ErasePeer(t, u)
        PROVE  ReferencesAgree'
    <3>1. /\ mPeerStates' = [mPeerStates EXCEPT ![u] = NoObject]
          /\ Unshared(mPeerStates[u]) /\ NextPeer(t, u)
      BY <2>6 DEF ErasePeer
    <3>2. UNCHANGED <<mPeerStatesLock, state, peerUniqueId, peerStates>>
      BY <3>1 DEF NextPeer, peerVars, getterVars
    <3>3. u \in PeerIds
      BY <1>0, <3>1 DEF LoopOnMap, NextPeer, First
    <3>4. HeldIsCurrent'
      BY <1>0, <3>1, <3>2, <3>3
         DEF HeldIsCurrent, Unshared, PeerIds, TypeOK, StateTypeOK
    <3>5. PeerIds' = PeerIds \ {u}
      BY <3>1 DEF PeerIds, TypeOK, StateTypeOK
    <3>6. OwnObject'
      BY <1>0, <3>1, <3>5 DEF OwnObject, PeerIds, TypeOK, StateTypeOK
    <3>7. LoopOnMap'
      BY <1>0, <3>1, <3>2, <3>5
         DEF LoopOnMap, NextPeer, First, At, TypeOK, LocalTypeOK
    <3> QED
      BY <3>4, <3>6, <3>7 DEF ReferencesAgree
  <2> QED
    BY <1>5, <2>1, <2>2, <2>3, <2>4, <2>5, <2>6 DEF LocalCombat
<1>6. CASE PeerCombat
  <2>1. ASSUME NEW s, PeerUpdate(s)
        PROVE  ReferencesAgree'
    BY <1>1, <2>1 DEF PeerUpdate, getterVars
  <2>2. ASSUME \/ PeerFind \/ PeerEnd
               \/ \E i \in InstIds : PeerBegin(i) \/ PeerHeal(i)
        PROVE  ReferencesAgree'
    <3>1. UNCHANGED <<mPeerStates, mPeerStatesLock, localVars, peerStates>>
      BY <2>2 DEF PeerFind, PeerEnd, PeerBegin, PeerHeal, stateVars, getterVars
    <3>2. state' # NoObject => mPeerStates[peerUniqueId'] = state'
      BY <1>0, <2>2 DEF PeerFind, PeerEnd, PeerBegin, PeerHeal, HeldIsCurrent,
                        TypeOK, PeerTypeOK
    <3> QED
      BY <1>0, <3>1, <3>2 DEF ReferencesAgree, HeldIsCurrent, OwnObject,
                              LoopOnMap, PeerIds, localVars
  <2>3. ASSUME NEW o \in Objects, PeerInsert(o)
        PROVE  ReferencesAgree'
    <3>1. /\ UNCHANGED <<mPeerStatesLock, localVars, peerUniqueId, peerStates>>
          /\ mPeerStates' = [mPeerStates EXCEPT ![peerUniqueId] = o]
          /\ state' = o /\ peerUniqueId \in Ids
          /\ mPeerStates[peerUniqueId] = NoObject /\ Unused(o)
      BY <2>3 DEF PeerInsert, getterVars, TypeOK, PeerTypeOK
    <3>2. HeldIsCurrent'
      BY <1>0, <3>1 DEF HeldIsCurrent, TypeOK, StateTypeOK
    <3>3. OwnObject'
      BY <1>0, <3>1 DEF OwnObject, Unused, PeerIds, TypeOK, StateTypeOK
    <3>4. PeerIds \subseteq PeerIds'
      BY <3>1 DEF PeerIds, TypeOK, StateTypeOK
    <3>5. LoopOnMap'
      BY <1>0, <3>1, <3>4 DEF LoopOnMap, localVars
    <3> QED
      BY <3>2, <3>3, <3>5 DEF ReferencesAgree
  <2> QED
    BY <1>6, <2>1, <2>2, <2>3
       DEF PeerCombat, PeerEnterCombat, PeerDamage, PeerExitCombat, PeerIgnore,
           PeerRecord
<1>7. CASE GetState
  <2>1. UNCHANGED <<mPeerStates, mPeerStatesLock, localVars, state,
                    peerUniqueId>>
    BY <1>7 DEF GetState, SkipPeer, GetPeerStats, GetPeerAgents, GetBegin,
                GetLocalStats, GetLocalAgents, CopyPeers, GetEnd, stateVars,
                peerVars
  <2>2. \/ peerStates' = peerStates \/ peerStates' = mPeerStates
        \/ peerStates' = [u \in Ids |-> NoObject]
    BY <1>7 DEF GetState, SkipPeer, GetPeerStats, GetPeerAgents, GetBegin,
                GetLocalStats, GetLocalAgents, CopyPeers, GetEnd
  <2>3. HeldIsCurrent'
    BY <1>0, <2>1, <2>2 DEF HeldIsCurrent
  <2> QED
    BY <1>0, <2>1, <2>3 DEF ReferencesAgree, OwnObject, LoopOnMap, PeerIds,
                            localVars
<1> QED
  BY <1>3, <1>4, <1>5, <1>6, <1>7 DEF Next

(* Each method of PlayerStats keeps the events, drops all of them or adds  *)
(* the one it is given; who is in combat keeps its entry and its events.   *)
LEMMA StatsEvents ==
  ASSUME NEW s \in StatsOf(Times, Ids)
  PROVE  /\ Fresh.events = {}
         /\ ResetIfNotInCombat(s).events \subseteq s.events
         /\ Keeps(s, s) /\ Keeps(s, ResetIfNotInCombat(s))
         /\ \A t \in Times :
              /\ EnteredCombat(s, t).events \subseteq s.events
              /\ DamageEvent(s, t).events = s.events
              /\ Keeps(s, EnteredCombat(s, t)) /\ Keeps(s, DamageEvent(s, t))
         /\ \A t \in Times, last \in Times \cup {0} :
              /\ ExitedCombat(s, t, last).events = s.events
              /\ Keeps(s, ExitedCombat(s, t, last))
         /\ \A u \in Ids :
              /\ HealingEvent(s, u).events \subseteq s.events \cup {u}
              /\ Keeps(s, HealingEvent(s, u))
<1>1. Fresh.events = {} /\ Keeps(s, s)
  BY DEF Fresh, Keeps
<1>2. /\ ResetIfNotInCombat(s).events \subseteq s.events
      /\ Keeps(s, ResetIfNotInCombat(s))
  BY DEF ResetIfNotInCombat, Fresh, Keeps
<1>3. ASSUME NEW t \in Times
      PROVE  /\ EnteredCombat(s, t).events \subseteq s.events
             /\ Keeps(s, EnteredCombat(s, t))
  BY DEF EnteredCombat, Fresh, Keeps, StatsOf
<1>4. ASSUME NEW t \in Times
      PROVE  DamageEvent(s, t).events = s.events /\ Keeps(s, DamageEvent(s, t))
  BY DEF DamageEvent, Keeps, StatsOf
<1>5. ASSUME NEW t \in Times, NEW last \in Times \cup {0}
      PROVE  /\ ExitedCombat(s, t, last).events = s.events
             /\ Keeps(s, ExitedCombat(s, t, last))
  BY DEF ExitedCombat, Keeps, StatsOf
<1>6. ASSUME NEW u \in Ids
      PROVE  /\ HealingEvent(s, u).events \subseteq s.events \cup {u}
             /\ Keeps(s, HealingEvent(s, u))
  BY DEF HealingEvent, Keeps, StatsOf
<1> QED
  BY <1>1, <1>2, <1>3, <1>4, <1>5, <1>6

(* Nothing is forgotten by the table. *)
LEMMA KnownGrows ==
  ASSUME TypeOK, [Next]_vars
  PROVE  Known \subseteq Known'
<1>1. ASSUME NEW u \in Ids, NEW i \in InstIds, NEW k \in Said,
             AddAgent(u, i, k)
      PROVE  Known \subseteq Known'
  BY <1>1, AddAgentTyping DEF TypeOK
<1>2. ASSUME UNCHANGED tableVars
      PROVE  Known \subseteq Known'
  BY <1>2 DEF tableVars, Known
<1>3. CASE UNCHANGED vars
  BY <1>2, <1>3 DEF vars, callVars
<1>4. CASE AreaCombat
  BY <1>1, <1>2, <1>4 DEF AreaCombat, AreaRegister, AreaDeregister, Said
<1>5. ASSUME NEW t \in Threads, LocalCombat(t)
      PROVE  Known \subseteq Known'
  BY <1>1, <1>2, <1>5
     DEF LocalCombat, LocalRegister, LocalHeal, LocalDeregister,
         LocalExitCombat, LocalDamage, LocalUpdate, LocalEnterCombat,
         ResetPeer, ErasePeer, KeepPeer, NextPeer, LocalStoreSelf, LockPeers,
         UnlockPeers, LocalRecord, callVars, Said, Kinds
<1>6. CASE PeerCombat
  BY <1>2, <1>6
     DEF PeerCombat, PeerBegin, PeerHeal, PeerInsert, PeerEnterCombat,
         PeerDamage, PeerExitCombat, PeerIgnore, PeerRecord, PeerUpdate,
         PeerFind, PeerEnd, callVars
<1>7. CASE GetState
  BY <1>2, <1>7
     DEF GetState, SkipPeer, GetPeerStats, GetPeerAgents, GetBegin,
         GetLocalStats, GetLocalAgents, CopyPeers, GetEnd, callVars
<1> QED
  BY <1>3, <1>4, <1>5, <1>6, <1>7 DEF Next

(* Nor are the agents that were healed without a name. *)
LEMMA AccountedGrows ==
  ASSUME TypeOK, [Next]_vars
  PROVE  Accounted \subseteq Accounted'
<1>1. nameless \subseteq nameless'
  <2>1. CASE UNCHANGED vars
    BY <2>1 DEF vars, callVars
  <2>2. CASE AreaCombat
    BY <2>2 DEF AreaCombat, AreaRegister, AreaDeregister
  <2>3. ASSUME NEW t \in Threads, LocalCombat(t)
        PROVE  nameless \subseteq nameless'
    BY <2>3
       DEF LocalCombat, LocalRegister, LocalHeal, LocalDeregister,
           LocalExitCombat, LocalDamage, LocalUpdate, LocalEnterCombat,
           ResetPeer, ErasePeer, KeepPeer, NextPeer, LocalStoreSelf,
           LockPeers, UnlockPeers, LocalRecord, callVars
  <2>4. CASE PeerCombat
    BY <2>4
       DEF PeerCombat, PeerBegin, PeerHeal, PeerInsert, PeerEnterCombat,
           PeerDamage, PeerExitCombat, PeerIgnore, PeerRecord, PeerUpdate,
           PeerFind, PeerEnd, callVars
  <2>5. CASE GetState
    BY <2>5
       DEF GetState, SkipPeer, GetPeerStats, GetPeerAgents, GetBegin,
           GetLocalStats, GetLocalAgents, CopyPeers, GetEnd, callVars
  <2> QED
    BY <2>1, <2>2, <2>3, <2>4, <2>5 DEF Next
<1> QED
  BY <1>1, KnownGrows DEF Accounted

(* What the instance ids lead to is known. *)
LEMMA TableKnown ==
  ASSUME TypeOK, KnownInv, [Next]_vars
  PROVE  \A i \in InstIds : mInstanceIds'[i] \in Known' \cup {NoId}
<1> DEFINE Leads == \A i \in InstIds : mInstanceIds[i] \in Known \cup {NoId}
<1>0. Leads
  BY DEF KnownInv
<1>1. ASSUME NEW u \in Ids, NEW i \in InstIds, NEW k \in Said,
             AddAgent(u, i, k)
      PROVE  Leads'
  <2>1. Known' = Known \cup {u}
    BY <1>1, AddAgentTyping DEF TypeOK
  <2> QED
    BY <1>0, <1>1, <2>1 DEF AddAgent, TypeOK, TableTypeOK
<1>2. ASSUME UNCHANGED tableVars
      PROVE  Leads'
  BY <1>0, <1>2 DEF tableVars, Known
<1> SUFFICES Leads'
  OBVIOUS
<1> HIDE DEF Leads
<1>3. CASE UNCHANGED vars
  BY <1>2, <1>3 DEF vars, callVars
<1>4. CASE AreaCombat
  BY <1>1, <1>2, <1>4 DEF AreaCombat, AreaRegister, AreaDeregister, Said
<1>5. ASSUME NEW t \in Threads, LocalCombat(t)
      PROVE  Leads'
  BY <1>1, <1>2, <1>5
     DEF LocalCombat, LocalRegister, LocalHeal, LocalDeregister,
         LocalExitCombat, LocalDamage, LocalUpdate, LocalEnterCombat,
         ResetPeer, ErasePeer, KeepPeer, NextPeer, LocalStoreSelf, LockPeers,
         UnlockPeers, LocalRecord, callVars, Said, Kinds
<1>6. CASE PeerCombat
  BY <1>2, <1>6
     DEF PeerCombat, PeerBegin, PeerHeal, PeerInsert, PeerEnterCombat,
         PeerDamage, PeerExitCombat, PeerIgnore, PeerRecord, PeerUpdate,
         PeerFind, PeerEnd, callVars
<1>7. CASE GetState
  BY <1>2, <1>7
     DEF GetState, SkipPeer, GetPeerStats, GetPeerAgents, GetBegin,
         GetLocalStats, GetLocalAgents, CopyPeers, GetEnd, callVars
<1> QED
  BY <1>3, <1>4, <1>5, <1>6, <1>7 DEF Next

(* Every step keeps what is recorded among the agents that are known. *)
LEMMA RecordedKnown ==
  ASSUME TypeOK, ReferencesAgree, KnownInv, [Next]_vars
  PROVE  /\ \A t \in Threads :
              local'[t] \in {"registered", "healed"} => target'[t] \in Accounted'
         /\ mLocalState'.events \subseteq Accounted'
<1> DEFINE Targets == \A t \in Threads :
             local[t] \in {"registered", "healed"} => target[t] \in Accounted
           Events == mLocalState.events \subseteq Accounted
<1> SUFFICES Targets' /\ Events'
  OBVIOUS
<1>0. Targets /\ Events /\ Accounted \subseteq Accounted'
  BY AccountedGrows DEF KnownInv
<1>1. ASSUME UNCHANGED localVars
      PROVE  Targets'
  BY <1>0, <1>1 DEF localVars
<1>2. ASSUME UNCHANGED mLocalState
      PROVE  Events'
  BY <1>0, <1>2
<1>3. ASSUME NEW t \in Threads, NEW from, NEW to, At(t, from, to),
             \/ to \notin {"registered", "healed"} /\ target' = target
             \/ target'[t] \in Accounted'
                /\ target' = [target EXCEPT ![t] = target'[t]]
      PROVE  Targets'
  BY <1>0, <1>3 DEF At, TypeOK, LocalTypeOK
<1>4. ASSUME NEW s, mLocalState' = s, s.events \subseteq mLocalState.events
      PROVE  Events'
  BY <1>0, <1>4
<1> HIDE DEF Targets, Events
<1>5. CASE UNCHANGED vars
  BY <1>1, <1>2, <1>5 DEF vars, stateVars
<1>6. CASE AreaCombat
  BY <1>1, <1>2, <1>6 DEF AreaCombat, AreaRegister, AreaDeregister, stateVars
<1>7. ASSUME NEW t \in Threads, LocalCombat(t)
      PROVE  Targets' /\ Events'
  <2> USE DEF TypeOK, StateTypeOK
  <2>1. ASSUME NEW u \in Ids, NEW i \in InstIds,
               LocalRegister(t, u, i) \/ LocalHeal(t, u, i)
        PROVE  Targets' /\ Events'
    <3>1. u \in Accounted'
      <4>1. CASE \E k \in Said : AddAgent(u, i, k)
        BY <4>1, AddAgentTyping DEF Accounted
      <4>2. CASE /\ UNCHANGED tableVars
                 /\ nameless' = nameless \cup ({u} \ Known)
        BY <4>2 DEF Accounted, tableVars, Known
      <4> QED
        BY <2>1, <4>1, <4>2 DEF LocalRegister, LocalHeal, Said, Kinds
    <3>2. target' = [target EXCEPT ![t] = u] /\ UNCHANGED mLocalState
      BY <2>1 DEF LocalRegister, LocalHeal, stateVars
    <3>3. At(t, "idle", "registered") \/ At(t, "idle", "healed")
      BY <2>1 DEF LocalRegister, LocalHeal
    <3>4. target'[t] = u
      BY <3>2 DEF LocalTypeOK
    <3>5. Targets'
      BY <1>3, <3>1, <3>2, <3>3, <3>4
    <3> QED
      BY <1>2, <3>2, <3>5
  <2>2. ASSUME NEW time \in Times,
               \/ LocalDeregister(t, time) \/ LocalExitCombat(t, time)
               \/ LocalDamage(t, time)
        PROVE  Targets' /\ Events'
    <3>1. mLocalState'.events = mLocalState.events /\ UNCHANGED localVars
      BY <2>2, StatsEvents DEF LocalDeregister, LocalExitCombat, LocalDamage,
                               LocalUpdate
    <3> QED
      BY <1>1, <1>4, <3>1
  <2>3. ASSUME NEW self \in BOOLEAN, NEW time \in Times,
               LocalEnterCombat(t, self, time)
        PROVE  Targets' /\ Events'
    <3>1. mLocalState'.events \subseteq mLocalState.events
      BY <2>3, StatsEvents DEF LocalEnterCombat
    <3>2. At(t, "idle", "locking") /\ target' = target
      BY <2>3 DEF LocalEnterCombat
    <3>3. Targets'
      BY <1>3, <3>2
    <3> QED
      BY <1>4, <3>1, <3>3
  <2>4. ASSUME NEW u \in Ids, ResetPeer(t, u)
        PROVE  Targets' /\ Events'
    <3>1. /\ UNCHANGED <<target, mLocalState>>
          /\ local' = local \/ local' = [local EXCEPT ![t] = "counting"]
      BY <2>4 DEF ResetPeer
    <3>2. Targets'
      BY <1>0, <3>1 DEF LocalTypeOK, Targets
    <3> QED
      BY <1>2, <3>1, <3>2
  <2>5. ASSUME LockPeers(t) \/ UnlockPeers(t)
               \/ \E u \in Ids : ErasePeer(t, u) \/ KeepPeer(t, u)
        PROVE  Targets' /\ Events'
    <3>1. At(t, "locking", "loop") \/ At(t, "loop", "idle")
          \/ At(t, "counting", "loop")
      BY <2>5 DEF LockPeers, UnlockPeers, ErasePeer, KeepPeer, NextPeer
    <3>2. UNCHANGED <<target, mLocalState>>
      BY <2>5 DEF LockPeers, UnlockPeers, ErasePeer, KeepPeer, NextPeer
    <3>3. Targets'
      BY <1>3, <3>1, <3>2
    <3> QED
      BY <1>2, <3>2, <3>3
  <2>6. ASSUME LocalStoreSelf(t) \/ LocalRecord(t)
        PROVE  Targets' /\ Events'
    <3>1. target' = [target EXCEPT ![t] = NoId]
          /\ \E from : At(t, from, "idle")
      BY <2>6 DEF LocalStoreSelf, LocalRecord
    <3>2. Targets'
      BY <1>0, <3>1 DEF Targets, At, LocalTypeOK
    <3>3. CASE LocalStoreSelf(t)
      BY <1>2, <3>2, <3>3 DEF LocalStoreSelf
    <3>4. CASE LocalRecord(t)
      <4>1. target[t] \in Ids /\ target[t] \in Accounted
        BY <1>0, <3>4 DEF LocalRecord, At, LocalTypeOK, Targets
      <4>2. mLocalState'.events \subseteq mLocalState.events \cup {target[t]}
        BY <3>4, <4>1, StatsEvents DEF LocalRecord
      <4> QED
        BY <1>0, <3>2, <4>1, <4>2 DEF Events
    <3> QED
      BY <2>6, <3>3, <3>4
  <2> QED
    BY <1>7, <2>1, <2>2, <2>3, <2>4, <2>5, <2>6 DEF LocalCombat
<1>8. CASE PeerCombat
  BY <1>1, <1>2, <1>8
     DEF PeerCombat, PeerBegin, PeerHeal, PeerInsert, PeerEnterCombat,
         PeerDamage, PeerExitCombat, PeerIgnore, PeerRecord, PeerUpdate,
         PeerFind, PeerEnd, stateVars
<1>9. CASE GetState
  BY <1>1, <1>2, <1>9
     DEF GetState, SkipPeer, GetPeerStats, GetPeerAgents, GetBegin,
         GetLocalStats, GetLocalAgents, CopyPeers, GetEnd, stateVars
<1> QED
  BY <1>5, <1>6, <1>7, <1>8, <1>9 DEF Next

(* Every step keeps the peers, and what is recorded of them, among the     *)
(* agents that are known.                                                  *)
LEMMA PeersKnown ==
  ASSUME TypeOK, ReferencesAgree, KnownInv, [Next]_vars
  PROVE  /\ \A o \in Objects : heap'[o].events \subseteq Known'
         /\ PeerIds' \subseteq Known'
         /\ peer' # "idle" => peerUniqueId' \in Known'
         /\ peer' = "healed" => dstUniqueId' \in Known'
<1> DEFINE Heap == \A o \in Objects : heap[o].events \subseteq Known
           Peers == PeerIds \subseteq Known
           Ends == /\ peer # "idle" => peerUniqueId \in Known
                   /\ peer = "healed" => dstUniqueId \in Known
<1> SUFFICES Heap' /\ Peers' /\ Ends'
  OBVIOUS
<1>0. Heap /\ Peers /\ Ends /\ Known \subseteq Known'
  BY KnownGrows DEF KnownInv
<1>1. ASSUME UNCHANGED peerVars
      PROVE  Ends'
  BY <1>0, <1>1 DEF peerVars
<1>2. ASSUME NEW o \in Objects, NEW s, heap' = [heap EXCEPT ![o] = s],
             s.events \subseteq Known'
      PROVE  Heap'
  BY <1>0, <1>2 DEF TypeOK, StateTypeOK
<1>3. ASSUME UNCHANGED heap
      PROVE  Heap'
  BY <1>0, <1>3
<1>4. ASSUME PeerIds' \subseteq PeerIds
      PROVE  Peers'
  BY <1>0, <1>4
<1>5. ASSUME UNCHANGED mPeerStates
      PROVE  Peers'
  BY <1>4, <1>5 DEF PeerIds
<1>6. ASSUME NEW o \in Objects
      PROVE  heap[o].events \subseteq Known'
  BY <1>0
<1>7. LoopOnMap
  BY DEF ReferencesAgree
<1> HIDE DEF Heap, Peers, Ends
<1>8. CASE UNCHANGED vars
  BY <1>1, <1>3, <1>5, <1>8 DEF vars, stateVars
<1>9. CASE AreaCombat
  <2>1. ASSUME NEW u \in Ids, NEW time \in Times, AreaDeregister(u, time)
        PROVE  Heap'
    <3>1. mPeerStates[u] \in Objects
      BY <2>1 DEF AreaDeregister, PeerIds, TypeOK, StateTypeOK
    <3>2. ExitedCombat(heap[mPeerStates[u]], time, 0).events
            = heap[mPeerStates[u]].events
      BY <3>1, StatsEvents DEF TypeOK, StateTypeOK
    <3> QED
      BY <1>2, <1>6, <2>1, <3>1, <3>2 DEF AreaDeregister
  <2>2. ASSUME NEW u \in Ids, NEW i \in InstIds, NEW k \in Kinds,
               AreaRegister(u, i, k)
        PROVE  Heap'
    BY <1>3, <2>2 DEF AreaRegister, stateVars
  <2>3. UNCHANGED <<peerVars, mPeerStates>>
    BY <1>9 DEF AreaCombat, AreaRegister, AreaDeregister, stateVars
  <2> QED
    BY <1>1, <1>5, <1>9, <2>1, <2>2, <2>3 DEF AreaCombat
<1>10. ASSUME NEW t \in Threads, LocalCombat(t)
       PROVE  Heap' /\ Peers' /\ Ends'
  <2>1. UNCHANGED peerVars
    BY <1>10
       DEF LocalCombat, LocalRegister, LocalHeal, LocalDeregister,
           LocalExitCombat, LocalDamage, LocalUpdate, LocalEnterCombat,
           ResetPeer, ErasePeer, KeepPeer, NextPeer, LocalStoreSelf, LockPeers,
           UnlockPeers, LocalRecord
  <2>2. ASSUME NEW u \in Ids, ResetPeer(t, u)
        PROVE  Heap'
    <3>1. mPeerStates[u] \in Objects
      BY <1>7, <2>2 DEF ResetPeer, First, LoopOnMap, PeerIds, TypeOK,
                        StateTypeOK
    <3>2. ResetIfNotInCombat(heap[mPeerStates[u]]).events
            \subseteq heap[mPeerStates[u]].events
      BY <3>1, StatsEvents DEF TypeOK, StateTypeOK
    <3> QED
      BY <1>2, <1>6, <2>2, <3>1, <3>2 DEF ResetPeer
  <2>3. ASSUME NEW u \in Ids, ErasePeer(t, u)
        PROVE  Heap' /\ PeerIds' \subseteq PeerIds
    <3>1. u \in PeerIds /\ mPeerStates[u] \in Objects
      BY <1>7, <2>3 DEF ErasePeer, NextPeer, First, LoopOnMap, PeerIds,
                        TypeOK, StateTypeOK
    <3>2. Fresh.events = {}
      BY DEF Fresh
    <3>3. Heap'
      BY <1>2, <2>3, <3>1, <3>2 DEF ErasePeer
    <3>4. PeerIds' \subseteq PeerIds
      BY <2>3 DEF ErasePeer, PeerIds, TypeOK, StateTypeOK
    <3> QED
      BY <3>3, <3>4
  <2>4. UNCHANGED <<heap, mPeerStates>>
        \/ \E u \in Ids : ResetPeer(t, u) \/ ErasePeer(t, u)
    BY <1>10
       DEF LocalCombat, LocalRegister, LocalHeal, LocalDeregister,
           LocalExitCombat, LocalDamage, LocalUpdate, LocalEnterCombat,
           KeepPeer, LocalStoreSelf, LockPeers, UnlockPeers, LocalRecord,
           stateVars
  <2>5. ASSUME NEW u \in Ids, ResetPeer(t, u)
        PROVE  UNCHANGED mPeerStates
    BY <2>5 DEF ResetPeer
  <2> QED
    BY <1>1, <1>3, <1>4, <1>5, <2>1, <2>2, <2>3, <2>4, <2>5
<1>11. CASE PeerCombat
  <2>1. ASSUME NEW s, PeerUpdate(s), state \in Objects,
               s.events \subseteq Known'
        PROVE  Heap' /\ Peers' /\ Ends'
    <3>1. Heap'
      BY <1>2, <2>1 DEF PeerUpdate
    <3>2. peerUniqueId \in Known
      BY <1>0, <2>1 DEF Ends, TypeOK, PeerTypeOK
    <3>3. Ends'
      BY <1>0, <2>1, <3>2 DEF PeerUpdate, Ends
    <3> QED
      BY <1>5, <2>1, <3>1, <3>3 DEF PeerUpdate
  <2>2. peer \in {"held", "healed"}
          => state \in Objects /\ heap[state] \in StatsOf(Times, Ids)
    BY DEF TypeOK, StateTypeOK, PeerTypeOK
  <2>3. ASSUME NEW time \in Times, NEW last \in Times \cup {0},
               \/ PeerEnterCombat(time) \/ PeerDamage(time)
               \/ PeerExitCombat(time, last)
        PROVE  Heap' /\ Peers' /\ Ends'
    <3>1. state \in Objects /\ heap[state] \in StatsOf(Times, Ids)
      BY <2>2, <2>3 DEF PeerEnterCombat, PeerDamage, PeerExitCombat
    <3>2. /\ EnteredCombat(heap[state], time).events \subseteq Known'
          /\ DamageEvent(heap[state], time).events \subseteq Known'
          /\ ExitedCombat(heap[state], time, last).events \subseteq Known'
      BY <1>6, <3>1, StatsEvents
    <3> QED
      BY <2>1, <2>3, <3>1, <3>2
         DEF PeerEnterCombat, PeerDamage, PeerExitCombat
  <2>4. ASSUME NEW time \in Times, PeerEnterCombat(time) \/ PeerDamage(time)
        PROVE  Heap' /\ Peers' /\ Ends'
    BY <2>3, <2>4
  <2>5. ASSUME PeerIgnore \/ PeerRecord
        PROVE  Heap' /\ Peers' /\ Ends'
    <3>1. state \in Objects /\ heap[state] \in StatsOf(Times, Ids)
      BY <2>2, <2>5 DEF PeerIgnore, PeerRecord
    <3>2. CASE PeerIgnore
      BY <1>6, <2>1, <3>1, <3>2 DEF PeerIgnore
    <3>3. CASE PeerRecord
      <4>1. dstUniqueId \in Ids /\ dstUniqueId \in Known
        BY <1>0, <3>3 DEF PeerRecord, Ends, TypeOK, PeerTypeOK
      <4>2. HealingEvent(heap[state], dstUniqueId).events \subseteq Known'
        BY <1>0, <1>6, <3>1, <4>1, StatsEvents
      <4> QED
        BY <2>1, <3>1, <3>3, <4>2 DEF PeerRecord
    <3> QED
      BY <2>5, <3>2, <3>3
  <2>6. ASSUME NEW i \in InstIds, PeerBegin(i) \/ PeerHeal(i)
        PROVE  Heap' /\ Peers' /\ Ends'
    <3>1. GetUniqueId(i, FALSE) \in Known \cup {NoId}
          /\ GetUniqueId(i, TRUE) \in Known \cup {NoId}
      BY DEF KnownInv, GetUniqueId
    <3>2. Ends'
      BY <1>0, <2>6, <3>1 DEF PeerBegin, PeerHeal, Ends
    <3>3. UNCHANGED <<heap, mPeerStates>>
      BY <2>6 DEF PeerBegin, PeerHeal, stateVars
    <3> QED
      BY <1>3, <1>5, <3>2, <3>3
  <2>7. ASSUME NEW o \in Objects, PeerInsert(o)
        PROVE  Heap' /\ Peers' /\ Ends'
    <3>1. Fresh.events = {}
      BY DEF Fresh
    <3>2. Heap'
      BY <1>2, <2>7, <3>1 DEF PeerInsert
    <3>3. peerUniqueId \in Known
      BY <1>0, <2>7 DEF PeerInsert, Ends
    <3>4. PeerIds' \subseteq PeerIds \cup {peerUniqueId}
      BY <2>7 DEF PeerInsert, PeerIds, TypeOK, StateTypeOK
    <3>5. Peers'
      BY <1>0, <3>3, <3>4 DEF Peers
    <3>6. Ends'
      BY <1>0, <2>7, <3>3 DEF PeerInsert, Ends
    <3> QED
      BY <3>2, <3>5, <3>6
  <2>8. ASSUME PeerFind \/ PeerEnd
        PROVE  Heap' /\ Peers' /\ Ends'
    <3>1. Ends'
      BY <1>0, <2>8 DEF PeerFind, PeerEnd, Ends
    <3>2. UNCHANGED <<heap, mPeerStates>>
      BY <2>8 DEF PeerFind, PeerEnd, stateVars
    <3> QED
      BY <1>3, <1>5, <3>1, <3>2
  <2>9. \A time \in Times, last \in Times \cup {0} :
          PeerExitCombat(time, last) => Heap' /\ Peers' /\ Ends'
    BY <2>3
  <2> QED
    BY <1>11, <2>4, <2>5, <2>6, <2>7, <2>8, <2>9 DEF PeerCombat
<1>12. CASE GetState
  BY <1>1, <1>3, <1>5, <1>12
     DEF GetState, SkipPeer, GetPeerStats, GetPeerAgents, GetBegin,
         GetLocalStats, GetLocalAgents, CopyPeers, GetEnd, stateVars
<1> QED
  BY <1>8, <1>9, <1>10, <1>11, <1>12 DEF Next

(* Every step keeps what GetState has gathered among the agents that were  *)
(* known when it copied the table.                                         *)
LEMMA GatheredKnown ==
  ASSUME TypeOK, KnownInv, [Next]_vars
  PROVE  toGet' \subseteq Known' /\ used' \subseteq Accounted' /\ SnapshotMapped'
<1> DEFINE Gathered ==
             toGet \subseteq Known /\ used \subseteq Accounted /\ SnapshotMapped
<1> SUFFICES Gathered'
  OBVIOUS
<1>0. /\ Gathered
      /\ Known \subseteq Known' /\ Accounted \subseteq Accounted'
  BY KnownGrows, AccountedGrows DEF KnownInv
<1>1. ASSUME UNCHANGED getterVars
      PROVE  Gathered'
  BY <1>0, <1>1 DEF getterVars, SnapshotMapped
<1>2. CASE GetState
  <2>0. used \subseteq Accounted /\ toGet \subseteq Known
    BY <1>0
  <2>1. ASSUME NEW u \in Ids \cup {NoId}, GetAgents(u),
               u = pSelfUniqueId \/ u \in toGet
        PROVE  used' \subseteq Accounted' /\ SnapshotMapped'
    <3>1. (used \ nameless) \cup ({u} \ {pSelfUniqueId}) \subseteq Known
      BY <2>0, <2>1 DEF Accounted
    <3>2. used' = {} /\ result' = [result EXCEPT ![u] = TRUE]
      BY <2>1, <3>1 DEF GetAgents
    <3> QED
      BY <1>0, <3>2 DEF SnapshotMapped, TypeOK, GetterTypeOK
  <2>2. ASSUME NEW u \in Ids, GetPeerAgents(u)
        PROVE  Gathered'
    <3>1. GetAgents(u) /\ u \in toGet /\ toGet' \subseteq toGet
      BY <2>2 DEF GetPeerAgents, First
    <3>2. used' \subseteq Accounted' /\ SnapshotMapped'
      BY <2>1, <3>1
    <3> QED
      BY <1>0, <3>1, <3>2
  <2>3. ASSUME GetLocalAgents
        PROVE  Gathered'
    <3>1. GetAgents(pSelfUniqueId) /\ toGet' = toGet
      BY <2>3 DEF GetLocalAgents
    <3>2. pSelfUniqueId \in Ids \cup {NoId}
      BY DEF TypeOK, GetterTypeOK
    <3>3. used' \subseteq Accounted' /\ SnapshotMapped'
      BY <2>1, <3>1, <3>2
    <3> QED
      BY <1>0, <3>1, <3>3
  <2>4. ASSUME NEW u \in Ids, GetPeerStats(u)
        PROVE  Gathered'
    <3>1. peerStates[u] \in Objects
      BY <2>4 DEF GetPeerStats, First, TypeOK, GetterTypeOK
    <3>2. heap[peerStates[u]].events \subseteq Known
      BY <3>1 DEF KnownInv
    <3>3. used' \subseteq Accounted' /\ UNCHANGED <<toGet, result>>
      BY <1>0, <2>4, <3>2 DEF GetPeerStats, Accounted
    <3> QED
      BY <1>0, <3>3 DEF SnapshotMapped
  <2>5. ASSUME GetLocalStats
        PROVE  Gathered'
    BY <1>0, <2>5 DEF GetLocalStats, SnapshotMapped, KnownInv
  <2>6. ASSUME CopyPeers
        PROVE  Gathered'
    BY <1>0, <2>6 DEF CopyPeers, SnapshotMapped, KnownInv
  <2>7. ASSUME NEW u \in Ids, SkipPeer(u)
        PROVE  Gathered'
    BY <1>0, <2>7 DEF SkipPeer, SnapshotMapped
  <2>8. ASSUME GetBegin \/ GetEnd
        PROVE  Gathered'
    BY <1>0, <2>8 DEF GetBegin, GetEnd, SnapshotMapped
  <2> QED
    BY <1>2, <2>2, <2>3, <2>4, <2>5, <2>6, <2>7, <2>8 DEF GetState
<1> HIDE DEF Gathered
<1>3. CASE UNCHANGED vars
  BY <1>1, <1>3 DEF vars
<1>4. CASE AreaCombat
  BY <1>1, <1>4 DEF AreaCombat, AreaRegister, AreaDeregister
<1>5. ASSUME NEW t \in Threads, LocalCombat(t)
      PROVE  Gathered'
  BY <1>1, <1>5
     DEF LocalCombat, LocalRegister, LocalHeal, LocalDeregister,
         LocalExitCombat, LocalDamage, LocalUpdate, LocalEnterCombat,
         ResetPeer, ErasePeer, KeepPeer, NextPeer, LocalStoreSelf, LockPeers,
         UnlockPeers, LocalRecord
<1>6. CASE PeerCombat
  BY <1>1, <1>6
     DEF PeerCombat, PeerBegin, PeerHeal, PeerInsert, PeerEnterCombat,
         PeerDamage, PeerExitCombat, PeerIgnore, PeerRecord, PeerUpdate,
         PeerFind, PeerEnd
<1> QED
  BY <1>2, <1>3, <1>4, <1>5, <1>6 DEF Next

LEMMA InvInit ==
  ASSUME Init
  PROVE  IInv
<1>1. TypeOK
  BY TypeInit
<1>2. PeerIds = {}
  BY DEF Init, PeerIds
<1>3. ReferencesAgree
  BY <1>2, ConstantsAssumption
     DEF Init, ReferencesAgree, HeldIsCurrent, OwnObject, LoopOnMap
<1>4. KnownInv
  BY <1>2 DEF Init, TableInit, KnownInv, SnapshotMapped, Fresh
<1> QED
  BY <1>1, <1>3, <1>4 DEF IInv

LEMMA InvNext ==
  ASSUME IInv, [Next]_vars
  PROVE  IInv'
<1>1. TypeOK'
  BY TypeNext DEF IInv, ReferencesAgree
<1>2. ReferencesAgree'
  BY ReferencesNext DEF IInv
<1>3. KnownInv'
  BY TableKnown, RecordedKnown, PeersKnown, GatheredKnown DEF IInv, KnownInv
<1> QED
  BY <1>1, <1>2, <1>3 DEF IInv

THEOREM Invariant == Spec => []IInv
<1>1. Init => IInv
  BY InvInit
<1>2. IInv /\ [Next]_vars => IInv'
  BY InvNext
<1> QED
  BY <1>1, <1>2, PTL DEF Spec

(* Every variable keeps to its type, whichever agents, threads and objects *)
(* there are and however many calls are made.                              *)
THEOREM TypeCorrect == Spec => []TypeOK
<1>1. IInv => TypeOK
  BY DEF IInv
<1> QED
  BY <1>1, Invariant, PTL

(* The shared_ptrs that PeerCombat and GetState keep after releasing       *)
(* mPeerStatesLock always lead to the state that is in the map: ErasePeer's *)
(* unsynchronised use_count() never cuts off a state that is in use.       *)
THEOREM ReferencesAlwaysAgree == Spec => []ReferencesAgree
<1>1. IInv => ReferencesAgree
  BY DEF IInv
<1> QED
  BY <1>1, Invariant, PTL

(* GetState copies the table after the events and the peers after it has   *)
(* its references, so every agent whose name was told has it in a snapshot. *)
THEOREM SnapshotsAreMapped == Spec => []SnapshotMapped
<1>1. IInv => SnapshotMapped
  BY DEF IInv, KnownInv
<1> QED
  BY <1>1, Invariant, PTL

LEMMA CombatStep ==
  ASSUME TypeOK, ReferencesAgree, [Next]_vars
  PROVE  /\ Keeps(mLocalState, mLocalState')
         /\ \A u \in PeerIds : mPeerStates'[u] = mPeerStates[u]
              => Keeps(heap[mPeerStates[u]], heap'[mPeerStates[u]])
<1> DEFINE Local == Keeps(mLocalState, mLocalState')
           Peers == \A u \in PeerIds : mPeerStates'[u] = mPeerStates[u]
                      => Keeps(heap[mPeerStates[u]], heap'[mPeerStates[u]])
<1> SUFFICES Local /\ Peers
  OBVIOUS
<1>0. HeldIsCurrent /\ OwnObject /\ LoopOnMap
  BY DEF ReferencesAgree
<1>1. /\ mLocalState \in StatsOf(Times, Ids)
      /\ \A o \in Objects : heap[o] \in StatsOf(Times, Ids)
      /\ \A u \in PeerIds : mPeerStates[u] \in Objects
  BY DEF TypeOK, StateTypeOK, PeerIds
<1>2. ASSUME UNCHANGED mLocalState
      PROVE  Local
  BY <1>2 DEF Keeps
<1>3. ASSUME UNCHANGED heap
      PROVE  Peers
  BY <1>3 DEF Keeps
<1>4. ASSUME NEW o \in Objects, NEW s, heap' = [heap EXCEPT ![o] = s],
             \/ Keeps(heap[o], s)
             \/ \A u \in PeerIds : mPeerStates'[u] = mPeerStates[u]
                  => mPeerStates[u] # o
      PROVE  Peers
  <2>1. \A p \in Objects : Keeps(heap[p], heap[p])
    BY DEF Keeps
  <2> QED
    BY <1>1, <1>4, <2>1 DEF TypeOK, StateTypeOK
<1> HIDE DEF Local, Peers
<1>5. CASE UNCHANGED vars
  BY <1>2, <1>3, <1>5 DEF vars, stateVars
<1>6. CASE AreaCombat
  <2>1. ASSUME NEW u \in Ids, NEW time \in Times, AreaDeregister(u, time)
        PROVE  Peers
    <3>1. mPeerStates[u] \in Objects
      BY <1>1, <2>1 DEF AreaDeregister
    <3>2. Keeps(heap[mPeerStates[u]],
                ExitedCombat(heap[mPeerStates[u]], time, 0))
      BY <1>1, <3>1, StatsEvents
    <3> QED
      BY <1>4, <2>1, <3>1, <3>2 DEF AreaDeregister
  <2>2. ASSUME NEW u \in Ids, NEW i \in InstIds, NEW k \in Kinds,
               AreaRegister(u, i, k)
        PROVE  Peers
    BY <1>3, <2>2 DEF AreaRegister, stateVars
  <2>3. UNCHANGED mLocalState
    BY <1>6 DEF AreaCombat, AreaRegister, AreaDeregister, stateVars
  <2> QED
    BY <1>2, <1>6, <2>1, <2>2, <2>3 DEF AreaCombat
<1>7. ASSUME NEW t \in Threads, LocalCombat(t)
      PROVE  Local /\ Peers
  <2>1. ASSUME NEW time \in Times,
               \/ LocalDeregister(t, time) \/ LocalExitCombat(t, time)
               \/ LocalDamage(t, time)
               \/ \E self \in BOOLEAN : LocalEnterCombat(t, self, time)
        PROVE  Local /\ Peers
    <3>1. Local
      BY <1>1, <2>1, StatsEvents
         DEF LocalDeregister, LocalExitCombat, LocalDamage, LocalUpdate,
             LocalEnterCombat, Local
    <3>2. UNCHANGED heap
      BY <2>1 DEF LocalDeregister, LocalExitCombat, LocalDamage, LocalUpdate,
                  LocalEnterCombat
    <3> QED
      BY <1>3, <3>1, <3>2
  <2>2. ASSUME LocalRecord(t)
        PROVE  Local /\ Peers
    <3>1. target[t] \in Ids
      BY <2>2 DEF LocalRecord, At, TypeOK, LocalTypeOK
    <3>2. Local
      BY <1>1, <2>2, <3>1, StatsEvents DEF LocalRecord, Local
    <3>3. UNCHANGED heap
      BY <2>2 DEF LocalRecord
    <3> QED
      BY <1>3, <3>2, <3>3
  <2>3. ASSUME NEW u \in Ids, ResetPeer(t, u)
        PROVE  Local /\ Peers
    <3>1. mPeerStates[u] \in Objects
      BY <1>0, <1>1, <2>3 DEF ResetPeer, First, LoopOnMap
    <3>2. Keeps(heap[mPeerStates[u]],
                ResetIfNotInCombat(heap[mPeerStates[u]]))
      BY <1>1, <3>1, StatsEvents
    <3>3. Peers
      BY <1>4, <2>3, <3>1, <3>2 DEF ResetPeer
    <3> QED
      BY <1>2, <2>3, <3>3 DEF ResetPeer
  <2>4. ASSUME NEW u \in Ids, ErasePeer(t, u)
        PROVE  Local /\ Peers
    <3>1. u \in PeerIds /\ mPeerStates[u] \in Objects
      BY <1>0, <1>1, <2>4 DEF ErasePeer, NextPeer, First, LoopOnMap
    <3>2. \A v \in PeerIds : mPeerStates'[v] = mPeerStates[v]
            => mPeerStates[v] # mPeerStates[u]
      BY <1>0, <2>4, <3>1, ConstantsAssumption
         DEF ErasePeer, OwnObject, PeerIds, TypeOK, StateTypeOK
    <3>3. Peers
      BY <1>4, <2>4, <3>1, <3>2 DEF ErasePeer
    <3> QED
      BY <1>2, <2>4, <3>3 DEF ErasePeer, NextPeer
  <2>5. ASSUME \/ LocalStoreSelf(t) \/ LockPeers(t) \/ UnlockPeers(t)
               \/ \E u \in Ids : \/ KeepPeer(t, u)
                                \/ \E i \in InstIds : \/ LocalRegister(t, u, i)
                                                     \/ LocalHeal(t, u, i)
        PROVE  Local /\ Peers
    BY <1>2, <1>3, <2>5
       DEF LocalStoreSelf, LockPeers, UnlockPeers, KeepPeer, NextPeer,
           LocalRegister, LocalHeal, stateVars
  <2> QED
    BY <1>7, <2>1, <2>2, <2>3, <2>4, <2>5 DEF LocalCombat
<1>8. CASE PeerCombat
  <2>1. peer \in {"held", "healed"}
          => state \in Objects /\ heap[state] \in StatsOf(Times, Ids)
    BY DEF TypeOK, StateTypeOK, PeerTypeOK
  <2>2. ASSUME NEW s, state \in Objects, Keeps(heap[state], s), PeerUpdate(s)
        PROVE  Local /\ Peers
    BY <1>2, <1>4, <2>2 DEF PeerUpdate
  <2>3. ASSUME NEW time \in Times, PeerEnterCombat(time) \/ PeerDamage(time)
        PROVE  Local /\ Peers
    BY <2>1, <2>2, <2>3, StatsEvents DEF PeerEnterCombat, PeerDamage
  <2>4. ASSUME NEW time \in Times, NEW last \in Times \cup {0},
               PeerExitCombat(time, last)
        PROVE  Local /\ Peers
    BY <2>1, <2>2, <2>4, StatsEvents DEF PeerExitCombat
  <2>5. ASSUME PeerIgnore \/ PeerRecord
        PROVE  Local /\ Peers
    <3>1. PeerRecord => dstUniqueId \in Ids
      BY DEF PeerRecord, TypeOK, PeerTypeOK
    <3> QED
      BY <2>1, <2>2, <2>5, <3>1, StatsEvents DEF PeerIgnore, PeerRecord
  <2>6. ASSUME NEW o \in Objects, PeerInsert(o)
        PROVE  Local /\ Peers
    <3>1. \A u \in PeerIds : mPeerStates[u] # o
      BY <2>6 DEF PeerInsert, Unused, PeerIds
    <3>2. Peers
      BY <1>4, <2>6, <3>1 DEF PeerInsert
    <3> QED
      BY <1>2, <2>6, <3>2 DEF PeerInsert
  <2>7. ASSUME PeerFind \/ PeerEnd
               \/ \E i \in InstIds : PeerBegin(i) \/ PeerHeal(i)
        PROVE  Local /\ Peers
    BY <1>2, <1>3, <2>7 DEF PeerFind, PeerEnd, PeerBegin, PeerHeal, stateVars
  <2> QED
    BY <1>8, <2>3, <2>4, <2>5, <2>6, <2>7 DEF PeerCombat
<1>9. CASE GetState
  BY <1>2, <1>3, <1>9
     DEF GetState, SkipPeer, GetPeerStats, GetPeerAgents, GetBegin,
         GetLocalStats, GetLocalAgents, CopyPeers, GetEnd, stateVars
<1> QED
  BY <1>5, <1>6, <1>7, <1>8, <1>9 DEF Next

(* Whoever is in combat keeps the beginning of its fight and what was      *)
(* recorded since, whatever others do, as long as its state is not erased. *)
THEOREM CombatsAreKept == Spec => CombatIsKept
<1>1. IInv /\ [Next]_vars
        => [/\ Keeps(mLocalState, mLocalState')
            /\ \A u \in PeerIds : mPeerStates'[u] = mPeerStates[u]
                 => Keeps(heap[mPeerStates[u]], heap'[mPeerStates[u]])]_vars
  BY CombatStep DEF IInv
<1> QED
  BY <1>1, Invariant, PTL DEF Spec, CombatIsKept
=============================================================================
