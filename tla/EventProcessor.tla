--------------------------- MODULE EventProcessor ---------------------------
(***************************************************************************)
(* The event processor of the addon (src/EventProcessor.h and .cpp): who   *)
(* healed whom in the current fight, for the local player and for every    *)
(* peer whose events the client receives.                                  *)
(*                                                                         *)
(*   - arcdps' threads call AreaCombat and LocalCombat;                    *)
(*   - the client's thread calls PeerCombat, one event at a time;          *)
(*   - the aggregation thread calls GetState.                              *)
(*                                                                         *)
(* An action is what a thread does under one lock. mPeerStatesLock is held *)
(* across several of them by LocalCombat only (mPeerStatesLock is its      *)
(* holder); the other users need it free. A peer's PlayerStats is an       *)
(* object that the map and the threads share by shared_ptr.                *)
(*                                                                         *)
(* Event times are those of the machine that saw the event; timeGetTime is *)
(* the local machine's. Times of different machines are unrelated.         *)
(***************************************************************************)
EXTENDS AgentTable, PlayerStats, FiniteSets

CONSTANTS
  Threads,      (* arcdps' threads inside LocalCombat                       *)
  NoThread,     (* nobody holds the lock                                    *)
  Objects,      (* PlayerStats that make_shared can return                  *)
  NoObject,     (* a null shared_ptr                                        *)
  Times,        (* times of events and of timeGetTime                       *)
  SelfIds,      (* unique ids the local player may have                     *)
  Owns,         (* <<u, i>>: agent u may have instance id i                 *)
  MaxCalls      (* bound on the calls made by arcdps and by the client      *)

ASSUME ConstantsAssumption ==
  /\ Ids \subseteq Nat
  /\ Times \subseteq Nat \ {0}
  /\ NoId \notin Ids
  /\ SelfIds \subseteq Ids
  /\ Owns \subseteq Ids \X InstIds
  /\ MaxCalls \in Nat
  /\ NoThread \notin Threads
  /\ NoObject \notin Objects

VARIABLES
  calls,            (* calls made so far (history, for the bound)           *)
  nameless,         (* unknown agents healed without a name (history)       *)
  mSelfUniqueId,    (* unique id of the local player, if known yet          *)
  mLocalState,      (* the local player's statistics                        *)
  mPeerStates,      (* the peers' states by unique id                       *)
  mPeerStatesLock,  (* who holds the lock of that name                      *)
  heap,             (* the contents of the objects                          *)
  local,            (* LocalCombat: where each thread is,                   *)
  target,           (* the agent it is about to register or record,         *)
  iter,             (* the peers its loop has still to visit                *)
  peer,             (* PeerCombat: where the client's thread is,            *)
  peerUniqueId,     (* its local of that name,                              *)
  state,            (* its shared_ptr to the peer's state,                  *)
  dstUniqueId,      (* its local of that name                               *)
  getter,           (* GetState: where the aggregation thread is,           *)
  pSelfUniqueId,    (* the local player's id it read,                       *)
  peerStates,       (* its copy of mPeerStates,                             *)
  toGet,            (* the peers its loop has still to visit,               *)
  used,             (* the agents in the events it has just copied,         *)
  result            (* per player: whether it has a name for all of those   *)

localVars  == <<local, target, iter>>
peerVars   == <<peer, peerUniqueId, state, dstUniqueId>>
getterVars == <<getter, pSelfUniqueId, peerStates, toGet, used, result>>
stateVars  == <<mSelfUniqueId, mLocalState, mPeerStates, mPeerStatesLock,
                heap>>
callVars   == <<calls, nameless, tableVars>>
vars       == <<callVars, stateVars, localVars, peerVars, getterVars>>

PeerIds  == {u \in Ids : mPeerStates[u] # NoObject}
LockFree == mPeerStatesLock = NoThread

(* The shared_ptrs to an object other than the map's: use_count() is 1     *)
(* when there are none.                                                    *)
Unshared(o) == state # o /\ \A u \in Ids : peerStates[u] # o
Unused(o)   == Unshared(o) /\ \A u \in Ids : mPeerStates[u] # o

(* A call arcdps or the client makes, as long as the bound allows.         *)
NewCall == calls < MaxCalls /\ calls' = calls + 1

First(u, S) == u \in S /\ \A v \in S : u <= v

Init ==
  /\ TableInit
  /\ calls = 0
  /\ nameless = {}
  /\ mSelfUniqueId = NoId
  /\ mLocalState = Fresh
  /\ mPeerStates = [u \in Ids |-> NoObject]
  /\ mPeerStatesLock = NoThread
  /\ heap = [o \in Objects |-> Fresh]
  /\ local = [t \in Threads |-> "idle"]
  /\ target = [t \in Threads |-> NoId]
  /\ iter = [t \in Threads |-> {}]
  /\ peer = "idle"
  /\ peerUniqueId = NoId
  /\ state = NoObject
  /\ dstUniqueId = NoId
  /\ getter = "idle"
  /\ pSelfUniqueId = NoId
  /\ peerStates = [u \in Ids |-> NoObject]
  /\ toGet = {}
  /\ used = {}
  /\ result = [u \in Ids \cup {NoId} |-> TRUE]

-----------------------------------------------------------------------------
(* AreaCombat *)

(* An agent is registered or enters combat. (LocalCombat registers agents  *)
(* other than the local player in the same way.)                           *)
AreaRegister(u, i, kind) ==
  /\ NewCall
  /\ AddAgent(u, i, kind)
  /\ UNCHANGED <<nameless, stateVars, localVars, peerVars, getterVars>>

(* An agent is deregistered: "If it's a known player, process implicit     *)
(* combat exit".                                                           *)
AreaDeregister(u, now) ==
  /\ NewCall
  /\ LockFree
  /\ u \in PeerIds
  /\ heap' = [heap EXCEPT ![mPeerStates[u]] = ExitedCombat(@, now, 0)]
  /\ UNCHANGED <<nameless, tableVars, mSelfUniqueId, mLocalState, mPeerStates,
                 mPeerStatesLock, localVars, peerVars, getterVars>>

-----------------------------------------------------------------------------
(* LocalCombat *)

At(t, from, to) == local[t] = from /\ local' = [local EXCEPT ![t] = to]

(* The local player is registered; its id is stored once it is in the table. *)
LocalRegister(t, u, i) ==
  /\ NewCall
  /\ At(t, "idle", "registered")
  /\ AddAgent(u, i, "player")
  /\ target' = [target EXCEPT ![t] = u]
  /\ UNCHANGED <<nameless, stateVars, iter, peerVars, getterVars>>

LocalStoreSelf(t) ==
  /\ At(t, "registered", "idle")
  /\ mSelfUniqueId' = target[t]
  /\ target' = [target EXCEPT ![t] = NoId]
  /\ UNCHANGED <<callVars, mLocalState, mPeerStates, mPeerStatesLock, heap,
                 iter, peerVars, getterVars>>

(* What one lock of the local player's statistics is taken for: exiting    *)
(* combat by event or by deregistration, or a damage event.                *)
LocalUpdate(s) ==
  /\ NewCall
  /\ mLocalState' = s
  /\ UNCHANGED <<nameless, tableVars, mSelfUniqueId, mPeerStates,
                 mPeerStatesLock, heap, localVars, peerVars, getterVars>>

LocalDeregister(t, now) ==
  /\ local[t] = "idle"
  /\ mSelfUniqueId # NoId
  /\ LocalUpdate(ExitedCombat(mLocalState, now, 0))

LocalExitCombat(t, time) ==
  /\ local[t] = "idle"
  /\ LocalUpdate(ExitedCombat(mLocalState, time, 0))

LocalDamage(t, time) ==
  /\ local[t] = "idle"
  /\ LocalUpdate(DamageEvent(mLocalState, time))

(* An agent enters combat, the local player or somebody else: after that   *)
(* the peers that are not in combat are reset.                             *)
LocalEnterCombat(t, self, time) ==
  /\ NewCall
  /\ At(t, "idle", "locking")
  /\ mLocalState' = IF self THEN EnteredCombat(mLocalState, time)
                            ELSE mLocalState
  /\ UNCHANGED <<nameless, tableVars, mSelfUniqueId, mPeerStates,
                 mPeerStatesLock, heap, target, iter, peerVars, getterVars>>

LockPeers(t) ==
  /\ At(t, "locking", "loop")
  /\ LockFree
  /\ mPeerStatesLock' = t
  /\ iter' = [iter EXCEPT ![t] = PeerIds]
  /\ UNCHANGED <<callVars, mSelfUniqueId, mLocalState, mPeerStates, heap,
                 target, peerVars, getterVars>>

(* ResetIfNotInCombat takes and releases the lock of the peer's state. *)
ResetPeer(t, u) ==
  /\ local[t] = "loop"
  /\ First(u, iter[t])
  /\ heap' = [heap EXCEPT ![mPeerStates[u]] = ResetIfNotInCombat(@)]
  /\ IF IsOutOfCombat(heap[mPeerStates[u]])
     THEN /\ local' = [local EXCEPT ![t] = "counting"]
          /\ UNCHANGED iter
     ELSE /\ iter' = [iter EXCEPT ![t] = @ \ {u}]
          /\ UNCHANGED local
  /\ UNCHANGED <<callVars, mSelfUniqueId, mLocalState, mPeerStates,
                 mPeerStatesLock, target, peerVars, getterVars>>

NextPeer(t, u) ==
  /\ At(t, "counting", "loop")
  /\ First(u, iter[t])
  /\ iter' = [iter EXCEPT ![t] = @ \ {u}]
  /\ UNCHANGED <<callVars, mSelfUniqueId, mLocalState, mPeerStatesLock, target,
                 peerVars, getterVars>>

(* Variant for the mutation checks: erased whoever refers to it.           *)
ErasePeer_Shared(t, u) ==
  /\ NextPeer(t, u)
  /\ mPeerStates' = [mPeerStates EXCEPT ![u] = NoObject]
  /\ UNCHANGED heap

(* The state that was reset is erased if use_count() is 1. An object that  *)
(* nobody refers to any more is as good as new.                            *)
ErasePeer(t, u) ==
  /\ NextPeer(t, u)
  /\ Unshared(mPeerStates[u])
  /\ mPeerStates' = [mPeerStates EXCEPT ![u] = NoObject]
  /\ heap' = [heap EXCEPT ![mPeerStates[u]] = Fresh]

KeepPeer(t, u) ==
  /\ NextPeer(t, u)
  /\ ~ Unshared(mPeerStates[u])
  /\ UNCHANGED <<mPeerStates, heap>>

UnlockPeers(t) ==
  /\ At(t, "loop", "idle")
  /\ iter[t] = {}
  /\ mPeerStatesLock' = NoThread
  /\ UNCHANGED <<callVars, mSelfUniqueId, mLocalState, mPeerStates, heap,
                 target, iter, peerVars, getterVars>>

(* Variant for the mutation checks: the agent is not entered.              *)
LocalHeal_NotEntered(t, u, i) ==
  /\ NewCall
  /\ At(t, "idle", "healed")
  /\ target' = [target EXCEPT ![t] = u]
  /\ UNCHANGED <<nameless, tableVars, stateVars, iter, peerVars, getterVars>>

(* A heal or a barrier of the local player or of its minion: the agent it  *)
(* went to is entered in the table if the event tells its name, then the   *)
(* event is recorded.                                                      *)
LocalHeal(t, u, i) ==
  /\ NewCall
  /\ At(t, "idle", "healed")
  /\ \/ AddAgent(u, i, "unsaid") /\ UNCHANGED nameless
     \/ UNCHANGED tableVars /\ nameless' = nameless \cup ({u} \ Known)
  /\ target' = [target EXCEPT ![t] = u]
  /\ UNCHANGED <<stateVars, iter, peerVars, getterVars>>

LocalRecord(t) ==
  /\ At(t, "healed", "idle")
  /\ mLocalState' = HealingEvent(mLocalState, target[t])
  /\ target' = [target EXCEPT ![t] = NoId]
  /\ UNCHANGED <<callVars, mSelfUniqueId, mPeerStates, mPeerStatesLock, heap,
                 iter, peerVars, getterVars>>

-----------------------------------------------------------------------------
(* PeerCombat *)

(* The instance id of the peer is looked up; the event of an unknown peer  *)
(* is dropped.                                                             *)
PeerBegin(i) ==
  /\ NewCall
  /\ peer = "idle"
  /\ GetUniqueId(i, FALSE) # NoId
  /\ peer' = "known"
  /\ peerUniqueId' = GetUniqueId(i, FALSE)
  /\ UNCHANGED <<nameless, tableVars, stateVars, localVars, state, dstUniqueId,
                 getterVars>>

(* The reference is copied while the map is locked: to the state of the    *)
(* peer, which is created if there is none.                                *)
PeerFind ==
  /\ peer = "known"
  /\ LockFree
  /\ mPeerStates[peerUniqueId] # NoObject
  /\ state' = mPeerStates[peerUniqueId]
  /\ peer' = "held"
  /\ UNCHANGED <<callVars, stateVars, localVars, peerUniqueId, dstUniqueId,
                 getterVars>>

PeerInsert(o) ==
  /\ peer = "known"
  /\ LockFree
  /\ mPeerStates[peerUniqueId] = NoObject
  /\ Unused(o)
  /\ mPeerStates' = [mPeerStates EXCEPT ![peerUniqueId] = o]
  /\ heap' = [heap EXCEPT ![o] = Fresh]
  /\ state' = o
  /\ peer' = "held"
  /\ UNCHANGED <<callVars, mSelfUniqueId, mLocalState, mPeerStatesLock,
                 localVars, peerUniqueId, dstUniqueId, getterVars>>

(* What the state is updated with: the end of PeerCombat's work. *)
PeerUpdate(s) ==
  /\ heap' = [heap EXCEPT ![state] = s]
  /\ peer' = "leaving"
  /\ dstUniqueId' = NoId
  /\ UNCHANGED <<callVars, mSelfUniqueId, mLocalState, mPeerStates,
                 mPeerStatesLock, localVars, peerUniqueId, state, getterVars>>

PeerEnterCombat(time) ==
  peer = "held" /\ PeerUpdate(EnteredCombat(heap[state], time))

PeerExitCombat(time, last) ==
  peer = "held" /\ PeerUpdate(ExitedCombat(heap[state], time, last))

PeerDamage(time) ==
  peer = "held" /\ PeerUpdate(DamageEvent(heap[state], time))

(* An event that leaves the state alone: of another kind or source, or to  *)
(* an agent that is not known.                                             *)
PeerIgnore == peer = "held" /\ PeerUpdate(heap[state])

(* A heal or a barrier of the peer or of its minion: the agent it went to  *)
(* is looked up, then the event is recorded.                               *)
PeerHeal(j) ==
  /\ peer = "held"
  /\ GetUniqueId(j, TRUE) # NoId
  /\ peer' = "healed"
  /\ dstUniqueId' = GetUniqueId(j, TRUE)
  /\ UNCHANGED <<callVars, stateVars, localVars, peerUniqueId, state,
                 getterVars>>

PeerRecord ==
  peer = "healed" /\ PeerUpdate(HealingEvent(heap[state], dstUniqueId))

(* PeerCombat returns: its shared_ptr is gone. *)
PeerEnd ==
  /\ peer = "leaving"
  /\ peer' = "idle"
  /\ peerUniqueId' = NoId
  /\ state' = NoObject
  /\ UNCHANGED <<callVars, stateVars, localVars, dstUniqueId, getterVars>>

-----------------------------------------------------------------------------
(* GetState *)

GetBegin ==
  /\ getter = "idle"
  /\ getter' = "local"
  /\ pSelfUniqueId' = mSelfUniqueId
  /\ UNCHANGED <<callVars, stateVars, localVars, peerVars, peerStates, toGet,
                 used, result>>

GetLocalStats ==
  /\ getter = "local"
  /\ getter' = "local agents"
  /\ used' = mLocalState.events
  /\ UNCHANGED <<callVars, stateVars, localVars, peerVars, pSelfUniqueId,
                 peerStates, toGet, result>>

(* The table is copied after the statistics were. *)
GetAgents(u) ==
  /\ result' = [result EXCEPT ![u] =
       (used \ nameless) \cup ({u} \ {pSelfUniqueId}) \subseteq Known]
  /\ used' = {}

GetLocalAgents ==
  /\ getter = "local agents"
  /\ getter' = "map"
  /\ GetAgents(pSelfUniqueId)
  /\ UNCHANGED <<callVars, stateVars, localVars, peerVars, pSelfUniqueId,
                 peerStates, toGet>>

CopyPeers ==
  /\ getter = "map"
  /\ LockFree
  /\ getter' = "peers"
  /\ peerStates' = mPeerStates
  /\ toGet' = PeerIds
  /\ UNCHANGED <<callVars, stateVars, localVars, peerVars, pSelfUniqueId,
                 used, result>>

(* The local player's own id is skipped. *)
SkipPeer(u) ==
  /\ getter = "peers"
  /\ First(u, toGet)
  /\ u = pSelfUniqueId
  /\ toGet' = toGet \ {u}
  /\ UNCHANGED <<callVars, stateVars, localVars, peerVars, getter,
                 pSelfUniqueId, peerStates, used, result>>

GetPeerStats(u) ==
  /\ getter = "peers"
  /\ First(u, toGet)
  /\ u # pSelfUniqueId
  /\ getter' = "peer agents"
  /\ used' = heap[peerStates[u]].events
  /\ UNCHANGED <<callVars, stateVars, localVars, peerVars, pSelfUniqueId,
                 peerStates, toGet, result>>

GetPeerAgents(u) ==
  /\ getter = "peer agents"
  /\ First(u, toGet)
  /\ getter' = "peers"
  /\ GetAgents(u)
  /\ toGet' = toGet \ {u}
  /\ UNCHANGED <<callVars, stateVars, localVars, peerVars, pSelfUniqueId,
                 peerStates>>

(* GetState returns the result and gives up its references. *)
GetEnd ==
  /\ getter = "peers"
  /\ toGet = {}
  /\ getter' = "idle"
  /\ pSelfUniqueId' = NoId
  /\ peerStates' = [u \in Ids |-> NoObject]
  /\ result' = [u \in Ids \cup {NoId} |-> TRUE]
  /\ UNCHANGED <<callVars, stateVars, localVars, peerVars, toGet, used>>

-----------------------------------------------------------------------------
AreaCombat ==
  \/ \E u \in Ids, time \in Times : AreaDeregister(u, time)
  \/ \E u \in Ids, i \in InstIds, k \in Kinds :
       <<u, i>> \in Owns /\ AreaRegister(u, i, k)

LocalCombat(t) ==
  \/ \E u \in Ids, i \in InstIds :
       <<u, i>> \in Owns /\ \/ u \in SelfIds /\ LocalRegister(t, u, i)
                            \/ LocalHeal(t, u, i)
  \/ \E time \in Times : \/ LocalDeregister(t, time)
                          \/ LocalExitCombat(t, time)
                          \/ LocalDamage(t, time)
  \/ \E self \in BOOLEAN, time \in Times : LocalEnterCombat(t, self, time)
  \/ \E u \in Ids : ResetPeer(t, u) \/ ErasePeer(t, u) \/ KeepPeer(t, u)
  \/ LocalStoreSelf(t) \/ LockPeers(t) \/ UnlockPeers(t) \/ LocalRecord(t)

PeerCombat ==
  \/ \E i \in InstIds : PeerBegin(i) \/ PeerHeal(i)
  \/ \E o \in Objects : PeerInsert(o)
  \/ \E time \in Times : PeerEnterCombat(time) \/ PeerDamage(time)
  \/ \E time \in Times, last \in Times \cup {0} : PeerExitCombat(time, last)
  \/ PeerFind \/ PeerIgnore \/ PeerRecord \/ PeerEnd

GetState ==
  \/ \E u \in Ids : SkipPeer(u) \/ GetPeerStats(u) \/ GetPeerAgents(u)
  \/ GetBegin \/ GetLocalStats \/ GetLocalAgents \/ CopyPeers \/ GetEnd

Next ==
  \/ AreaCombat \/ PeerCombat \/ GetState
  \/ \E t \in Threads : LocalCombat(t)

Spec == Init /\ [][Next]_vars
-----------------------------------------------------------------------------
LocalPcs  == {"idle", "registered", "locking", "loop", "counting", "healed"}
GetterPcs == {"idle", "local", "local agents", "map", "peers", "peer agents"}

StateTypeOK ==
  /\ calls \in 0..MaxCalls
  /\ nameless \subseteq Ids
  /\ mSelfUniqueId \in Ids \cup {NoId}
  /\ mLocalState \in StatsOf(Times, Ids)
  /\ mPeerStates \in [Ids -> Objects \cup {NoObject}]
  /\ mPeerStatesLock \in Threads \cup {NoThread}
  /\ heap \in [Objects -> StatsOf(Times, Ids)]

LocalTypeOK ==
  /\ local \in [Threads -> LocalPcs]
  /\ target \in [Threads -> Ids \cup {NoId}]
  /\ iter \in [Threads -> SUBSET Ids]
  /\ \A t \in Threads :
       local[t] \in {"registered", "healed"} => target[t] \in Ids

PeerTypeOK ==
  /\ peer \in {"idle", "known", "held", "healed", "leaving"}
  /\ peerUniqueId \in Ids \cup {NoId}
  /\ state \in Objects \cup {NoObject}
  /\ dstUniqueId \in Ids \cup {NoId}
  /\ peer # "idle" => peerUniqueId \in Ids
  /\ state \in Objects <=> peer \in {"held", "healed", "leaving"}
  /\ peer = "healed" => dstUniqueId \in Ids

GetterTypeOK ==
  /\ getter \in GetterPcs
  /\ pSelfUniqueId \in Ids \cup {NoId}
  /\ peerStates \in [Ids -> Objects \cup {NoObject}]
  /\ toGet \subseteq {u \in Ids : peerStates[u] # NoObject}
  /\ used \subseteq Ids
  /\ result \in [Ids \cup {NoId} -> BOOLEAN]

TypeOK ==
  TableTypeOK /\ StateTypeOK /\ LocalTypeOK /\ PeerTypeOK /\ GetterTypeOK

(* Nobody works on a state that is no longer the one in the map: what      *)
(* PeerCombat records after it has left the lock is not lost, and GetState *)
(* copies no state that was thrown away.                                   *)
HeldIsCurrent ==
  /\ state # NoObject => mPeerStates[peerUniqueId] = state
  /\ \A u \in Ids : peerStates[u] # NoObject => mPeerStates[u] = peerStates[u]

(* Two peers never share a state. *)
OwnObject ==
  \A u, v \in PeerIds : mPeerStates[u] = mPeerStates[v] => u = v

(* The loop of LocalCombat runs under the lock, over peers in the map.     *)
LoopOnMap ==
  \A t \in Threads :
    /\ mPeerStatesLock = t <=> local[t] \in {"loop", "counting"}
    /\ iter[t] \subseteq PeerIds
    /\ iter[t] # {} => mPeerStatesLock = t

(* The references that threads keep over a release of mPeerStatesLock lead *)
(* to the state in the map, whatever PeerCombat, LocalCombat and GetState  *)
(* do in between.                                                          *)
ReferencesAgree == HeldIsCurrent /\ OwnObject /\ LoopOnMap

(* In what GetState has gathered, each agent that an event went to is in   *)
(* the table copied for that player, unless nobody had told its name when  *)
(* the event was recorded; and each peer is in it itself: the branch that  *)
(* names it "peer (unmapped)" is never taken.                              *)
SnapshotMapped == \A u \in Ids \cup {NoId} : result[u]

(* Who is in combat keeps the time it began and the events recorded since, *)
(* also when the local player or the peer itself enters combat once more,  *)
(* unless the state is erased (see ErasedIsIdle).                          *)
Keeps(s, r) ==
  ~ IsOutOfCombat(s) => r.entered = s.entered /\ s.events \subseteq r.events

CombatIsKept ==
  [][/\ Keeps(mLocalState, mLocalState')
     /\ \A u \in PeerIds : mPeerStates'[u] = mPeerStates[u]
          => Keeps(heap[mPeerStates[u]], heap'[mPeerStates[u]])]_vars

(* The comment at EventProcessor.cpp:321: reading use_count() without      *)
(* synchronisation is fine, at worst a state is kept that could have been  *)
(* erased. So a state that is erased is that of a peer that is not in      *)
(* combat ("Didn't clear stats ... they are already in combat").           *)
ErasedIsIdle ==
  [][\A u \in PeerIds : mPeerStates'[u] = NoObject
       => IsOutOfCombat(heap[mPeerStates[u]])]_vars

(* The comment at EventProcessor.cpp:122: when a known player is           *)
(* deregistered, that is its exit from combat.                             *)
ImplicitExit ==
  [][\A u \in PeerIds, time \in Times : AreaDeregister(u, time)
       => IsOutOfCombat(heap'[mPeerStates[u]])]_vars

=============================================================================
