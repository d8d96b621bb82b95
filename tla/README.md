# arcdps_healing_stats: a TLA+ verification project

arcdps_healing_stats is an addon for arcdps (a combat log reader of Guild Wars 2).
It counts the healing and barrier of the player, shares the player's combat events
with the other members of a squad through a small server (`evtc_rpc_server`) and
shows everybody's statistics. This directory holds TLA+ models of the parts of it
that are concurrent or hold state over long sequences of calls, TLC runs over small
instances of them, and theorems that TLAPS checks for every size.

Paths below are relative to the repository. `PROJECT.json` names, for every
definition, the lines it stands for.

## 1. The system

```
 arcdps threads                                client thread          evtc_rpc_server
 mod_combat_local -> EventSequencer            evtc_rpc_client        ServerFrontendGrpc
      -> ProcessLocalEvent ---+-> queue ------>   Serve   <== gRPC ==>   Serve
      -> EventProcessor       |                   |                       |
 mod_combat -> EventProcessor +-> mPeers ---------+                    evtc_rpc_server
                                                  |                    (registry of agents)
 aggregator thread             EventProcessor <---+ ProcessPeerEvent
 OffloadedStatsAggregation <---  GetState
      | one slot per window
 render thread: GUI            mod_init / mod_release start and stop all of it
```

| component | state | operations | hard behaviour | what makes it correct |
|---|---|---|---|---|
| EventSequencer (`src/EventSequencer.*`) | highest id passed on, slots for early events, shared mutex | `ProcessEvent`, `TryFlushEvents`, `QueueIsEmpty` | many threads, callback outside locks, slots claimed before the check | callbacks one at a time and in id order, no event lost, doubled or stranded |
| evtc_rpc_server (`networking/Server.*`) | table of registered accounts, each connection's registration, instance id and peers | `HandleRegisterSelf`, `HandleSetSelfId`, `HandleAddPeer`, `HandleRemovePeer`, `HandleCombatEvent`, `ForceDisconnect` | account taken over by a new connection, table read and connections used after unlock | the table and the connections agree; a disconnected connection is never registered |
| ServerFrontendGrpc (`networking/ServerFrontendGrpc.*`) | completion queue, per connection: write pending, queued events, disconnected; shutdown state | `Serve`, `SendEventToClient`, `ForceDisconnect`, `HandleConnect`, `HandleReadMessage`, `HandleWriteEvent`, `Shutdown` | asynchronous completions in any order, forced disconnect against pending writes, shutdown against all | one write at a time, events in order, no operation that gRPC does not allow (after Finish, or on a queue that is shut down), an orderly end |
| evtc_rpc_client (`networking/Client.*`) | own account and id, peers, event queue, connection with what was registered on it | `ProcessLocalEvent`, `ProcessAreaEvent`, `Serve`, `HandleReadMessage`, `Shutdown`, ... | reconnects, shared state changed by arcdps threads between two sends | what the server knows converges to what the client knows; register before anything else; bounded queue |
| EventProcessor, PlayerStats (`src/EventProcessor.*`, `src/PlayerStats.*`) | local and peers' statistics, combat states | `AreaCombat`, `LocalCombat`, `PeerCombat`, `GetState` | four threads; a peer's state erased while a reference is held | no event counted in a state that was dropped; combat times ordered |
| AgentTable, Skills (`src/AgentTable.*`, `src/Skills.*`) | agents by id, instance id mapping; skills | `AddAgent`, `GetUniqueId`, ...; `RegisterDamagingSkill`, ... | instance ids are reused by the game | a mapping points to the agent that holds the instance id |
| OffloadedStatsAggregation (`src/OffloadedStatsAggregation.*`) | one atomic slot per window, timer, shutdown flag | `Serve`, `WakeThread`, `TryGetAggregatedStats`, `Shutdown` | ownership passes by exchange, wakeups can be overwritten | no collection freed twice or used after; ends after shutdown |
| AggregatedStats (`src/AggregatedStats*.*`) | caches over one snapshot | `GetTotal`, `GetStats`, `GetDetails`, ... | filters, grouping, combat time | totals agree between the views |
| addon lifecycle (`src/dllmain.cpp`, `UpdateGUI.*`) | shutdown flag and lock, threads, global objects | `mod_init`, `mod_release`, callbacks, the update check | release while callbacks, threads and web requests run | no object used after it is gone; releasing ends |
| Options (`src/Options.*`) | settings file | `Load`, `Save` | crash while saving, a file that cannot be read | the settings survive |
| GUI, ImGuiEx, Log, Socket, ServerStatistics | | | drawing, I/O, counters | not modelled |

## 2. The modules

| modules | what they are |
|---|---|
| `EventSequencer`, `OrderedDelivery` | the sequencer; what it promises |
| `RpcServer`, `EventRelay` | the server, registry and gRPC frontend; what it promises |
| `RpcClient`, `EventUplink` | the client; what it promises |
| `EventProcessor`, on `PlayerStats` and `AgentTable` | who healed whom, for the local player and every peer |
| `AggregatedStatsCollection`, on `AggregatedStats` | what a window shows of a snapshot |
| `AddonLifecycle`, on `Options` | loading, unloading, threads, the collections' owners, the settings files |
| `MC...` | the instances TLC checks |
| `EventSequencerProofs`, `RpcServerProofs`, `RpcClientProofs`, `EventProcessorProofs`, `AggregatedStatsProofs`, `AddonLifecycleProofs` | theorems: the invariants and action properties |
| `EventSequencerRefinement`, `RpcServerRefinement`, the second half of `RpcClientProofs` | theorems: the detailed specifications implement the abstract ones |

Still to come: `RpcSystem`, the clients, the server and the network between them, where `EventUplink` and `EventRelay` meet.

## 3. How the modules correspond to the code

### `EventSequencer` (src/EventSequencer.cpp)

An action is one access to shared memory: a load, exchange or add of an atomic, or taking
`mLock`, with the thread-local work next to it. `pc[t]` is where thread `t` is inside
`ProcessEvent` or `TryFlushEvents`; `ev`, `current`, `index`, `eventCount`, `pos`, `removed`
and `nonZeroEvents` are its locals. `readers` and `writer` are the two modes of the shared mutex.
The callback runs between two actions, so callbacks of different threads can overlap in
the model exactly where they can in the program. `todo` and `delivered` are the environment:
events arcdps still has, and events whose callback has returned. The copying of an event's
fields into a slot is abstracted to the identity of the event.

Memory model: the model is sequentially consistent. The code relies on it at one place: the
claim of a slot (line 85) must be visible before the second load of `mHighestId` (line 97),
and the move of `mHighestId` (line 60) before the load of the count (line 201). `acq_rel`
alone does not promise this order; on x64, the addon's only target, the read-modify-writes
are full barriers and it holds.

`mQueuedEventCount` is a natural number here and 32 bits wide in the code: it would have to be
increased 2^32 times without one flush that finds the queue empty.

### `RpcServer` (networking/Server.cpp, networking/ServerFrontendGrpc.cpp)

The program runs one `Serve` thread, which takes one completion at a time; an action is the
whole handler of one completion, including the calls that go from the frontend into the
registry and back. Beside it there are only the signal handler, whose `Shutdown` is two
actions (`Shutdown`: the exchange; `SetAlarm`: the alarm), the clients (`HangUp`) and time (`FallSilent`,
30 seconds without an accepted call).

| state | code |
|---|---|
| `registeredAgents`, `iterator` | `mRegisteredAgents` and each context's `Iterator` into it; two variables because the code keeps both in step |
| `instanceId`, `peers`, `silent` | `InstanceId`, `Peers`, and whether `LastCallTime` is 30 s old |
| `forceDisconnected`, `writePending`, `queuedEvents` | members of `ConnectionInterfaceGrpc` |
| `shutdownState`, `returned`, `alarm` | `mShutdownState`, the end of `Serve`, the alarm of `Shutdown` |
| `listening`, `reading`, `writing`, `finishing`, `finished`, `hungUp` | gRPC's side: the operations outstanding on each stream (external) |
| `seen`, `transmitted` | history: events received from and sent to clients |

An operation completes `ok` or not; `Handles` is the prologue of a completion taken while the
server is online, `Drains` of one taken after `Shutdown`: the first of these shuts the queue
down. A message is abstracted to what its handler does with it. Malformed messages of
every kind take the same path (`RefuseMalformed`). A client's account is a constant function
of its connection, `AccountOf`: this is no restriction, since a connection registers at most once.

There is one `Serve` thread in the program and in the model. With two of them the pending
connect context of line 211 of the frontend would be shared between them; the code has a lock for the
registry but none for that, so the model does not pretend to cover it.

`EventRelay` is the server without gRPC, locks and operations: accounts have holders, ended
connections never hold one again, and what a connection receives is what was relayed to it, in
order, each event once, with losses only for connections that are hung up, ended or closing.

### `RpcClient` (networking/Client.cpp)

The game's threads call the handlers, one thread runs `Serve`. A completion and its handler are one
action (`Completes`); the rest of the round is one action too, except that the client looks at itself, at its peers and at
its queue under three locks one after another: `serve` says which look is next (`"Peers"`, `"Events"`), and the
game's actions are possible in between. `"Act"` is a round whose completion has been handled; a round that got no
completion within its millisecond starts from `"Wait"`.

| state | code |
|---|---|
| `instanceId`, `peers` | `mInstanceId`, `mPeers`; the account name never changes |
| `queuedEvents`, `disabled`, `shouldShutdown`, `shutdown`, `mayConnect`, `connected` | `mQueuedEvents`, `mDisabled`, `mShouldShutdown`, `mShutdown`, the age of `mLastConnectionAttempt`, `mStatus.Connected` |
| `context` | `mConnectionContext` |
| `registeredId`, `registeredPeers`, `writePending` | members of each `ConnectionContext`; `ForceDisconnected` is never set and left out |
| `unused`, `connecting`, `reading`, `writing`, `finishing`, `dead` | gRPC's side: the operations outstanding on each stream, and which streams are over (external) |
| `view` | what `Server.cpp` makes of the messages handed over (its handlers for this sender, `Handled` and `Refuses`) |
| `transmitted`, `abandoned` | history: events handed over, connections `ForceDisconnect` let go of |

What comes from the game is assumed where the code relies on it: no two agents that are present have the same instance id or
account. `RemovePeer` names an instance id, and the server takes out the first account that has it; with two
peers of one id it could take out the wrong one. An agent that is added twice is dropped by the code, so that is no step.
The next `Read` is started inside the handler of the one before, so `reading` does not change then: whether
this may happen after the shutdown of the queue is not visible in a state, unlike the start of the other operations.

`EventUplink` is the client without threads, operations and registration: accepted events go out in the order in which they
happened, each over at most one stream, one at a time, and an event on its way is lost only with its stream. It ends where
gRPC's transport begins: the network between client and server is for `RpcSystem`.

### `EventProcessor`, `PlayerStats`, `AgentTable` (src/EventProcessor.cpp, PlayerStats.cpp, AgentTable.cpp)

An action is what a thread does under one lock: a method of `PlayerStats` or of `AgentTable` holds its lock
throughout and is an operator or an action; `mPeerStatesLock` is held over several actions by the loop of
`LocalCombat` only, and the others wait for it. A `PlayerStats` of a peer is an object in `heap`, to which the map,
`PeerCombat` (`state`) and `GetState` (`peerStates`) have references; `use_count()` is 1 when only the map has one (`Unshared`).

| state | code |
|---|---|
| `mAgents`, `mInstanceIds` | of each agent whether it is known and a player; the agent an instance id leads to |
| `mSelfUniqueId`, `mLocalState`, `mPeerStates`, `mPeerStatesLock` | the members of those names |
| `local`, `target`, `iter` | where each of arcdps' threads is in `LocalCombat`, its agent, its loop |
| `peer`, `peerUniqueId`, `state`, `dstUniqueId` | the client's thread in `PeerCombat` |
| `getter`, `pSelfUniqueId`, `peerStates`, `toGet`, `used`, `result` | the aggregation thread in `GetState` |
| `calls`, `nameless` | history: the bound, and agents healed before anybody told their name |

Of an event the model keeps whom it went to, of the events of a fight the set of those agents. Times are small numbers; those of
different machines are unrelated, as in the code, which mixes a peer's event times with the local `timeGetTime()`. Skill names and evtc
logging are left out. A registration tells the agent's name (the code's comment says that arcdps always does); the event of a heal need not.

### `AggregatedStats`, `AggregatedStatsCollection` (src/AggregatedStats.cpp, AggregatedStatsCollection.cpp, Skills.cpp)

`AggregatedStats` holds the algorithms as operators over a snapshot of one player's fight and the options of a window: the filters,
the end of combat, the lists by agent and by skill, the details of a line, the translation of damaging skills to indirect healing, the
totals by group. Lists are functions from ids to entries: their order and the names in them are left out, and with them `HighestHealing`.
The object is a record of what has been computed so far, and each method an operator to the next such record.
`AggregatedStatsCollection` is the machine around it: the render thread asks a collection for anything a window or a detail window can
ask for, in any order, while other threads register damaging skills in the shared table. The reference the results are compared with (`Counts`) states
event by event what a window is to count, without the code's loops, caches and special options.

A call is one step, though the code takes the lock of the skill table for one lookup at a time, so that a skill may be registered while a list is being made. A
list looks each skill up once: registering one during the call has the effect of registering it before or after, which the model has.
No heal has the skill id 0, which `AggregatedStats.h:53` reserves for the line of indirect healing (`HealEvents`). The asserts of `Skills.cpp` on the size of its table (`MAX_SKILL_ID`) are left out.

### `AddonLifecycle`, `Options` (src/dllmain.cpp, OffloadedStatsAggregation.cpp, Options.cpp, UpdateGUI.cpp, parts of GUI.cpp)

Six threads: arcdps' loader (`mod_init`, `mod_release`), its combat and UI callbacks, the client's thread as far as it calls back into the
addon, `OffloadedStatsAggregation::Serve`, and the task of the update check that is under way. An action is a step between two accesses to what threads share.

| state | code |
|---|---|
| `IS_SHUTDOWN`, `writer`, `readers`, `exported` | the flag, the modes of `SHUTDOWN_LOCK`, whether arcdps has got the callbacks |
| `optionsMutex` | holder of `HEAL_TABLE_OPTIONS_MUTEX`, where it is held over more than one step |
| `alive` | the objects `mod_init` creates and `mod_release` destroys: sequencer, processor, aggregation, client, `UPDATE_CHECKER` and, if updates are checked for, `UPDATE_STATE` |
| `clientShutdown`, `mIsShutdown`, `timer` | what tells the two threads to end; whether the waitable timer has been set |
| `heap`, `mAggregatedWindows`, `CurrentAggregatedStats`, `collection` | the allocated collections, and who has one: slot, window, aggregation |
| `options`, `json`, `ini` | the settings in memory and the two files (`Options`) |
| `unread`, `saved`, `overwritten` | history: this process could not read what is in the files; the settings the user should find again; the last save was one of such a process |
| `loads` | the bound |

Of the settings the one that threads act on is kept, `Shown` of each window; the others are written and read like it, by key, only where they
differ from the default. A value of a wrong type (`WrongType`), a file that does not parse (`Truncated`) and an ini file of an old version take the code's paths.
`Load` may go wrong in each of the ways the code looks at: `fopen` fails though the file is there, and the ini file is read instead (`LoadsIni`), or that cannot be read either, or the json
file is too large, or reading or closing it fails (`LoadsNothing`). Opening, writing and closing in `Save`, and the removal of the ini file, may fail as well.

A frame begins with the window of the update check, then draws one window of statistics, all under the mutex. The hot key, the check box, the button that resets everything and the close button are the ways a window is hidden or shown.
The timer is one mark: whether it has been set for now or for a second later makes no difference to a thread that waits for it to go off.
The client's thread calls back in two ways: `ProcessPeerEvent`, which is part of a round (`ClientServes`), and `getEndpoint` when it connects (`ClientConnects`), which waits for the mutex.

The update check's base class is a library that is not in the repository. Its tasks are taken to be what `UpdateGUI.cpp` and `dllmain.cpp` make of them: `CheckForUpdate` begins one, `PerformInstallOrUpdate` another
once the first has found something, each makes web requests through `HttpGet` and `HttpDownload`, uses the checker and the state until it ends, and `FinishPendingTasks` waits for that. What the check finds is left open. How long a task holds the state's own lock is the library's affair; the
window takes it for the moment it is drawn.

Assumed of arcdps: it calls `mod_init` and `mod_release` in turn from one thread and, when `mod_init` failed, nothing at all.

## 4. The runs

| run | instance | question |
|---|---|---|
| `sequencer_safety` | 3 threads, events 1..5, 2 slots | are the asserts true, callbacks sequential, events kept, wakeups kept, the quiet queue empty; who gets ahead when the slots run out |
| `sequencer_live` | 2 threads, ids 1, 2, 3, 5 (a gap) and an event without an id, 4 slots, fair | does it implement `OrderedDelivery`; is every event without a gap before it delivered |
| `server_registry` | 3 connections of 2 accounts, no combat events | registry against connections, take-overs, refusals, disconnects, shutdown |
| `server_live` | 2 connections, 2 events, fair | writes and queue, legality of gRPC operations, `EventRelay`; everything of a connection goes away, `Shutdown` ends `Serve`, accepted events are sent |
| `client_registry` | 1 stream, 2 agents, 2 accounts, 2 ids, 5 changes | is what was registered what the server was told, for every interleaving of changes and sends |
| `client_streams` | 2 streams, 3 events, limit 1, 1 change | write flag, status and legality of gRPC operations while an old stream's completions come late; does it implement `EventUplink` |
| `client_live` | 1 stream, 1 agent, 2 ids, 3 changes, 1 event, fair | does the server's view come to be the game's, is the queue emptied, do disabling and `Shutdown` end what they should |
| `processor_safety` | 2 agents, an instance id that passes from one to the other, 1 local thread, 2 objects, 2 times, 5 calls | are references current, snapshots named, fights kept |
| `processor_erased` | the same | finding 1 |
| `processor_departed` | the same | finding 2 |
| `aggregated_stats` | 2 players in 2 sets of snapshots, 50 settings of a window, 2 skills that may do damage, 4 calls | do the views agree with the reference and with each other |
| `addon_lifecycle` | 1 window; a legacy file, an old one, or a json file that is loaded twice; a crash at any moment, fair | do objects outlive their users, has each collection one owner, are settings kept, does `mod_release` end |

Bounds, and why they are enough.

Sequencer: three threads are one that flushes, one that stores and one that moves the sequence, the largest number that takes part in one
of the races the comments in the code name. Two slots and five events let a flush find two waiting events while a third arrives, and let the slots
run out. The gap of `sequencer_live` is an event that is never delivered.

Server: two connections of one account are the smallest take-over, the third connection is its witness; two events are one being written
and one queued behind it. The proofs of section 6 hold without any of these bounds.

Client: the registry is per stream, so one stream is enough to compare it with the server's view; five changes are: register, add a
peer, remove it, add the other one under the same id, and one more. Two streams are an old one and its successor.
A limit of 1 lets two events wait and drops the third.

Processor: 5 calls (`MaxCalls`) are what it takes to know a peer, to let it enter combat and record, and to have a local fight begin during that, with a call to
spare; a call's steps and `GetState` are not bounded. Two objects are a state and the one that replaces it. The proofs hold without these bounds.

Aggregated statistics: the snapshots hold a fight that is over, one whose damage and collection lie before its beginning, and one without events; the
heals differ in target (own subgroup, minion, other subgroup, none, unknown), skill and kind. Every setting of a window varies, two kinds at a time. Four calls are two
lists, a detail window and a skill that does damage in between.

Lifecycle: windows share only the pass of the aggregation and the mutex; one window has all owners of a collection. Two loads are one that writes the
json file and one that reads it, or cannot read it, or only finds it cut short; with a legacy file, one load goes through every outcome of its conversion (`Starts` bounds the loads of each case).

The instances that look at liveness use no symmetry, and use fewer events because of that. The deadlock check is off where the bound on calls ends
the behaviour (`aggregated_stats`) or where arcdps may call nothing more (`addon_lifecycle`).

## 5. Fairness

Sequencer: a thread inside `ProcessEvent` keeps running and arcdps hands over every event
(`Fairness`). Locks need no strong fairness with finitely many events. The weak
compare-exchange of line 41 may fail spuriously, but not for ever, hence strong fairness for its success.

Server: gRPC completes what was started, `Serve` keeps taking completions, and a signal handler
that has begun ends. A client owes nothing: its `Read` need complete only when the client has
hung up, the stream is finished or the queue is shut down, and a `RequestConnect` only in the last
case. A `Write` is assumed to complete or fail: with a client that neither reads nor hangs
up this is gRPC's keepalive, which is external. `HangUp`, `FallSilent` and `Shutdown` are never forced.

Client: `Serve` keeps going (`WF` of `Acts`). A round is a loop of a millisecond, and a completion can only be taken between two
rounds; `AsyncNext` hands out what has completed before it waits, hence strong fairness for the
completions. gRPC completes a `Connect`, a `Write` and a `Finish` (that an unreachable or silent server makes them fail in the end is
external), and a `Read` only when the stream is over. `Converges` and `QueueDrains` are about a connection that lasts; nothing makes one last.

Lifecycle: the threads that `mod_release` joins run (`Client`, `Aggregation`), so does `mod_release` itself once it is called (`Releasing`), and a callback that is in
returns (`UiReturns`; a timer that was set goes off, which is part of `Aggregation`). Arcdps' calls, crashes and the peers' events are never forced. The mutex of the options needs no strong fairness,
for the client and the aggregation that wait for it no more than for `mod_release`:
after `IS_SHUTDOWN` no callback is in, the aggregation and `getEndpoint` give the mutex back in the step that takes it, and `mod_release` has given it back before it waits for anybody. So from
some point on it is free for ever. Before that, the client may wait for the mutex as long as frames are drawn; nothing is claimed of that time.
Nothing makes a web request of the update check come back: `cpr::Get` and `cpr::Download` (`UpdateGUI.cpp:18,30`) are called without a timeout. There is no fairness for `UpdateEnds`, and `ReleaseCompletes`
has the premise `RequestsEnd`.

## 6. Proofs

`EventSequencerProofs`: the inductive invariant `IInv` of `EventSequencer` for any set of threads, events
and slots, under `DistinctIds` (no two sequenced events share an id; see remark 3 of section 7). Its parts: `LockInv` (who holds the mutex is where the threads are), `HoldInv`
(which thread holds an event and how far it has scanned), `SequenceInv` (what a thread's
`current` still tells it: if it says "I am next", nobody else can have moved `mHighestId`), `QueueInv` (the
count covers the slots in use; a pass that found nothing left empty slots behind), and the three properties
`EachEventOnce`, `SlotsNotShared`, `NoLostWakeup` themselves. The first four are what the properties lack: none of them
says by itself why an exchange must find the value it was given. One lemma per part says that
every step keeps it. From `IInv` follow `TypeCorrect`, `AssertsNeverFail`, `CallbacksAreSequential`,
`EventsAreKept`, `ClaimsAreExclusive`, `WakeupsAreKept` and the action properties `StepsAreByOne` and
`OnlyFullQueuesSkip`.

`QuietQueueIsEmpty` (`QuietMeansEmpty`: once all events up to the last have been passed on and no thread is inside, `QueueIsEmpty` says so)
needs more: why the last thread that leaves cannot leave a count behind. `QuietInv` adds that an event that waits is ahead of the sequence (`AheadInv`), that a pass
which is about to leave the count as it is has seen one that still waits (`LeavesInv`), and that whoever came to the end of the sequence with a count that
is not zero still has its look to take (`LooksInv`).

`EventSequencerRefinement`: `SequencerIsOrderedDelivery`, the refinement of `OrderedDelivery`, under `DistinctIds` and `[]NeverFull`, that is for behaviours in which no call
finds all slots used up. In the others the code passes that event on at once, out of order (line 93, behind an assert of debug builds); what is left of the order then is
`OnlyFullQueuesSkip`. The three lemmas on top say what a step does to the set of events that threads hold at given places: it stays, one enters, one leaves. With
them each action is either one step of `OrderedDelivery` or none.

`RpcServerProofs`: the invariants of `RpcServer` for any numbers of connections, accounts, ids and events, from
`ConstantsAssumption` alone. `RegistryShape` shows that every step either disconnects one
connection, registers one, renames one, or leaves the registry alone; `WriteShape` does the same for the
writes. The invariants are proved from these few shapes instead of from every action. `RegistryConsistent` is
inductive with the types; `RegisteredIsAlive` and `NobodyForgotten` need it, because only the agreement
of table and iterators says that disconnecting one connection takes no entry of another.
`Bookkeeping` is the one conjunct that no run needs as a property: only disconnected connections are
finished (so a failed write always belongs to one that is on its way out) and a `Serve` that has
returned has seen the end of every `Read`, which with `RegisteredIsAlive` gives the destructor's
assert (`DestructorAssert`). `LegalOperations` is the action property `OperationsAreLegal`.

`RpcServerRefinement`: `ServerIsRelay`, the refinement of `EventRelay`. One lemma per operation names the relay's step: a registration is a `join`, a disconnect
a `leave`, a combat event a `Relay`, the completion of a `Write` a reception, its failure a loss; everything else is a stutter. An inbox is the event
being written followed by the queue. `RegistryConsistent` is what makes a disconnect leave with its own account only, `WriteInProgress` what keeps
an event that is written at once from overtaking a queued one.

`RpcClientProofs`: `IInv` of `RpcClient`, for any contexts, accounts and ids, any number of changes and events and any limit of the queue (agents are numbers,
since the code goes through its peers in the order of a map and the model takes the least). `ViewMatches`, which says that the server's view of a live stream is what was registered on
it, is not inductive: a peer that is taken out is named by its id, so the server takes out the right one only if no two peers of that stream have one id. `PeersDistinct` says so of the game and of what
is registered alike. `SelfStays` says that a registered self has an id in the game, `OneOutstanding` and `UnusedIsIdle` what gRPC holds
for each stream, `LooksAreFree` that the looks after the first happen only while the stream is there, registered and free to write. From `IInv` follow `TypeCorrect`, `GateHolds` (`WriteGate`), `NothingIsRefused`
(`RegistersFirst`), `ServerKnowsWhatIsNoted` (`ViewMatches`), `StatusIsTrue` (`StatusTruthful`), the action property in
`NoIllegalOperation`, and `ClientIsUplink`, the refinement of `EventUplink`.

`EventProcessorProofs`: `IInv` of `EventProcessor` for any agents, threads, objects and times. `ReferencesAgree` is inductive with the types: the map's
entry of a peer is only taken out under the lock, when nobody else has a reference, and a reference is only taken under the lock, so one that is held always leads to the
state in the map. `KnownInv` says that whatever a thread has looked up or recorded is in the table: `SnapshotMapped` alone is not inductive,
because it only speaks of what has been gathered. From the two follow `ReferencesAlwaysAgree`, `SnapshotsAreMapped` and, through `CombatStep`, the action property `CombatsAreKept`.

`AggregatedStatsProofs`: `IInv` of `AggregatedStatsCollection`, for any players, fights, windows, skills and number of calls. It says that whatever is kept (a total, a list,
the details of a line) is what would be computed from the snapshot with some table of damaging skills: which table differs from one cache to the next, because skills are registered
between the calls, and that is why none of the properties is inductive by itself (`CachesAreKept`). Under it lie lemmas about the algorithms. A sum over a finite set is defined
by recursion; instead of by induction its laws are proved from a set of least size for which they fail (`SmallestBad`): `SumWithout` takes
one member out, `SumOfParts` splits a sum along any map. `LinesAddUp` says that the lines of a list, whatever they are grouped by, add up to the events that were
listed; `TranslatedAddsUp` that the translation to indirect healing moves numbers from line to line and loses none, for every table; `FilterKeepsWhatCounts` that the code's chain of filters keeps exactly the events of the
reference. From these follow `TotalsAlwaysMatch`, `DetailsAlwaysAddUp`, `GroupsAlwaysNest` and `NoFightEndsBeforeItStarts`. The assumptions are on the constants only: what a snapshot and
a window are (`SourcesAssumption`, `WindowsAssumption`), and that the mark for "not computed" is no entry (`UnsetAssumption`).

`AddonLifecycleProofs`: `IInv` of `AddonLifecycle`, for any number of windows, loads and crashes and any files there may be to begin with. Its parts follow who excludes whom:
`LoaderInv` (the lock and the flag, by how far the loader is), `CallbacksInv` (a callback that is in holds the lock shared, and the loader is then past `mod_init` and not yet in `mod_release`),
`ThreadsInv` (which objects exist, by where the loader is, and that a thread runs at most between its creation and its join, a task of the update check only while its state exists), `StatsInv` (only a pass holds a collection back, and only between two of its steps) and `FilesInv` (what may be in the files; the ini file is removed only when there is a json file). From it follow `TypeCorrect`, `NothingUsedDead` (`ObjectsAlive`), `EveryCollectionOwned` (`OneOwner`) and `NothingUnsaved` (`SettingsKept`, with its two exceptions: a save that was cut short, and
one of a process that could not read the files). `FilesAssumption`
says that the marks for a file that is missing or does not parse are no contents of one.

The type invariants of the sequencer, the server and the processor, `SlotsNotShared` and `RegisteredIsAlive` are theorems and in no run: what the prover has shown for every size
needs no instance.

Only model-checked: the liveness properties (`EventuallyDelivered`, `ConnectionsEnd`, `ShutdownEnds` of the server and of the client, `EventsArrive`, `Converges`, `QueueDrains`, `DisableEnds`,
`ReleaseCompletes`). The proof system does not do liveness under fairness. Every other property of a run that passes is a theorem.

## 7. Findings and remarks

Findings, each with the run that shows it:

1. `EventProcessor.cpp:324`. The loop of `LocalCombat` resets a peer's state and then erases it if `use_count()` reads 1. The comment at line 321 holds
   that the count can only read too high. It can read 1 after `PeerCombat`, which had a reference during the reset, has entered combat in that state and
   returned: the state of a fight that is going on is erased, and the peer's heals are dropped until it enters combat again. Run `processor_erased`.
2. `EventProcessor.cpp:127`. The implicit exit from combat of a player that is deregistered (comment at line 122) takes the local clock; `PlayerStats::ExitedCombat` refuses an exit
   that is not later than the entry, whose time is the peer's. With a peer whose clock is ahead nothing happens. Run `processor_departed`.

Remarks, on what nothing in the repository contradicts or on what no run is about:

3. `EventSequencer.cpp:62`. An id that is received twice makes the assert fail when two threads hold it and both find themselves next.
   The theorems assume `DistinctIds`, which arcdps' numbering provides.
4. `ServerFrontendGrpc::Shutdown` changes the state before it sets its alarm. If `Serve` takes another completion in between and drains the
   whole queue, gRPC aborts on the alarm. The model has this outcome (`SetAlarm`), and the liveness properties name it.
5. A write of the server that fails leaves `WritePending` set for ever. This is harmless because a write only fails
   on a connection that is already on its way out: `WriteInProgress` and `ConnectionsEnd` say so.
6. `ForceDisconnect` of the client (line 637, "Queue finish...") lets go of a connection without finishing or cancelling its
   stream and without touching the status. The stream keeps its `Read`: the server keeps the account registered until it has
   been silent for 30 seconds, `GetStatus` goes on saying "connected", and after `Shutdown` the completion queue is not empty, so that `mod_release` does not get
   past the join of the client's thread before the server ends that stream. `ShutdownEnds` and `StatusTruthful` name the exception, and
   `ReleaseCompletes` is about a client without such a stream. It takes a malformed message, or one of another version, from the server.
7. Events are queued while the client is disabled or has no connection, and are sent when there is one again,
   however old they are by then.
8. `EventProcessor.cpp:662` says the local player is among the peers in unit tests only. An instance id goes on leading to its last owner, so
   a peer's event can be booked to whoever had the id before, the local player included; `SkipPeer` covers it.
9. `dllmain.cpp:447`. The assert of `ProcessPeerEvent` can fail: the client may deliver an event after `mod_release` has set `IS_SHUTDOWN`. The
   processor is still there (`ObjectsAlive`).
10. `dllmain.cpp:503` hides a window and drops its collection, so that no stale statistics are shown when the window is shown again. The window's own close button
    only sets `Shown`: the collection stays, and is what is shown first (`UiShows`). A collection left in the slot is replaced by the next pass.
11. The button that resets all settings (`GUI.cpp:1253`) sets `EvtcRpcEnabled` to its default without telling the client.
12. `mod_init` clears `IS_SHUTDOWN` before the checks that may end it early; were arcdps to call anything after that, the objects would be missing. The model assumes that it
    does not; no property is about it.
13. Settings are lost in two ways, the exceptions of `SettingsKept`. A crash or a full disk while `Options::Save` writes leaves a file that does not parse; it is loaded as no settings at all, and the legacy ini file, if it
    is still there, is not read because the json file exists. And any failure to open or read a good json file (`Options.cpp:150`, `174-187`) leaves the defaults in memory, which the save at unload then writes over
    it; if the file cannot be opened and a legacy ini file is there, its old settings are written over it at once. On the paths that fail, `Load` (lines 174-182) and `Save` (line 221) return without closing the file.
14. Debug mode shows the skills behind the line of indirect healing as well, and `GetTotal` counts them twice (`AggregatedStats.cpp:585`); `TotalsMatch` leaves that mode out.
    The line of indirect healing has no details.
15. `dllmain.cpp:335`. `mod_release` waits for the update check's task, and so for a web request without a timeout, with the threads of the client and the aggregation told to end but not joined.

## 8. Not modelled

- `GUI` but for the collections and the switches named above: drawing by one thread. Its window
  anchors (`FindAndResolveCyclicDependencies`, `RepositionWindows`) are layout that no other part reads. From reading: a window
  that has not been drawn has no `WindowId`, so a cycle through it is only found later, and then the link that is cut is that of the window the
  search starts from; `RepositionWindows` bounds its rounds by the number of windows whatever the anchors are.
- `ServerStatistics` (counters the server writes and never reads), `Log`, `Utilities` (formatting), `Socket` (used by its own test only), the loader's entry point,
  `SimpleIni` and the build scripts, the tests.
- The network between client and server: `RpcClient` hands messages over to a stream, `RpcServer` reads them from one. That gRPC keeps a stream's messages in order is assumed on both sides;
  their composition is the next module of the plan. The monitor thread of the server only reads.
- Within the modelled parts: message bytes, names, sorting and log output; gRPC itself, which is external and modelled by what
  it may do with an operation that was started; the waitable timer, the update check's library and the death of the process, likewise.
