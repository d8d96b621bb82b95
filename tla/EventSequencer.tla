--------------------------- MODULE EventSequencer ---------------------------
(***************************************************************************)
(* The event sequencer of the addon (src/EventSequencer.h and .cpp).       *)
(* arcdps calls ProcessEvent from several threads and in an order that may *)
(* differ from the order of the event ids. The sequencer calls mCallback   *)
(* so that the callbacks of ids that follow each other run one after the   *)
(* other; an event that comes too early waits in mQueuedEvents and is      *)
(* passed on by the thread that closes the gap before it.                  *)
(*                                                                         *)
(* An action is one access to shared memory (an atomic load, exchange or   *)
(* add, or taking a lock) with the thread-local work next to it. mCallback *)
(* runs between the action that leads to a pc of CallbackPcs and the one   *)
(* that leaves it. A failing assert does nothing, as in a release build;   *)
(* AssertsHold says which asserts are meant never to fail.                 *)
(*                                                                         *)
(* Atomics are sequentially consistent: on x64, the only target of the     *)
(* addon, the read-modify-writes are full barriers.                        *)
(***************************************************************************)
EXTENDS Integers, FiniteSets

CONSTANTS
  Threads,            (* the threads of arcdps that call ProcessEvent       *)
  Events,             (* the events they pass, each passed once             *)
  IdOf,               (* pId of each event; events may share an id          *)
  NoEvent,            (* an empty slot or a thread that holds no event      *)
  MAX_QUEUED_EVENTS,  (* the number of slots, 256 in the code               *)
  UINT64_MAX          (* mHighestId before the first event                  *)

ASSUME ConstantsAssumption ==
  /\ MAX_QUEUED_EVENTS \in Nat \ {0}
  /\ UINT64_MAX \in Nat
  /\ NoEvent \notin Events
  /\ IdOf \in [Events -> 0..(UINT64_MAX - 1)]

(* No two events share an id, except those without one. *)
DistinctIds == \A e, f \in Events : IdOf[e] = IdOf[f] /\ IdOf[e] # 0 => e = f

VARIABLES
  todo,               (* events arcdps has not passed to the addon yet      *)
  delivered,          (* events whose mCallback call has returned (history) *)
  mHighestId,         (* id of the last event of the sequence passed on     *)
  mQueuedEventCount,  (* slots given out since the queue was last emptied   *)
  mHighestQueueSize,  (* the largest count at which it was emptied          *)
  mQueuedEvents,      (* the slots                                          *)
  readers,            (* threads holding mLock shared                       *)
  writer,             (* threads holding mLock exclusively                  *)
  pc,                 (* where each thread is in ProcessEvent               *)
  ev,                 (* its pEvent and pId                                 *)
  current,            (* its local of that name                             *)
  index,              (* its local of that name                             *)
  eventCount,         (* locals of TryFlushEvents: the slots to look at,    *)
  pos,                (* i, the slot the pass has reached,                  *)
  removed,            (* whether the pass passed an event on,               *)
  nonZeroEvents       (* the events it left waiting                         *)

shared == <<mHighestId, mQueuedEventCount, mHighestQueueSize, mQueuedEvents>>
lock   == <<readers, writer>>
scan   == <<eventCount, pos, removed, nonZeroEvents>>
locals == <<ev, current, index, scan>>
vars   == <<todo, delivered, shared, lock, pc, locals>>

Slots   == 0..(MAX_QUEUED_EVENTS - 1)
Id(t)   == IdOf[ev[t]]
Capped(n) == IF n > MAX_QUEUED_EVENTS THEN MAX_QUEUED_EVENTS ELSE n

(* Where a thread can be. CallbackPcs: inside mCallback. *)
SharedPcs   == {"Claim", "Recheck", "Store", "Overflow"}
ScanPcs     == {"Scan", "Flush"}
HoldingPcs  == {"Load", "Loop", "Direct", "Ordered"} \cup SharedPcs
CallbackPcs == {"Direct", "Ordered", "Overflow", "Flush"}
PcValues    == {"Idle", "Check", "WaitUnique"} \cup HoldingPcs \cup ScanPcs

Goto(t, from, to) == pc[t] = from /\ pc' = [pc EXCEPT ![t] = to]

(* A pass over the first n slots starts at slot 0. *)
NewPass(t, n) ==
  /\ eventCount' = [eventCount EXCEPT ![t] = n]
  /\ pos' = [pos EXCEPT ![t] = 0]
  /\ removed' = [removed EXCEPT ![t] = FALSE]
  /\ nonZeroEvents' = [nonZeroEvents EXCEPT ![t] = 0]

(* ProcessEvent returns: its locals are gone. *)
Return(t, from) ==
  /\ Goto(t, from, "Idle")
  /\ ev' = [ev EXCEPT ![t] = NoEvent]
  /\ current' = [current EXCEPT ![t] = UINT64_MAX]
  /\ index' = [index EXCEPT ![t] = 0]
  /\ NewPass(t, 0)

Init ==
  /\ todo = Events
  /\ delivered = {}
  /\ mHighestId = UINT64_MAX
  /\ mQueuedEventCount = 0
  /\ mHighestQueueSize = 0
  /\ mQueuedEvents = [i \in Slots |-> NoEvent]
  /\ readers = {}
  /\ writer = {}
  /\ pc = [t \in Threads |-> "Idle"]
  /\ ev = [t \in Threads |-> NoEvent]
  /\ current = [t \in Threads |-> UINT64_MAX]
  /\ index = [t \in Threads |-> 0]
  /\ eventCount = [t \in Threads |-> 0]
  /\ pos = [t \in Threads |-> 0]
  /\ removed = [t \in Threads |-> FALSE]
  /\ nonZeroEvents = [t \in Threads |-> 0]

-----------------------------------------------------------------------------
(* ProcessEvent, up to the fast path. *)

Call(t, e) ==
  /\ Goto(t, "Idle", "Load")
  /\ e \in todo
  /\ todo' = todo \ {e}
  /\ ev' = [ev EXCEPT ![t] = e]
  /\ UNCHANGED <<delivered, shared, lock, current, index, scan>>

(* Id 0 is unordered: mCallback is called at once. *)
PassUnordered(t) ==
  /\ Goto(t, "Load", "Direct")
  /\ Id(t) = 0
  /\ UNCHANGED <<todo, delivered, shared, lock, locals>>

LoadHighest(t) ==
  /\ Goto(t, "Load", "Loop")
  /\ Id(t) # 0
  /\ current' = [current EXCEPT ![t] = mHighestId]
  /\ UNCHANGED <<todo, delivered, shared, lock, ev, index, scan>>

(* The id was received before, or it is below the first id registered. *)
PassLate(t) ==
  /\ Goto(t, "Loop", "Direct")
  /\ \/ current[t] = Id(t)
     \/ current[t] # UINT64_MAX /\ current[t] > Id(t) - 1
  /\ UNCHANGED <<todo, delivered, shared, lock, locals>>

(* Variant for the mutation checks: a plain store where the code compares.  *)
RegisterFirst_PlainStore(t) ==
  /\ Goto(t, "Loop", "Load")
  /\ current[t] = UINT64_MAX
  /\ mHighestId' = Id(t) - 1
  /\ UNCHANGED <<todo, delivered, mQueuedEventCount, mHighestQueueSize,
                 mQueuedEvents, lock, locals>>

(* The compare_exchange_weak of the first event; the value is loaded again *)
(* whatever its result. RegisterFails: another thread was faster, or the   *)
(* exchange failed spuriously.                                             *)
RegisterFirst(t) ==
  /\ Goto(t, "Loop", "Load")
  /\ current[t] = UINT64_MAX
  /\ mHighestId = UINT64_MAX
  /\ mHighestId' = Id(t) - 1
  /\ UNCHANGED <<todo, delivered, mQueuedEventCount, mHighestQueueSize,
                 mQueuedEvents, lock, locals>>

RegisterFails(t) ==
  /\ Goto(t, "Loop", "Load")
  /\ current[t] = UINT64_MAX
  /\ UNCHANGED <<todo, delivered, shared, lock, locals>>

EndDirect(t) ==
  /\ Return(t, "Direct")
  /\ delivered' = delivered \cup {ev[t]}
  /\ UNCHANGED <<todo, shared, lock>>

(* Variants for the mutation checks: mHighestId moves before mCallback is  *)
(* called; ids may be missing before this one.                             *)
BeginOrdered_MoveFirst(t) ==
  /\ Goto(t, "Loop", "Ordered")
  /\ current[t] # UINT64_MAX
  /\ current[t] = Id(t) - 1
  /\ mHighestId' = Id(t)
  /\ UNCHANGED <<todo, delivered, mQueuedEventCount, mHighestQueueSize,
                 mQueuedEvents, lock, locals>>

BeginOrdered_AllowGap(t) ==
  /\ Goto(t, "Loop", "Ordered")
  /\ current[t] # UINT64_MAX
  /\ current[t] <= Id(t) - 1
  /\ UNCHANGED <<todo, delivered, shared, lock, locals>>

(* The fast path: the id is the next one. mCallback runs without a lock;   *)
(* when it has returned, the exchange lets the next id pass.               *)
BeginOrdered(t) ==
  /\ Goto(t, "Loop", "Ordered")
  /\ current[t] # UINT64_MAX
  /\ current[t] = Id(t) - 1
  /\ UNCHANGED <<todo, delivered, shared, lock, locals>>

Advance(t) ==
  /\ Goto(t, "Ordered", "Check")
  /\ delivered' = delivered \cup {ev[t]}
  /\ mHighestId' = IF mHighestId = current[t] THEN Id(t) ELSE mHighestId
  /\ ev' = [ev EXCEPT ![t] = NoEvent]
  /\ UNCHANGED <<todo, mQueuedEventCount, mHighestQueueSize, mQueuedEvents,
                 lock, current, index, scan>>
-----------------------------------------------------------------------------
(* ProcessEvent, the slow path: the event has to wait in a slot. *)

TooEarly(t) == current[t] # UINT64_MAX /\ current[t] < Id(t) - 1

(* Taking mLock shared, then comparing mHighestId with the value read      *)
(* before. If it has moved ("Race1") the lock is dropped and the loop      *)
(* starts over with the new value.                                         *)
LockShared(t) ==
  /\ Goto(t, "Loop", "Claim")
  /\ TooEarly(t)
  /\ writer = {}
  /\ mHighestId = current[t]
  /\ readers' = readers \cup {t}
  /\ UNCHANGED <<todo, delivered, shared, writer, locals>>

Race1(t) ==
  /\ pc[t] = "Loop"
  /\ TooEarly(t)
  /\ writer = {}
  /\ mHighestId # current[t]
  /\ current' = [current EXCEPT ![t] = mHighestId]
  /\ UNCHANGED <<todo, delivered, shared, lock, pc, ev, index, scan>>

Claim(t) ==
  /\ index' = [index EXCEPT ![t] = mQueuedEventCount]
  /\ mQueuedEventCount' = mQueuedEventCount + 1
  /\ UNCHANGED <<todo, delivered, mHighestId, mHighestQueueSize,
                 mQueuedEvents, lock, ev, current, scan>>

ClaimSlot(t) ==
  /\ Goto(t, "Claim", "Recheck")
  /\ mQueuedEventCount < MAX_QUEUED_EVENTS
  /\ Claim(t)

(* Variant for the mutation checks: the last slot is taken for none left.  *)
ClaimFails_OffByOne(t) ==
  /\ Goto(t, "Claim", "Overflow")
  /\ mQueuedEventCount >= MAX_QUEUED_EVENTS - 1
  /\ Claim(t)

(* No slot is left. In a release build mCallback is called out of order    *)
(* and under the shared lock, and mHighestId does not move.                *)
ClaimFails(t) ==
  /\ Goto(t, "Claim", "Overflow")
  /\ mQueuedEventCount >= MAX_QUEUED_EVENTS
  /\ Claim(t)

EndOverflow(t) ==
  /\ Return(t, "Overflow")
  /\ delivered' = delivered \cup {ev[t]}
  /\ readers' = readers \ {t}
  /\ UNCHANGED <<todo, shared, writer>>

(* mHighestId moved between the two loads ("Race2"): the claimed slot      *)
(* cannot be given back, it is left empty.                                 *)
Race2(t) ==
  /\ Goto(t, "Recheck", "Loop")
  /\ mHighestId # current[t]
  /\ mQueuedEvents' = [mQueuedEvents EXCEPT ![index[t]] = NoEvent]
  /\ current' = [current EXCEPT ![t] = mHighestId]
  /\ index' = [index EXCEPT ![t] = 0]
  /\ readers' = readers \ {t}
  /\ UNCHANGED <<todo, delivered, mHighestId, mQueuedEventCount,
                 mHighestQueueSize, writer, ev, scan>>

(* Variant for the mutation checks: mHighestId is not read again.          *)
RecheckHolds_Skipped(t) ==
  /\ Goto(t, "Recheck", "Store")
  /\ UNCHANGED <<todo, delivered, shared, lock, locals>>

RecheckHolds(t) ==
  /\ Goto(t, "Recheck", "Store")
  /\ mHighestId = current[t]
  /\ UNCHANGED <<todo, delivered, shared, lock, locals>>

Store(t) ==
  /\ Return(t, "Store")
  /\ mQueuedEvents' = [mQueuedEvents EXCEPT ![index[t]] = ev[t]]
  /\ readers' = readers \ {t}
  /\ UNCHANGED <<todo, delivered, mHighestId, mQueuedEventCount,
                 mHighestQueueSize, writer>>
-----------------------------------------------------------------------------
(* TryFlushEvents, run by a thread that has just moved mHighestId. *)

QueueSeenEmpty(t) ==
  /\ Return(t, "Check")
  /\ mQueuedEventCount = 0
  /\ UNCHANGED <<todo, delivered, shared, lock>>

QueueSeenUsed(t) ==
  /\ Goto(t, "Check", "WaitUnique")
  /\ mQueuedEventCount # 0
  /\ UNCHANGED <<todo, delivered, shared, lock, locals>>

LockUnique(t) ==
  /\ Goto(t, "WaitUnique", "Scan")
  /\ readers = {}
  /\ writer = {}
  /\ writer' = {t}
  /\ NewPass(t, Capped(mQueuedEventCount))
  /\ UNCHANGED <<todo, delivered, shared, readers, ev, current, index>>

(* The slot the scan has reached, and whether there is one left. *)
Scanned(t)  == mQueuedEvents[pos[t]]
Scanning(t) == pc[t] = "Scan" /\ pos[t] < eventCount[t]
IsNextId(e) == mHighestId # UINT64_MAX /\ IdOf[e] = mHighestId + 1

SkipEmpty(t) ==
  /\ Scanning(t)
  /\ Scanned(t) = NoEvent
  /\ pos' = [pos EXCEPT ![t] = @ + 1]
  /\ UNCHANGED <<todo, delivered, shared, lock, pc, ev, current, index,
                 eventCount, removed, nonZeroEvents>>

SkipEarly(t) ==
  /\ Scanning(t)
  /\ Scanned(t) # NoEvent
  /\ ~ IsNextId(Scanned(t))
  /\ pos' = [pos EXCEPT ![t] = @ + 1]
  /\ nonZeroEvents' = [nonZeroEvents EXCEPT ![t] = @ + 1]
  /\ UNCHANGED <<todo, delivered, shared, lock, pc, ev, current, index,
                 eventCount, removed>>

BeginFlush(t) ==
  /\ Scanning(t)
  /\ Goto(t, "Scan", "Flush")
  /\ Scanned(t) # NoEvent
  /\ IsNextId(Scanned(t))
  /\ current' = [current EXCEPT ![t] = mHighestId]
  /\ UNCHANGED <<todo, delivered, shared, lock, ev, index, scan>>

(* Variants for the mutation checks: the slot is not cleared; the pass is  *)
(* not repeated.                                                           *)
EndFlush_KeepSlot(t) ==
  /\ Goto(t, "Flush", "Scan")
  /\ delivered' = delivered \cup {Scanned(t)}
  /\ mHighestId' = IF mHighestId = current[t] THEN IdOf[Scanned(t)]
                                              ELSE mHighestId
  /\ pos' = [pos EXCEPT ![t] = @ + 1]
  /\ removed' = [removed EXCEPT ![t] = TRUE]
  /\ UNCHANGED <<todo, mQueuedEventCount, mHighestQueueSize, mQueuedEvents,
                 lock, ev, current, index, eventCount, nonZeroEvents>>

EndFlush_OnePass(t) ==
  /\ Goto(t, "Flush", "Scan")
  /\ delivered' = delivered \cup {Scanned(t)}
  /\ mHighestId' = IF mHighestId = current[t] THEN IdOf[Scanned(t)]
                                              ELSE mHighestId
  /\ mQueuedEvents' = [mQueuedEvents EXCEPT ![pos[t]] = NoEvent]
  /\ pos' = [pos EXCEPT ![t] = @ + 1]
  /\ UNCHANGED <<todo, mQueuedEventCount, mHighestQueueSize, lock,
                 ev, current, index, eventCount, removed, nonZeroEvents>>

EndFlush(t) ==
  /\ Goto(t, "Flush", "Scan")
  /\ delivered' = delivered \cup {Scanned(t)}
  /\ mHighestId' = IF mHighestId = current[t] THEN IdOf[Scanned(t)]
                                              ELSE mHighestId
  /\ mQueuedEvents' = [mQueuedEvents EXCEPT ![pos[t]] = NoEvent]
  /\ pos' = [pos EXCEPT ![t] = @ + 1]
  /\ removed' = [removed EXCEPT ![t] = TRUE]
  /\ UNCHANGED <<todo, mQueuedEventCount, mHighestQueueSize, lock,
                 ev, current, index, eventCount, nonZeroEvents>>

ScanDone(t) == pc[t] = "Scan" /\ pos[t] = eventCount[t]

(* A pass that passed an event on is followed by another one. *)
ScanAgain(t) ==
  /\ ScanDone(t)
  /\ removed[t]
  /\ NewPass(t, eventCount[t])
  /\ UNCHANGED <<todo, delivered, shared, lock, pc, ev, current, index>>

(* Variant for the mutation checks: the count does not start over.         *)
EmptyQueue_KeepCount(t) ==
  /\ ScanDone(t)
  /\ Return(t, "Scan")
  /\ ~ removed[t]
  /\ nonZeroEvents[t] = 0
  /\ writer' = {}
  /\ UNCHANGED <<todo, delivered, shared, readers>>

(* All slots are empty: their count starts over. *)
EmptyQueue(t) ==
  /\ ScanDone(t)
  /\ Return(t, "Scan")
  /\ ~ removed[t]
  /\ nonZeroEvents[t] = 0
  /\ mQueuedEventCount' = 0
  /\ mHighestQueueSize' = IF mQueuedEventCount > mHighestQueueSize
                          THEN mQueuedEventCount ELSE mHighestQueueSize
  /\ writer' = {}
  /\ UNCHANGED <<todo, delivered, mHighestId, mQueuedEvents, readers>>

LeaveQueue(t) ==
  /\ ScanDone(t)
  /\ Return(t, "Scan")
  /\ ~ removed[t]
  /\ nonZeroEvents[t] # 0
  /\ writer' = {}
  /\ UNCHANGED <<todo, delivered, shared, readers>>

QueueIsEmpty == mQueuedEventCount = 0
-----------------------------------------------------------------------------
(* What a thread does once arcdps has called it. *)
Flushing(t) ==
  \/ QueueSeenEmpty(t) \/ QueueSeenUsed(t) \/ LockUnique(t)
  \/ SkipEmpty(t) \/ SkipEarly(t) \/ BeginFlush(t) \/ EndFlush(t)
  \/ ScanAgain(t) \/ EmptyQueue(t) \/ LeaveQueue(t)

Processing(t) ==
  \/ PassUnordered(t) \/ LoadHighest(t) \/ PassLate(t) \/ EndDirect(t)
  \/ RegisterFirst(t) \/ RegisterFails(t) \/ BeginOrdered(t) \/ Advance(t)
  \/ LockShared(t) \/ Race1(t) \/ ClaimSlot(t) \/ ClaimFails(t)
  \/ EndOverflow(t) \/ Race2(t) \/ RecheckHolds(t) \/ Store(t)

(* Every event has been passed on and every call has returned. *)
Finished == todo = {} /\ \A t \in Threads : pc[t] = "Idle"

Done == Finished /\ UNCHANGED vars

Next ==
  \/ \E t \in Threads :
       (\E e \in Events : Call(t, e)) \/ Processing(t) \/ Flushing(t)
  \/ Done

(* A thread that is inside ProcessEvent keeps running. arcdps owes the     *)
(* sequencer every event. Weak fairness is enough for the locks: with      *)
(* finitely many events they are not contended for ever. The weak exchange *)
(* does not fail spuriously for ever.                                      *)
Fairness ==
  \A t \in Threads :
    /\ WF_vars(Processing(t) \/ Flushing(t))
    /\ WF_vars(\E e \in Events : Call(t, e))
    /\ SF_vars(RegisterFirst(t))

Spec     == Init /\ [][Next]_vars
FairSpec == Spec /\ Fairness
-----------------------------------------------------------------------------
TypeOK ==
  /\ todo \subseteq Events
  /\ delivered \subseteq Events
  /\ mHighestId \in 0..UINT64_MAX
  /\ mQueuedEventCount \in Nat
  /\ mHighestQueueSize \in Nat
  /\ mQueuedEvents \in [Slots -> Events \cup {NoEvent}]
  /\ readers \subseteq Threads
  /\ writer \subseteq Threads
  /\ pc \in [Threads -> PcValues]
  /\ ev \in [Threads -> Events \cup {NoEvent}]
  /\ current \in [Threads -> 0..UINT64_MAX]
  /\ index \in [Threads -> Nat]
  /\ eventCount \in [Threads -> Nat]
  /\ pos \in [Threads -> Nat]
  /\ removed \in [Threads -> BOOLEAN]
  /\ nonZeroEvents \in [Threads -> Nat]

(* The asserts in the fast path (line 62), in the flush (line 267) and when *)
(* the queue is emptied (line 279) never fail: the exchanges find the value *)
(* read before mCallback was called, although mCallback runs without a lock *)
(* on the fast path, and no event is in a slot that is being given up.      *)
AssertsHold ==
  \A t \in Threads :
    /\ pc[t] \in {"Ordered", "Flush"} => mHighestId = current[t]
    /\ ScanDone(t) /\ ~ removed[t] /\ nonZeroEvents[t] = 0 =>
         \A i \in Slots : mQueuedEvents[i] = NoEvent

(* mCallback never runs for two events of the sequence at the same time,   *)
(* whether they come from the fast path or from the queue: ProcessLocalEvent *)
(* behind it relies on this.                                               *)
OneAtATime ==
  \A t, u \in Threads :
    pc[t] \in {"Ordered", "Flush"} /\ pc[u] \in {"Ordered", "Flush"} => t = u

(* No event is lost or passed on twice: at any time an event is still with *)
(* arcdps, with exactly one thread, in exactly one slot, or delivered.     *)
EachEventOnce ==
  /\ todo \cap delivered = {}
  /\ \A t \in Threads : ev[t] \notin todo \cup delivered
  /\ \A i \in Slots : mQueuedEvents[i] \notin todo \cup delivered
  /\ \A t, u \in Threads : ev[t] = ev[u] => t = u \/ ev[t] = NoEvent
  /\ \A i, j \in Slots :
       mQueuedEvents[i] = mQueuedEvents[j] => i = j \/ mQueuedEvents[i] = NoEvent
  /\ \A t \in Threads, i \in Slots :
       ev[t] = mQueuedEvents[i] => ev[t] = NoEvent
  /\ \A e \in Events : \/ e \in todo \cup delivered
                        \/ \E t \in Threads : ev[t] = e
                        \/ \E i \in Slots : mQueuedEvents[i] = e

(* A claimed slot belongs to one thread and is free until that thread      *)
(* writes it: claims that are never given back keep an index from being    *)
(* given out twice (the comment at lines 100-108).                         *)
SlotsNotShared ==
  \A t \in Threads : pc[t] \in {"Recheck", "Store"} =>
    /\ index[t] \in Slots
    /\ index[t] < mQueuedEventCount
    /\ mQueuedEvents[index[t]] = NoEvent
    /\ \A u \in Threads :
         pc[u] \in {"Recheck", "Store"} /\ index[u] = index[t] => u = t

(* The thread will look at slot i again before it leaves the sequencer. *)
WillLookAt(t, i) ==
  \/ pc[t] \in {"Check", "WaitUnique", "Flush"}
  \/ pc[t] = "Scan" /\ (removed[t] \/ pos[t] <= i)

Awaited(i) == mQueuedEvents[i] # NoEvent /\ IsNextId(mQueuedEvents[i])

(* No lost wakeup: when the event in a slot, or one a thread is about to   *)
(* store there, has become the next one, some thread is still going to     *)
(* look at that slot. Adding to the count before reading mHighestId again  *)
(* (lines 83-84) is what makes this true.                                  *)
NoLostWakeup ==
  /\ \A i \in Slots : Awaited(i) => \E t \in Threads : WillLookAt(t, i)
  /\ \A u \in Threads : pc[u] = "Store" /\ IsNextId(ev[u])
       => \E t \in Threads : pc[t] \in {"Check", "WaitUnique"}

(* The sequence has passed on every event there will ever be. *)
AtTheEnd == mHighestId # UINT64_MAX /\ \A e \in Events : IdOf[e] <= mHighestId

(* When the sequence has reached every event and every call has returned,  *)
(* the queue reports that it is empty (LocalStatsTest.cpp asserts it after *)
(* a parallel replay), although slots left empty by Race2 count as used.   *)
(* After an event that found no slot the sequence never reaches the end.   *)
QuietMeansEmpty == Finished /\ AtTheEnd => QueueIsEmpty

(* mHighestId starts once and then only moves to the id that follows it,   *)
(* in the step in which that event's mCallback call has returned.          *)
StepByOne ==
  [][mHighestId' # mHighestId =>
       \/ mHighestId = UINT64_MAX
       \/ /\ mHighestId' = mHighestId + 1
          /\ \E e \in delivered' \ delivered : IdOf[e] = mHighestId']_vars

(* mCallback is called ahead of the sequence only when the slots have run  *)
(* out: otherwise an event is passed on when all before it have been.      *)
AheadOnlyWhenFull ==
  [][\A e \in delivered' \ delivered :
       \/ IdOf[e] = 0
       \/ mHighestId' # UINT64_MAX /\ IdOf[e] <= mHighestId'
       \/ mQueuedEventCount > MAX_QUEUED_EVENTS]_vars

(* Every event that was passed to ProcessEvent and has no gap before it is *)
(* delivered: no interleaving leaves it behind in the queue.               *)
NoGapBefore(e) ==
  /\ mHighestId # UINT64_MAX
  /\ \A n \in (mHighestId + 1)..(IdOf[e] - 1) :
       \E f \in Events \ todo : IdOf[f] = n

EventuallyDelivered ==
  \A e \in Events : (e \notin todo /\ NoGapBefore(e)) ~> (e \in delivered)
-----------------------------------------------------------------------------
(* The inductive invariant behind these properties, in parts.              *)

(* mLock: who holds it is where the threads are, and it is a shared mutex. *)
LockInv ==
  /\ readers = {t \in Threads : pc[t] \in SharedPcs}
  /\ writer = {t \in Threads : pc[t] \in ScanPcs}
  /\ readers = {} \/ writer = {}
  /\ \A t, u \in writer : t = u

(* A thread holds an event exactly from its call until the event is passed *)
(* on or stored; a scan stays within the slots in use.                     *)
HoldInv ==
  \A t \in Threads :
    /\ ev[t] # NoEvent <=> pc[t] \in HoldingPcs
    /\ pc[t] \in ScanPcs => /\ eventCount[t] = Capped(mQueuedEventCount)
                            /\ pos[t] <= eventCount[t]
    /\ pc[t] = "Flush" => pos[t] < eventCount[t] /\ Scanned(t) # NoEvent

(* What a thread knows about mHighestId from its local copy. The third     *)
(* conjunct is the heart of it: if the copy says "I am next", it is still  *)
(* up to date, because only this very event could have moved mHighestId.   *)
KnowsPcs == {"Loop", "Ordered"} \cup SharedPcs
Knows(t) ==
  /\ pc[t] \in KnowsPcs => Id(t) # 0
  /\ pc[t] \in KnowsPcs /\ current[t] # UINT64_MAX =>
       mHighestId # UINT64_MAX /\ current[t] <= mHighestId
  /\ (/\ pc[t] \in {"Loop", "Ordered"}
      /\ current[t] # UINT64_MAX
      /\ current[t] = Id(t) - 1)
     => mHighestId = current[t]
  /\ pc[t] = "Ordered" => current[t] # UINT64_MAX /\ current[t] = Id(t) - 1
  /\ pc[t] \in SharedPcs => TooEarly(t)
  /\ pc[t] = "Flush" => mHighestId = current[t] /\ IsNextId(Scanned(t))
  /\ pc[t] = "Direct" =>
       Id(t) = 0 \/ (mHighestId # UINT64_MAX /\ Id(t) <= mHighestId)

SequenceInv == \A t \in Threads : Knows(t)

(* The count covers every slot in use, and a pass that found nothing left  *)
(* the slots behind it empty.                                              *)
QueueInv ==
  /\ \A i \in Slots : mQueuedEvents[i] # NoEvent => i < mQueuedEventCount
  /\ \A t \in Threads : pc[t] = "Overflow" => mQueuedEventCount > MAX_QUEUED_EVENTS
  /\ \A t \in Threads :
       pc[t] = "Scan" /\ ~ removed[t] /\ nonZeroEvents[t] = 0 =>
         \A i \in Slots : i < pos[t] => mQueuedEvents[i] = NoEvent

IInv ==
  /\ TypeOK
  /\ LockInv
  /\ HoldInv
  /\ EachEventOnce
  /\ SequenceInv
  /\ QueueInv
  /\ SlotsNotShared
  /\ NoLostWakeup

(* What QuietMeansEmpty rests on besides: an event that waits, or is about *)
(* to, is still ahead of the sequence; a pass that will leave the queue as *)
(* it is has seen one that still waits; and if the count is not zero at    *)
(* the end of the sequence, the thread that came there is still to look.   *)
AheadInv ==
  /\ \A t \in Threads : pc[t] \in SharedPcs => Id(t) > mHighestId
  /\ \A i \in Slots : mQueuedEvents[i] # NoEvent =>
       mHighestId # UINT64_MAX /\ IdOf[mQueuedEvents[i]] > mHighestId

LeavesInv ==
  \A t \in Threads :
    pc[t] = "Scan" /\ ~ removed[t] /\ nonZeroEvents[t] # 0 =>
      \E i \in Slots : mQueuedEvents[i] # NoEvent

LooksInv ==
  AtTheEnd /\ mQueuedEventCount # 0 =>
    \E t \in Threads : pc[t] \in {"Check", "WaitUnique"} \cup ScanPcs

QuietInv == AheadInv /\ LeavesInv /\ LooksInv
-----------------------------------------------------------------------------
(* The refinement: a sequenced callback is the one of a thread on the fast *)
(* path or of the slot being flushed.                                      *)
EventsAt(pcs) == {ev[t] : t \in {u \in Threads : pc[u] \in pcs}}
EventsIn(slots) == {mQueuedEvents[i] : i \in slots} \ {NoEvent}
FlushedSlots == {pos[t] : t \in {u \in Threads : pc[u] = "Flush"}}

Running == EventsAt({"Ordered"}) \cup EventsIn(FlushedSlots)
InCallback == IF Running = {} THEN NoEvent ELSE CHOOSE e \in Running : TRUE

Submitted == EventsAt({"Load", "Loop", "Claim", "Recheck", "Store"})
               \cup EventsIn(Slots \ FlushedSlots)

Loose == EventsAt({"Direct", "Overflow"})

Ordered == INSTANCE OrderedDelivery WITH
  NotStarted <- UINT64_MAX,
  last       <- mHighestId,
  submitted  <- Submitted,
  running    <- InCallback,
  loose      <- Loose

(* No call has found the slots used up. *)
NeverFull == \A t \in Threads : pc[t] # "Overflow"

(* While no call finds the slots used up, the sequencer behaves like the   *)
(* abstract OrderedDelivery (safety part).                                 *)
ImplementsOrderedDelivery == Ordered!Init /\ [][Ordered!Next]_(Ordered!vars)

=============================================================================
