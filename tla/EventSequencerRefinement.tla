----------------------- MODULE EventSequencerRefinement -----------------------
(* EventSequencer implements OrderedDelivery: threads, locks, slots and    *)
(* the local copies of mHighestId do not show from outside, as long as the *)
(* slots do not run out.                                                   *)
EXTENDS EventSequencerProofs

USE DEF Goto, shared, lock, locals, scan

SubmittedPcs == {"Load", "Loop", "Claim", "Recheck", "Store"}

-----------------------------------------------------------------------------
(* What a step of a thread does to the events held at some pcs. *)
LEMMA HeldStays ==
  ASSUME NEW t \in Threads, NEW pcs,
         \A u \in Threads \ {t} : pc'[u] = pc[u] /\ ev'[u] = ev[u],
         pc'[t] \in pcs <=> pc[t] \in pcs, pc[t] \in pcs => ev'[t] = ev[t]
  PROVE  EventsAt(pcs)' = EventsAt(pcs)
BY DEF EventsAt

LEMMA HeldEnters ==
  ASSUME NEW t \in Threads, NEW pcs,
         \A u \in Threads \ {t} : pc'[u] = pc[u] /\ ev'[u] = ev[u],
         pc[t] \notin pcs, pc'[t] \in pcs
  PROVE  EventsAt(pcs)' = EventsAt(pcs) \cup {ev'[t]}
BY DEF EventsAt

LEMMA HeldLeaves ==
  ASSUME IInv, NEW t \in Threads, ev[t] # NoEvent, NEW pcs,
         \A u \in Threads \ {t} : pc'[u] = pc[u] /\ ev'[u] = ev[u],
         pc[t] \in pcs, pc'[t] \notin pcs
  PROVE  /\ EventsAt(pcs)' = EventsAt(pcs) \ {ev[t]}
         /\ ev[t] \in EventsAt(pcs)
<1>1. EventsAt(pcs)' = {ev[u] : u \in {v \in Threads \ {t} : pc[v] \in pcs}}
  BY DEF EventsAt
<1>2. \A u \in Threads \ {t} : ev[u] # ev[t]
  BY DEF IInv, EachEventOnce
<1> QED
  BY <1>1, <1>2 DEF EventsAt

(* The slots keep what they have, and none is flushed or ceases to be. *)
LEMMA SlotsStay ==
  ASSUME NEW t \in Threads, pc[t] # "Flush", pc'[t] # "Flush",
         \A u \in Threads \ {t} : pc'[u] = pc[u] /\ pos'[u] = pos[u],
         mQueuedEvents' = mQueuedEvents
  PROVE  /\ FlushedSlots' = FlushedSlots
         /\ EventsIn(FlushedSlots)' = EventsIn(FlushedSlots)
         /\ EventsIn(Slots \ FlushedSlots)' = EventsIn(Slots \ FlushedSlots)
<1>1. FlushedSlots' = FlushedSlots
  BY DEF FlushedSlots
<1> QED
  BY <1>1 DEF EventsIn

(* Which slot is flushed, and which event mCallback runs for.              *)
NoFlush == \A t \in Threads : pc[t] # "Flush"
NoneFlushed == FlushedSlots = {} /\ EventsIn(FlushedSlots) = {}

NoCallback == \A t \in Threads : pc[t] \notin {"Ordered", "Flush"}
NoneRuns == NoneFlushed /\ InCallback = NoEvent

OneRuns ==
  \A t \in Threads :
    /\ pc[t] = "Ordered" => InCallback = ev[t]
    /\ pc[t] = "Flush" => /\ InCallback = Scanned(t)
                          /\ FlushedSlots = {pos[t]} /\ pos[t] \in Slots
                          /\ Scanned(t) \in Events

LEMMA NobodyFlushes == NoFlush => NoneFlushed
BY DEF NoFlush, NoneFlushed, FlushedSlots, EventsIn

LEMMA NobodyCalls == NoCallback => NoneRuns
<1>1. NoCallback => NoFlush
  BY DEF NoCallback, NoFlush
<1> QED
  BY <1>1, NobodyFlushes
  DEF NoneFlushed, NoCallback, NoneRuns, InCallback, Running, EventsAt

LEMMA SomebodyCalls == IInv /\ OneAtATime => OneRuns
<1> SUFFICES ASSUME IInv, OneAtATime, NEW t \in Threads
             PROVE  /\ pc[t] = "Ordered" => InCallback = ev[t]
                    /\ pc[t] = "Flush" =>
                         /\ InCallback = Scanned(t)
                         /\ FlushedSlots = {pos[t]} /\ pos[t] \in Slots
                         /\ Scanned(t) \in Events
  BY DEF OneRuns
<1>1. CASE pc[t] = "Ordered"
  <2>1. \A u \in Threads : pc[u] \in {"Ordered", "Flush"} => u = t
    BY <1>1 DEF OneAtATime
  <2>2. EventsAt({"Ordered"}) = {ev[t]}
    BY <1>1, <2>1 DEF EventsAt
  <2>3. EventsIn(FlushedSlots) = {}
    BY <1>1, <2>1, NobodyFlushes DEF NoFlush, NoneFlushed
  <2> QED
    BY <1>1, <2>2, <2>3 DEF InCallback, Running
<1>2. CASE pc[t] = "Flush"
  <2>1. pos[t] \in Slots /\ Scanned(t) \in Events /\ Scanned(t) # NoEvent
    BY <1>2, FlushedSlot, ConstantsAssumption DEF IInv, Scanned
  <2>2. \A u \in Threads : pc[u] \in {"Ordered", "Flush"} => u = t
    BY <1>2 DEF OneAtATime
  <2>3. FlushedSlots = {pos[t]}
    BY <1>2, <2>2 DEF FlushedSlots
  <2>4. EventsIn(FlushedSlots) = {Scanned(t)}
    BY <2>1, <2>3 DEF EventsIn, Scanned
  <2>5. EventsAt({"Ordered"}) = {}
    BY <1>2, <2>2 DEF EventsAt
  <2> QED
    BY <1>2, <2>1, <2>3, <2>4, <2>5 DEF InCallback, Running
<1> QED
  BY <1>1, <1>2

-----------------------------------------------------------------------------
(* A step of a thread that stays among those that wait, or outside, and    *)
(* moves no event, is not seen from outside.                               *)
LEMMA Unseen ==
  ASSUME NEW t \in Threads,
         \A u \in Threads \ {t} :
           pc'[u] = pc[u] /\ ev'[u] = ev[u] /\ pos'[u] = pos[u],
         pc[t] \notin {"Ordered", "Flush", "Direct", "Overflow"},
         pc'[t] \notin {"Ordered", "Flush", "Direct", "Overflow"},
         pc'[t] \in SubmittedPcs <=> pc[t] \in SubmittedPcs,
         pc[t] \in SubmittedPcs => ev'[t] = ev[t],
         UNCHANGED <<mHighestId, mQueuedEvents, delivered>>
  PROVE  UNCHANGED Ordered!vars
<1>1. /\ EventsAt({"Ordered"})' = EventsAt({"Ordered"})
      /\ EventsAt(SubmittedPcs)' = EventsAt(SubmittedPcs)
      /\ EventsAt({"Direct", "Overflow"})' = EventsAt({"Direct", "Overflow"})
  <2>1. EventsAt({"Ordered"})' = EventsAt({"Ordered"})
    BY HeldStays
  <2>2. EventsAt(SubmittedPcs)' = EventsAt(SubmittedPcs)
    BY HeldStays
  <2>3. EventsAt({"Direct", "Overflow"})' = EventsAt({"Direct", "Overflow"})
    BY HeldStays
  <2> QED
    BY <2>1, <2>2, <2>3
<1>2. /\ EventsIn(FlushedSlots)' = EventsIn(FlushedSlots)
      /\ EventsIn(Slots \ FlushedSlots)' = EventsIn(Slots \ FlushedSlots)
  BY SlotsStay
<1>3. Running' = Running
  BY <1>1, <1>2 DEF Running
<1>4. Submitted' = Submitted /\ Loose' = Loose
  BY <1>1, <1>2 DEF Submitted, Loose, SubmittedPcs
<1>5. InCallback' = InCallback
  BY <1>3 DEF InCallback
<1> QED
  BY <1>4, <1>5 DEF Ordered!vars

(* A step of a thread that is not at mCallback, before or after, in        *)
(* sequence.                                                               *)
LEMMA SameCallback ==
  ASSUME NEW t \in Threads,
         \A u \in Threads \ {t} :
           pc'[u] = pc[u] /\ ev'[u] = ev[u] /\ pos'[u] = pos[u],
         pc[t] \notin {"Ordered", "Flush"}, pc'[t] \notin {"Ordered", "Flush"},
         mQueuedEvents' = mQueuedEvents
  PROVE  /\ InCallback' = InCallback
         /\ EventsIn(Slots \ FlushedSlots)' = EventsIn(Slots \ FlushedSlots)
<1>1. EventsAt({"Ordered"})' = EventsAt({"Ordered"})
  BY HeldStays
<1>2. EventsIn(FlushedSlots)' = EventsIn(FlushedSlots)
  BY SlotsStay
<1>3. Running' = Running
  BY <1>1, <1>2 DEF Running
<1> QED
  BY <1>3, SlotsStay DEF InCallback

(* What is submitted is with a thread or in a slot, never both, and never  *)
(* what mCallback runs for.                                                *)
LEMMA HeldIsNotStored ==
  ASSUME IInv, NEW t \in Threads, ev[t] # NoEvent, NEW slots \in SUBSET Slots
  PROVE  ev[t] \notin EventsIn(slots)
BY DEF IInv, EachEventOnce, EventsIn

LEMMA StoredIsNotHeld ==
  ASSUME IInv, NEW i \in Slots, mQueuedEvents[i] # NoEvent, NEW pcs
  PROVE  mQueuedEvents[i] \notin EventsAt(pcs)
BY DEF IInv, EachEventOnce, EventsAt

LEMMA CallIsSubmit ==
  ASSUME IInv, NEW t \in Threads, NEW e \in Events, Call(t, e)
  PROVE  Ordered!Submit(e)
<1> USE DEF IInv, TypeOK
<1>1. /\ pc[t] = "Idle" /\ pc'[t] = "Load" /\ ev'[t] = e /\ e \in todo
      /\ e # NoEvent
      /\ \A u \in Threads \ {t} :
           pc'[u] = pc[u] /\ ev'[u] = ev[u] /\ pos'[u] = pos[u]
      /\ UNCHANGED <<mHighestId, mQueuedEvents, delivered>>
  BY ConstantsAssumption DEF Call
<1>2. /\ InCallback' = InCallback
      /\ EventsIn(Slots \ FlushedSlots)' = EventsIn(Slots \ FlushedSlots)
  BY <1>1, SameCallback
<1>3. /\ EventsAt(SubmittedPcs)' = EventsAt(SubmittedPcs) \cup {e}
      /\ EventsAt({"Direct", "Overflow"})' = EventsAt({"Direct", "Overflow"})
  <2>1. EventsAt(SubmittedPcs)' = EventsAt(SubmittedPcs) \cup {e}
    <3>1. pc[t] \notin SubmittedPcs /\ pc'[t] \in SubmittedPcs
      BY <1>1 DEF SubmittedPcs
    <3> QED
      BY <1>1, <3>1, HeldEnters
  <2>2. EventsAt({"Direct", "Overflow"})' = EventsAt({"Direct", "Overflow"})
    BY <1>1, HeldStays
  <2> QED
    BY <2>1, <2>2
<1>4. \A pcs : e \notin EventsAt(pcs)
  BY <1>1 DEF EachEventOnce, EventsAt
<1>5. ASSUME NEW slots \in SUBSET Slots
      PROVE  e \notin EventsIn(slots)
  BY <1>1 DEF EachEventOnce, EventsIn
<1>6. FlushedSlots \subseteq Slots
  BY FlushedSlot DEF FlushedSlots
<1>7. e \notin Submitted \cup Loose \cup delivered \cup {InCallback}
  <2>1. e \notin Submitted /\ e \notin Loose
    BY <1>4, <1>5 DEF Submitted, Loose
  <2>2. e \notin Running
    BY <1>4, <1>5, <1>6 DEF Running
  <2>3. e # InCallback
    BY <1>1, <2>2 DEF InCallback
  <2> QED
    BY <1>1, <2>1, <2>3 DEF EachEventOnce
<1>8. Submitted' = Submitted \cup {e} /\ Loose' = Loose
  BY <1>2, <1>3 DEF Submitted, Loose, SubmittedPcs
<1> QED
  BY <1>1, <1>2, <1>7, <1>8 DEF Ordered!Submit

LEMMA RegisterIsStart ==
  ASSUME IInv, NEW t \in Threads, RegisterFirst(t)
  PROVE  ev[t] \in Events /\ Ordered!StartSequence(ev[t])
<1> USE DEF IInv, TypeOK
<1>1. /\ pc[t] = "Loop" /\ pc'[t] = "Load" /\ ev' = ev /\ pos' = pos
      /\ \A u \in Threads \ {t} : pc'[u] = pc[u]
      /\ UNCHANGED <<mQueuedEvents, delivered>>
      /\ mHighestId = UINT64_MAX /\ mHighestId' = Id(t) - 1
  BY DEF RegisterFirst
<1>2. /\ InCallback' = InCallback
      /\ EventsIn(Slots \ FlushedSlots)' = EventsIn(Slots \ FlushedSlots)
  BY <1>1, SameCallback
<1>3. /\ EventsAt(SubmittedPcs)' = EventsAt(SubmittedPcs)
      /\ EventsAt({"Direct", "Overflow"})' = EventsAt({"Direct", "Overflow"})
      /\ ev[t] \in EventsAt(SubmittedPcs)
  <2>1. pc[t] \in SubmittedPcs /\ pc'[t] \in SubmittedPcs
    BY <1>1 DEF SubmittedPcs
  <2>2. EventsAt(SubmittedPcs)' = EventsAt(SubmittedPcs)
    BY <1>1, <2>1, HeldStays
  <2>3. EventsAt({"Direct", "Overflow"})' = EventsAt({"Direct", "Overflow"})
    BY <1>1, HeldStays
  <2>4. ev[t] \in EventsAt(SubmittedPcs)
    BY <2>1 DEF EventsAt
  <2> QED
    BY <2>2, <2>3, <2>4
<1>4. ev[t] \in Events /\ Id(t) # 0
  BY <1>1 DEF HoldInv, HoldingPcs, SequenceInv, Knows, KnowsPcs
<1> QED
  BY <1>1, <1>2, <1>3, <1>4
  DEF Ordered!StartSequence, Submitted, Loose, SubmittedPcs, Id

LEMMA PassIsLoose ==
  ASSUME IInv, NEW t \in Threads, PassUnordered(t) \/ PassLate(t)
  PROVE  ev[t] \in Events /\ Ordered!BeginLoose(ev[t])
<1> USE DEF IInv, TypeOK
<1>1. /\ pc[t] \in {"Load", "Loop"} /\ pc'[t] = "Direct"
      /\ ev' = ev /\ pos' = pos
      /\ \A u \in Threads \ {t} : pc'[u] = pc[u]
      /\ UNCHANGED <<mHighestId, mQueuedEvents, delivered>>
  BY DEF PassUnordered, PassLate
<1>2. /\ InCallback' = InCallback
      /\ EventsIn(Slots \ FlushedSlots)' = EventsIn(Slots \ FlushedSlots)
  BY <1>1, SameCallback
<1>3. ev[t] \in Events /\ ev[t] # NoEvent
  BY <1>1 DEF HoldInv, HoldingPcs
<1>4. ev[t] \notin EventsIn(Slots \ FlushedSlots)
  BY <1>3, HeldIsNotStored
<1>5. /\ EventsAt(SubmittedPcs)' = EventsAt(SubmittedPcs) \ {ev[t]}
      /\ ev[t] \in EventsAt(SubmittedPcs)
      /\ EventsAt({"Direct", "Overflow"})'
           = EventsAt({"Direct", "Overflow"}) \cup {ev[t]}
  <2>1. pc[t] \in SubmittedPcs /\ pc'[t] \notin SubmittedPcs
    BY <1>1 DEF SubmittedPcs
  <2>2. /\ EventsAt(SubmittedPcs)' = EventsAt(SubmittedPcs) \ {ev[t]}
        /\ ev[t] \in EventsAt(SubmittedPcs)
    BY <1>1, <1>3, <2>1, HeldLeaves
  <2>3. EventsAt({"Direct", "Overflow"})'
          = EventsAt({"Direct", "Overflow"}) \cup {ev[t]}
    BY <1>1, HeldEnters
  <2> QED
    BY <2>2, <2>3
<1>6. Id(t) = 0 \/ (mHighestId # UINT64_MAX /\ Id(t) <= mHighestId)
  BY <1>3, ConstantsAssumption
  DEF PassUnordered, PassLate, SequenceInv, Knows, KnowsPcs, Id
<1> QED
  BY <1>1, <1>2, <1>3, <1>4, <1>5, <1>6
  DEF Ordered!BeginLoose, Submitted, Loose, SubmittedPcs, Id

LEMMA DirectIsLoose ==
  ASSUME IInv, NEW t \in Threads, EndDirect(t)
  PROVE  ev[t] \in Events /\ Ordered!EndLoose(ev[t])
<1> USE DEF IInv, TypeOK
<1>1. /\ pc[t] = "Direct" /\ pc'[t] = "Idle"
      /\ \A u \in Threads \ {t} :
           pc'[u] = pc[u] /\ ev'[u] = ev[u] /\ pos'[u] = pos[u]
      /\ UNCHANGED <<mHighestId, mQueuedEvents>>
      /\ delivered' = delivered \cup {ev[t]}
  BY DEF EndDirect, Return, NewPass
<1>2. /\ InCallback' = InCallback
      /\ EventsIn(Slots \ FlushedSlots)' = EventsIn(Slots \ FlushedSlots)
  BY <1>1, SameCallback
<1>3. ev[t] \in Events /\ ev[t] # NoEvent
  BY <1>1 DEF HoldInv, HoldingPcs
<1>4. /\ EventsAt(SubmittedPcs)' = EventsAt(SubmittedPcs)
      /\ ev[t] \in EventsAt({"Direct", "Overflow"})
      /\ EventsAt({"Direct", "Overflow"})'
           = EventsAt({"Direct", "Overflow"}) \ {ev[t]}
  <2>1. pc[t] \notin SubmittedPcs /\ pc'[t] \notin SubmittedPcs
    BY <1>1 DEF SubmittedPcs
  <2>2. EventsAt(SubmittedPcs)' = EventsAt(SubmittedPcs)
    BY <1>1, <2>1, HeldStays
  <2>3. /\ ev[t] \in EventsAt({"Direct", "Overflow"})
        /\ EventsAt({"Direct", "Overflow"})'
             = EventsAt({"Direct", "Overflow"}) \ {ev[t]}
    BY <1>1, <1>3, HeldLeaves
  <2> QED
    BY <2>2, <2>3
<1> QED
  BY <1>1, <1>2, <1>3, <1>4 DEF Ordered!EndLoose, Submitted, Loose, SubmittedPcs

(* The fast path. *)
LEMMA OrderedIsNext ==
  ASSUME IInv, IInv', OneAtATime', NEW t \in Threads, BeginOrdered(t)
  PROVE  ev[t] \in Events /\ Ordered!BeginNext(ev[t])
<1> USE DEF IInv, TypeOK
<1>1. /\ pc[t] = "Loop" /\ pc'[t] = "Ordered" /\ ev' = ev /\ pos' = pos
      /\ \A u \in Threads \ {t} : pc'[u] = pc[u]
      /\ UNCHANGED <<mHighestId, mQueuedEvents, delivered>>
      /\ current[t] # UINT64_MAX /\ current[t] = Id(t) - 1
  BY DEF BeginOrdered
<1>2. NoCallback
  BY <1>1 DEF OneAtATime, NoCallback
<1>3. InCallback = NoEvent
  BY <1>2, NobodyCalls DEF NoneRuns
<1>4. InCallback' = ev[t]
  <2>1. OneRuns'
    BY SomebodyCalls, PTL
  <2> QED
    BY <1>1, <2>1 DEF OneRuns
<1>5. ev[t] \in Events /\ ev[t] # NoEvent
  BY <1>1 DEF HoldInv, HoldingPcs
<1>6. EventsIn(Slots \ FlushedSlots)' = EventsIn(Slots \ FlushedSlots)
  BY <1>1, SlotsStay
<1>7. ev[t] \notin EventsIn(Slots \ FlushedSlots)
  BY <1>5, HeldIsNotStored
<1>8. /\ EventsAt(SubmittedPcs)' = EventsAt(SubmittedPcs) \ {ev[t]}
      /\ ev[t] \in EventsAt(SubmittedPcs)
      /\ EventsAt({"Direct", "Overflow"})' = EventsAt({"Direct", "Overflow"})
  <2>1. pc[t] \in SubmittedPcs /\ pc'[t] \notin SubmittedPcs
    BY <1>1 DEF SubmittedPcs
  <2>2. /\ EventsAt(SubmittedPcs)' = EventsAt(SubmittedPcs) \ {ev[t]}
        /\ ev[t] \in EventsAt(SubmittedPcs)
    BY <1>1, <1>5, <2>1, HeldLeaves
  <2>3. EventsAt({"Direct", "Overflow"})' = EventsAt({"Direct", "Overflow"})
    BY <1>1, HeldStays
  <2> QED
    BY <2>2, <2>3
<1>9. Ordered!IsNext(ev[t])
  <2>1. mHighestId = current[t] /\ Id(t) # 0
    BY <1>1 DEF SequenceInv, Knows, KnowsPcs
  <2> QED
    BY <1>1, <1>5, <2>1, ConstantsAssumption DEF Ordered!IsNext, Id
<1> QED
  BY <1>1, <1>3, <1>4, <1>5, <1>6, <1>7, <1>8, <1>9, ZenonT(60)
  DEF Ordered!BeginNext, Submitted, Loose, SubmittedPcs

LEMMA AdvanceIsEnd ==
  ASSUME IInv, OneAtATime, NEW t \in Threads, Advance(t)
  PROVE  Ordered!EndNext
<1> USE DEF IInv, TypeOK
<1>1. /\ pc[t] = "Ordered" /\ pc'[t] = "Check" /\ pos' = pos
      /\ \A u \in Threads \ {t} : pc'[u] = pc[u] /\ ev'[u] = ev[u]
      /\ mQueuedEvents' = mQueuedEvents
      /\ delivered' = delivered \cup {ev[t]}
      /\ mHighestId' = IF mHighestId = current[t] THEN Id(t) ELSE mHighestId
  BY DEF Advance
<1>2. InCallback = ev[t]
  BY <1>1, SomebodyCalls DEF OneRuns
<1>3. NoCallback'
  BY <1>1 DEF OneAtATime, NoCallback
<1>4. InCallback' = NoEvent
  <2>1. NoneRuns'
    BY <1>3, NobodyCalls, PTL
  <2> QED
    BY <2>1 DEF NoneRuns
<1>5. ev[t] # NoEvent /\ mHighestId = current[t]
  BY <1>1 DEF HoldInv, HoldingPcs, SequenceInv, Knows
<1>6. EventsIn(Slots \ FlushedSlots)' = EventsIn(Slots \ FlushedSlots)
  BY <1>1, SlotsStay
<1>7. /\ EventsAt(SubmittedPcs)' = EventsAt(SubmittedPcs)
      /\ EventsAt({"Direct", "Overflow"})' = EventsAt({"Direct", "Overflow"})
  <2>1. pc[t] \notin SubmittedPcs /\ pc'[t] \notin SubmittedPcs
    BY <1>1 DEF SubmittedPcs
  <2>2. EventsAt(SubmittedPcs)' = EventsAt(SubmittedPcs)
    BY <1>1, <2>1, HeldStays
  <2>3. EventsAt({"Direct", "Overflow"})' = EventsAt({"Direct", "Overflow"})
    BY <1>1, HeldStays
  <2> QED
    BY <2>2, <2>3
<1> QED
  BY <1>1, <1>2, <1>4, <1>5, <1>6, <1>7
  DEF Ordered!EndNext, Submitted, Loose, SubmittedPcs, Id

(* An event that is stored goes from the thread to a slot.                 *)
LEMMA StoreIsUnseen ==
  ASSUME IInv, NEW t \in Threads, Store(t)
  PROVE  UNCHANGED Ordered!vars
<1> USE DEF IInv, TypeOK
<1>1. /\ pc[t] = "Store" /\ pc'[t] = "Idle"
      /\ \A u \in Threads \ {t} : pc'[u] = pc[u] /\ ev'[u] = ev[u]
      /\ mQueuedEvents' = [mQueuedEvents EXCEPT ![index[t]] = ev[t]]
      /\ UNCHANGED <<mHighestId, delivered>>
  BY DEF Store, Return, NewPass
<1>2. NoFlush /\ NoFlush'
  BY <1>1 DEF LockInv, SharedPcs, ScanPcs, NoFlush
<1>3. /\ FlushedSlots = {} /\ EventsIn(FlushedSlots) = {}
      /\ FlushedSlots' = {} /\ EventsIn(FlushedSlots)' = {}
  <2>1. NoneFlushed /\ NoneFlushed'
    BY <1>2, NobodyFlushes, PTL
  <2> QED
    BY <2>1 DEF NoneFlushed
<1>4. /\ index[t] \in Slots /\ mQueuedEvents[index[t]] = NoEvent
      /\ ev[t] # NoEvent
  BY <1>1 DEF SlotsNotShared, HoldInv, HoldingPcs, SharedPcs
<1>5. EventsIn(Slots)' = EventsIn(Slots) \cup {ev[t]}
  BY <1>1, <1>4 DEF EventsIn
<1>6. /\ EventsAt({"Ordered"})' = EventsAt({"Ordered"})
      /\ EventsAt({"Direct", "Overflow"})' = EventsAt({"Direct", "Overflow"})
      /\ EventsAt(SubmittedPcs)' = EventsAt(SubmittedPcs) \ {ev[t]}
      /\ ev[t] \in EventsAt(SubmittedPcs)
  <2>1. pc[t] \in SubmittedPcs /\ pc'[t] \notin SubmittedPcs
    BY <1>1 DEF SubmittedPcs
  <2>2. EventsAt({"Ordered"})' = EventsAt({"Ordered"})
    BY <1>1, HeldStays
  <2>3. EventsAt({"Direct", "Overflow"})' = EventsAt({"Direct", "Overflow"})
    BY <1>1, HeldStays
  <2>4. /\ EventsAt(SubmittedPcs)' = EventsAt(SubmittedPcs) \ {ev[t]}
        /\ ev[t] \in EventsAt(SubmittedPcs)
    BY <1>1, <1>4, <2>1, HeldLeaves
  <2> QED
    BY <2>2, <2>3, <2>4
<1>7. Running' = Running
  BY <1>3, <1>6 DEF Running
<1>8. Slots \ FlushedSlots = Slots /\ (Slots \ FlushedSlots)' = Slots
  BY <1>3 DEF Slots
<1>9. Submitted' = Submitted
  <2>1. EventsIn(Slots \ FlushedSlots)' = EventsIn(Slots)'
    BY <1>8 DEF EventsIn, Slots
  <2> QED
    BY <1>5, <1>6, <1>8, <2>1 DEF Submitted, SubmittedPcs
<1> QED
  BY <1>1, <1>6, <1>7, <1>9 DEF Ordered!vars, Loose, InCallback

(* A flush: its slot is left out of what is submitted while mCallback runs *)
(* for its event, and is empty afterwards.                                 *)
LEMMA FlushIsNext ==
  ASSUME IInv, IInv', OneAtATime', NEW t \in Threads, BeginFlush(t)
  PROVE  Scanned(t) \in Events /\ Ordered!BeginNext(Scanned(t))
<1> USE DEF IInv, TypeOK
<1>1. /\ pc[t] = "Scan" /\ pc'[t] = "Flush"
      /\ ev' = ev /\ pos' = pos
      /\ \A u \in Threads \ {t} : pc'[u] = pc[u]
      /\ UNCHANGED <<mHighestId, mQueuedEvents, delivered>>
      /\ Scanned(t)' = Scanned(t) /\ IsNextId(Scanned(t))
  BY DEF BeginFlush, Scanned
<1>2. NoCallback
  BY <1>1 DEF OneAtATime, NoCallback
<1>3. InCallback = NoEvent /\ FlushedSlots = {}
  BY <1>2, NobodyCalls DEF NoneRuns, NoneFlushed
<1>4. OneRuns'
  BY SomebodyCalls, PTL
<1>5. /\ InCallback' = Scanned(t)
      /\ FlushedSlots' = {pos'[t]}
      /\ pos'[t] \in Slots' /\ Scanned(t)' \in Events
  BY <1>1, <1>4 DEF OneRuns
<1>6. pos[t] \in Slots /\ Scanned(t) \in Events /\ Scanned(t) # NoEvent
  BY <1>1, <1>5, ConstantsAssumption DEF Slots
<1>7. EventsIn(Slots \ FlushedSlots)' = EventsIn(Slots \ {pos[t]})
  BY <1>1, <1>5 DEF EventsIn, Slots
<1>8. /\ EventsIn(Slots \ {pos[t]}) = EventsIn(Slots) \ {Scanned(t)}
      /\ Scanned(t) \in EventsIn(Slots)
  BY <1>6 DEF EventsIn, EachEventOnce, Scanned
<1>9. /\ EventsAt(SubmittedPcs)' = EventsAt(SubmittedPcs)
      /\ EventsAt({"Direct", "Overflow"})' = EventsAt({"Direct", "Overflow"})
  <2>1. pc[t] \notin SubmittedPcs /\ pc'[t] \notin SubmittedPcs
    BY <1>1 DEF SubmittedPcs
  <2>2. EventsAt(SubmittedPcs)' = EventsAt(SubmittedPcs)
    BY <1>1, <2>1, HeldStays
  <2>3. EventsAt({"Direct", "Overflow"})' = EventsAt({"Direct", "Overflow"})
    BY <1>1, HeldStays
  <2> QED
    BY <2>2, <2>3
<1>10. Scanned(t) \notin EventsAt(SubmittedPcs)
  BY <1>6, StoredIsNotHeld DEF Scanned
<1>11. Ordered!IsNext(Scanned(t))
  BY <1>1, <1>6, ConstantsAssumption DEF Ordered!IsNext, IsNextId
<1>12. Submitted = EventsAt(SubmittedPcs) \cup EventsIn(Slots)
  BY <1>3 DEF Submitted, SubmittedPcs
<1>13. Submitted' = Submitted \ {Scanned(t)} /\ Scanned(t) \in Submitted
  <2>1. Submitted' = EventsAt(SubmittedPcs)' \cup EventsIn(Slots \ FlushedSlots)'
    BY DEF Submitted, SubmittedPcs
  <2>2. Submitted'
          = EventsAt(SubmittedPcs) \cup (EventsIn(Slots) \ {Scanned(t)})
    BY <1>7, <1>8, <1>9, <2>1
  <2> QED
    BY <1>8, <1>10, <1>12, <2>2
<1> QED
  BY <1>1, <1>3, <1>5, <1>6, <1>9, <1>11, <1>13 DEF Ordered!BeginNext, Loose

LEMMA FlushIsEnd ==
  ASSUME IInv, OneAtATime, NEW t \in Threads, EndFlush(t)
  PROVE  Ordered!EndNext
<1> USE DEF IInv, TypeOK
<1>1. /\ pc[t] = "Flush" /\ pc'[t] = "Scan" /\ ev' = ev
      /\ \A u \in Threads \ {t} : pc'[u] = pc[u]
      /\ mQueuedEvents' = [mQueuedEvents EXCEPT ![pos[t]] = NoEvent]
      /\ delivered' = delivered \cup {Scanned(t)}
      /\ mHighestId' = IF mHighestId = current[t] THEN IdOf[Scanned(t)]
                                                 ELSE mHighestId
  BY DEF EndFlush
<1>2. /\ InCallback = Scanned(t)
      /\ FlushedSlots = {pos[t]} /\ pos[t] \in Slots
      /\ Scanned(t) \in Events
  BY <1>1, SomebodyCalls DEF OneRuns
<1>3. NoCallback'
  BY <1>1 DEF OneAtATime, NoCallback
<1>4. InCallback' = NoEvent /\ FlushedSlots' = {}
  <2>1. NoneRuns'
    BY <1>3, NobodyCalls, PTL
  <2> QED
    BY <2>1 DEF NoneRuns, NoneFlushed
<1>5. Scanned(t) # NoEvent
  BY <1>2, ConstantsAssumption
<1>6. mHighestId = current[t]
  BY <1>1 DEF SequenceInv, Knows
<1>7. EventsIn(Slots \ FlushedSlots)' = EventsIn(Slots \ FlushedSlots)
  <2>1. EventsIn(Slots \ FlushedSlots)' = EventsIn(Slots)'
    BY <1>4 DEF EventsIn, Slots
  <2>2. EventsIn(Slots)' = EventsIn(Slots \ {pos[t]})
    BY <1>1, <1>2 DEF EventsIn, Slots
  <2> QED
    BY <1>2, <2>1, <2>2
<1>8. /\ EventsAt(SubmittedPcs)' = EventsAt(SubmittedPcs)
      /\ EventsAt({"Direct", "Overflow"})' = EventsAt({"Direct", "Overflow"})
  <2>1. pc[t] \notin SubmittedPcs /\ pc'[t] \notin SubmittedPcs
    BY <1>1 DEF SubmittedPcs
  <2>2. EventsAt(SubmittedPcs)' = EventsAt(SubmittedPcs)
    BY <1>1, <2>1, HeldStays
  <2>3. EventsAt({"Direct", "Overflow"})' = EventsAt({"Direct", "Overflow"})
    BY <1>1, HeldStays
  <2> QED
    BY <2>2, <2>3
<1> QED
  BY <1>1, <1>2, <1>4, <1>5, <1>6, <1>7, <1>8
  DEF Ordered!EndNext, Submitted, Loose, SubmittedPcs

-----------------------------------------------------------------------------
(* Every step of the sequencer is one of OrderedDelivery, or not seen.     *)
LEMMA StepIsOrdered ==
  ASSUME DistinctIds, IInv, IInv', OneAtATime, OneAtATime',
         NeverFull, NeverFull', [Next]_vars
  PROVE  [Ordered!Next]_(Ordered!vars)
<1> USE DEF IInv, TypeOK, PcValues, HoldingPcs, SharedPcs, ScanPcs, SubmittedPcs
<1>1. CASE UNCHANGED vars
  BY <1>1
  DEF vars, Ordered!vars, InCallback, Running, Submitted, Loose, EventsAt,
      EventsIn, FlushedSlots
<1>2. ASSUME NEW t \in Threads, (\E e \in Events : Call(t, e)) \/ Processing(t)
                                  \/ Flushing(t)
      PROVE  [Ordered!Next]_(Ordered!vars)
  <2>1. CASE \E e \in Events : Call(t, e)
    BY <2>1, CallIsSubmit DEF Ordered!Next
  <2>2. CASE PassUnordered(t)
    BY <2>2, PassIsLoose DEF Ordered!Next
  <2>3. CASE LoadHighest(t)
    BY <2>3, Unseen DEF LoadHighest
  <2>4. CASE PassLate(t)
    BY <2>4, PassIsLoose DEF Ordered!Next
  <2>5. CASE EndDirect(t)
    BY <2>5, DirectIsLoose DEF Ordered!Next
  <2>6. CASE RegisterFirst(t)
    BY <2>6, RegisterIsStart DEF Ordered!Next
  <2>7. CASE RegisterFails(t)
    BY <2>7, Unseen DEF RegisterFails
  <2>8. CASE BeginOrdered(t)
    BY <2>8, OrderedIsNext DEF Ordered!Next
  <2>9. CASE Advance(t)
    BY <2>9, AdvanceIsEnd DEF Ordered!Next
  <2>10. CASE LockShared(t)
    BY <2>10, Unseen DEF LockShared
  <2>11. CASE Race1(t)
    BY <2>11, Unseen DEF Race1
  <2>12. CASE ClaimSlot(t)
    BY <2>12, Unseen DEF ClaimSlot, Claim
  <2>13. CASE ClaimFails(t)
    BY <2>13 DEF ClaimFails, NeverFull
  <2>14. CASE EndOverflow(t)
    BY <2>14 DEF EndOverflow, Return, NeverFull
  <2>15. CASE Race2(t)
    <3>1. mQueuedEvents' = mQueuedEvents
      BY <2>15 DEF Race2, SlotsNotShared
    <3> QED
      BY <2>15, <3>1, Unseen DEF Race2
  <2>16. CASE RecheckHolds(t)
    BY <2>16, Unseen DEF RecheckHolds
  <2>17. CASE Store(t)
    BY <2>17, StoreIsUnseen
  <2>18. CASE QueueSeenEmpty(t)
    BY <2>18, Unseen DEF QueueSeenEmpty, Return, NewPass
  <2>19. CASE QueueSeenUsed(t)
    BY <2>19, Unseen DEF QueueSeenUsed
  <2>20. CASE LockUnique(t)
    BY <2>20, Unseen DEF LockUnique, NewPass
  <2>21. CASE SkipEmpty(t)
    BY <2>21, Unseen DEF SkipEmpty, Scanning, Scanned
  <2>22. CASE SkipEarly(t)
    BY <2>22, Unseen DEF SkipEarly, Scanning, Scanned
  <2>23. CASE BeginFlush(t)
    BY <2>23, FlushIsNext DEF Ordered!Next
  <2>24. CASE EndFlush(t)
    BY <2>24, FlushIsEnd DEF Ordered!Next
  <2>25. CASE ScanAgain(t)
    BY <2>25, Unseen DEF ScanAgain, ScanDone, NewPass
  <2>26. CASE EmptyQueue(t)
    BY <2>26, Unseen DEF EmptyQueue, ScanDone, Return, NewPass
  <2>27. CASE LeaveQueue(t)
    BY <2>27, Unseen DEF LeaveQueue, ScanDone, Return, NewPass
  <2> QED
    BY <1>2, <2>1, <2>2, <2>3, <2>4, <2>5, <2>6, <2>7, <2>8, <2>9, <2>10,
       <2>11, <2>12, <2>13, <2>14, <2>15, <2>16, <2>17, <2>18, <2>19, <2>20,
       <2>21, <2>22, <2>23, <2>24, <2>25, <2>26, <2>27
    DEF Processing, Flushing
<1> QED
  BY <1>1, <1>2 DEF Next, Done

(* The abstract sequence of events: what arcdps sees of the sequencer, for *)
(* any number of threads, slots and events, is what OrderedDelivery        *)
(* allows, unless a call finds all slots used up.                          *)
THEOREM SequencerIsOrderedDelivery ==
  ASSUME DistinctIds
  PROVE  Spec /\ []NeverFull => ImplementsOrderedDelivery
<1>1. Init => Ordered!Init
  BY DEF Init, Ordered!Init, Submitted, Loose, InCallback, Running, EventsAt,
         EventsIn, FlushedSlots
<1>2. /\ IInv /\ IInv' /\ OneAtATime /\ OneAtATime'
      /\ NeverFull /\ NeverFull' /\ [Next]_vars
      => [Ordered!Next]_(Ordered!vars)
  BY StepIsOrdered
<1> QED
  BY <1>1, <1>2, Inductive, CallbacksAreSequential, PTL
  DEF Spec, ImplementsOrderedDelivery
=============================================================================
