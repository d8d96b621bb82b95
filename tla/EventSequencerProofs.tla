------------------------ MODULE EventSequencerProofs ------------------------
(* Theorems about EventSequencer, for any set of threads, any events with  *)
(* distinct ids and any number of slots.                                   *)
EXTENDS EventSequencer, TLAPS

USE DEF Goto, shared, lock, locals, scan

(* Returning from ProcessEvent keeps the types of the thread's locals. *)
LEMMA ReturnTyping ==
  ASSUME TypeOK, NEW t \in Threads, NEW from, Return(t, from)
  PROVE  /\ pc' \in [Threads -> PcValues]
         /\ ev' \in [Threads -> Events \cup {NoEvent}]
         /\ current' \in [Threads -> 0..UINT64_MAX]
         /\ index' \in [Threads -> Nat]
         /\ eventCount' \in [Threads -> Nat]
         /\ pos' \in [Threads -> Nat]
         /\ removed' \in [Threads -> BOOLEAN]
         /\ nonZeroEvents' \in [Threads -> Nat]
  BY ConstantsAssumption DEF TypeOK, PcValues, Return, NewPass


(* The slot being flushed exists and holds an event. *)
LEMMA FlushedSlot ==
  ASSUME TypeOK, HoldInv, NEW t \in Threads, pc[t] = "Flush"
  PROVE  /\ pos[t] \in Slots
         /\ mQueuedEvents[pos[t]] \in Events
         /\ pos[t] < mQueuedEventCount
<1>1. /\ pos[t] < eventCount[t] /\ eventCount[t] = Capped(mQueuedEventCount)
      /\ mQueuedEvents[pos[t]] # NoEvent
  BY DEF HoldInv, ScanPcs, Scanned
<1>2. pos[t] \in Slots /\ pos[t] < mQueuedEventCount
  BY <1>1, ConstantsAssumption DEF Slots, Capped, TypeOK
<1> QED
  BY <1>1, <1>2 DEF TypeOK

(* A pass that ends without an event left has seen every slot empty. *)
LEMMA EmptyPass ==
  ASSUME TypeOK, HoldInv, QueueInv, NEW t \in Threads,
         ScanDone(t), ~ removed[t], nonZeroEvents[t] = 0
  PROVE  \A i \in Slots : mQueuedEvents[i] = NoEvent
<1>1. \A i \in Slots : i < pos[t] => mQueuedEvents[i] = NoEvent
  BY DEF QueueInv, ScanDone
<1>2. pos[t] = Capped(mQueuedEventCount)
  BY DEF HoldInv, ScanDone, ScanPcs
<1>3. \A i \in Slots : mQueuedEvents[i] # NoEvent => i < mQueuedEventCount
  BY DEF QueueInv
<1> QED
  BY <1>1, <1>2, <1>3, ConstantsAssumption DEF Slots, Capped, TypeOK

(* Every step keeps the types. *)
LEMMA TypeNext ==
  ASSUME TypeOK, LockInv, HoldInv, SequenceInv, [Next]_vars
  PROVE  TypeOK'
<1> USE ConstantsAssumption DEF TypeOK, PcValues, HoldingPcs, SharedPcs, ScanPcs
<1>1. CASE UNCHANGED vars
  BY <1>1 DEF vars
<1>2. ASSUME NEW t \in Threads, (\E e \in Events : Call(t, e)) \/ Processing(t)
                                  \/ Flushing(t)
      PROVE  TypeOK'
  <2>1. CASE (\E e \in Events : Call(t, e))
    BY <2>1 DEF Call
  <2>2. CASE PassUnordered(t) \/ LoadHighest(t) \/ PassLate(t)
    BY <2>2 DEF PassUnordered, LoadHighest, PassLate
  <2>3. CASE EndDirect(t)
    <3>1. ev[t] \in Events
      BY <2>3 DEF EndDirect, Return, HoldInv
    <3> QED
      BY <2>3, <3>1, ReturnTyping DEF EndDirect
  <2>4. CASE RegisterFirst(t)
    <3>1. ev[t] \in Events /\ Id(t) # 0
      BY <2>4 DEF RegisterFirst, HoldInv, SequenceInv, Knows, KnowsPcs
    <3> QED
      BY <2>4, <3>1 DEF RegisterFirst, Id
  <2>5. CASE RegisterFails(t)
    BY <2>5 DEF RegisterFails
  <2>6. CASE BeginOrdered(t)
    BY <2>6 DEF BeginOrdered
  <2>7. CASE Advance(t)
    BY <2>7 DEF Advance, HoldInv, Id
  <2>8. CASE LockShared(t) \/ Race1(t)
    BY <2>8 DEF LockShared, Race1
  <2>9. CASE ClaimSlot(t) \/ ClaimFails(t)
    BY <2>9 DEF ClaimSlot, ClaimFails, Claim
  <2>10. CASE EndOverflow(t)
    <3>1. ev[t] \in Events
      BY <2>10 DEF EndOverflow, Return, HoldInv
    <3> QED
      BY <2>10, <3>1, ReturnTyping DEF EndOverflow
  <2>11. CASE Race2(t)
    BY <2>11 DEF Race2
  <2>12. CASE RecheckHolds(t)
    BY <2>12 DEF RecheckHolds
  <2>13. CASE Store(t)
    BY <2>13, ReturnTyping DEF Store
  <2>14. CASE QueueSeenEmpty(t)
    BY <2>14, ReturnTyping DEF QueueSeenEmpty
  <2>15. CASE QueueSeenUsed(t)
    BY <2>15 DEF QueueSeenUsed
  <2>16. CASE LockUnique(t)
    BY <2>16 DEF LockUnique, NewPass, Capped
  <2>17. CASE SkipEmpty(t) \/ SkipEarly(t)
    BY <2>17 DEF SkipEmpty, SkipEarly, Scanning
  <2>18. CASE BeginFlush(t)
    BY <2>18 DEF BeginFlush, Scanning
  <2>19. CASE EndFlush(t)
    <3>3. Scanned(t) \in Events
      BY <2>19, FlushedSlot DEF EndFlush, Scanned
    <3>4. mHighestId' \in 0..UINT64_MAX /\ delivered' \subseteq Events
      BY <2>19, <3>3 DEF EndFlush
    <3>5. mQueuedEvents' \in [Slots -> Events \cup {NoEvent}]
      BY <2>19 DEF EndFlush
    <3> QED
      BY <2>19, <3>4, <3>5 DEF EndFlush
  <2>20. CASE ScanAgain(t)
    BY <2>20 DEF ScanAgain, NewPass, ScanDone
  <2>21. CASE EmptyQueue(t)
    BY <2>21, ReturnTyping DEF EmptyQueue, ScanDone
  <2>22. CASE LeaveQueue(t)
    BY <2>22, ReturnTyping DEF LeaveQueue
  <2> QED
    BY <1>2, <2>1, <2>2, <2>3, <2>4, <2>5, <2>6, <2>7, <2>8, <2>9, <2>10, <2>11, <2>12, <2>13, <2>14, <2>15, <2>16, <2>17, <2>18, <2>19, <2>20, <2>21, <2>22
    DEF Processing, Flushing
<1> QED
  BY <1>1, <1>2 DEF Next, Done

(* Every step keeps mLock in line with where the threads are. *)
LEMMA LockNext ==
  ASSUME TypeOK, LockInv, [Next]_vars
  PROVE  LockInv'
<1> USE DEF TypeOK, LockInv, PcValues, HoldingPcs, SharedPcs, ScanPcs
<1>1. CASE UNCHANGED vars
  BY <1>1 DEF vars
<1>2. ASSUME NEW t \in Threads, (\E e \in Events : Call(t, e)) \/ Processing(t)
                                  \/ Flushing(t)
      PROVE  LockInv'
  <2>1. CASE (\E e \in Events : Call(t, e))
    BY <2>1 DEF Call
  <2>2. CASE PassUnordered(t) \/ LoadHighest(t) \/ PassLate(t)
    BY <2>2 DEF PassUnordered, LoadHighest, PassLate
  <2>3. CASE EndDirect(t)
    BY <2>3 DEF EndDirect, Return, NewPass
  <2>4. CASE RegisterFirst(t)
    BY <2>4 DEF RegisterFirst
  <2>5. CASE RegisterFails(t)
    BY <2>5 DEF RegisterFails
  <2>6. CASE BeginOrdered(t)
    BY <2>6 DEF BeginOrdered
  <2>7. CASE Advance(t)
    BY <2>7 DEF Advance
  <2>8. CASE LockShared(t) \/ Race1(t)
    BY <2>8 DEF LockShared, Race1
  <2>9. CASE ClaimSlot(t) \/ ClaimFails(t)
    BY <2>9 DEF ClaimSlot, ClaimFails, Claim
  <2>10. CASE EndOverflow(t)
    BY <2>10 DEF EndOverflow, Return, NewPass
  <2>11. CASE Race2(t)
    BY <2>11 DEF Race2
  <2>12. CASE RecheckHolds(t)
    BY <2>12 DEF RecheckHolds
  <2>13. CASE Store(t)
    BY <2>13 DEF Store, Return, NewPass
  <2>14. CASE QueueSeenEmpty(t)
    BY <2>14 DEF QueueSeenEmpty, Return, NewPass
  <2>15. CASE QueueSeenUsed(t)
    BY <2>15 DEF QueueSeenUsed
  <2>16. CASE LockUnique(t)
    BY <2>16 DEF LockUnique, NewPass
  <2>17. CASE SkipEmpty(t) \/ SkipEarly(t)
    BY <2>17 DEF SkipEmpty, SkipEarly, Scanning
  <2>18. CASE BeginFlush(t)
    BY <2>18 DEF BeginFlush, Scanning
  <2>19. CASE EndFlush(t)
    BY <2>19 DEF EndFlush
  <2>20. CASE ScanAgain(t)
    BY <2>20 DEF ScanAgain, NewPass, ScanDone
  <2>21. CASE EmptyQueue(t)
    BY <2>21 DEF EmptyQueue, Return, NewPass, ScanDone
  <2>22. CASE LeaveQueue(t)
    BY <2>22 DEF LeaveQueue, Return, NewPass, ScanDone
  <2> QED
    BY <1>2, <2>1, <2>2, <2>3, <2>4, <2>5, <2>6, <2>7, <2>8, <2>9, <2>10, <2>11, <2>12, <2>13, <2>14, <2>15, <2>16, <2>17, <2>18, <2>19, <2>20, <2>21, <2>22
    DEF Processing, Flushing
<1> QED
  BY <1>1, <1>2 DEF Next, Done

(* Every step keeps track of which thread holds an event and how far it scanned. *)
LEMMA HoldNext ==
  ASSUME TypeOK, LockInv, HoldInv, [Next]_vars
  PROVE  HoldInv'
<1> USE ConstantsAssumption DEF TypeOK, LockInv, HoldInv, Capped, Scanned, PcValues, HoldingPcs, SharedPcs, ScanPcs
<1>1. CASE UNCHANGED vars
  BY <1>1 DEF vars
<1>2. ASSUME NEW t \in Threads, (\E e \in Events : Call(t, e)) \/ Processing(t)
                                  \/ Flushing(t)
      PROVE  HoldInv'
  <2>1. CASE (\E e \in Events : Call(t, e))
    BY <2>1 DEF Call
  <2>2. CASE PassUnordered(t) \/ LoadHighest(t) \/ PassLate(t)
    BY <2>2 DEF PassUnordered, LoadHighest, PassLate
  <2>3. CASE EndDirect(t)
    BY <2>3 DEF EndDirect, Return, NewPass
  <2>4. CASE RegisterFirst(t)
    BY <2>4 DEF RegisterFirst
  <2>5. CASE RegisterFails(t)
    BY <2>5 DEF RegisterFails
  <2>6. CASE BeginOrdered(t)
    BY <2>6 DEF BeginOrdered
  <2>7. CASE Advance(t)
    BY <2>7 DEF Advance
  <2>8. CASE LockShared(t) \/ Race1(t)
    BY <2>8 DEF LockShared, Race1
  <2>9. CASE ClaimSlot(t) \/ ClaimFails(t)
    BY <2>9 DEF ClaimSlot, ClaimFails, Claim
  <2>10. CASE EndOverflow(t)
    BY <2>10 DEF EndOverflow, Return, NewPass
  <2>11. CASE Race2(t)
    BY <2>11 DEF Race2
  <2>12. CASE RecheckHolds(t)
    BY <2>12 DEF RecheckHolds
  <2>13. CASE Store(t)
    BY <2>13 DEF Store, Return, NewPass
  <2>14. CASE QueueSeenEmpty(t)
    BY <2>14 DEF QueueSeenEmpty, Return, NewPass
  <2>15. CASE QueueSeenUsed(t)
    BY <2>15 DEF QueueSeenUsed
  <2>16. CASE LockUnique(t)
    BY <2>16 DEF LockUnique, NewPass
  <2>17. CASE SkipEmpty(t) \/ SkipEarly(t)
    BY <2>17 DEF SkipEmpty, SkipEarly, Scanning, Scanned
  <2>18. CASE BeginFlush(t)
    BY <2>18 DEF BeginFlush, Scanning, Scanned
  <2>19. CASE EndFlush(t)
    BY <2>19 DEF EndFlush, Scanned
  <2>20. CASE ScanAgain(t)
    BY <2>20 DEF ScanAgain, NewPass, ScanDone
  <2>21. CASE EmptyQueue(t)
    BY <2>21 DEF EmptyQueue, Return, NewPass, ScanDone
  <2>22. CASE LeaveQueue(t)
    BY <2>22 DEF LeaveQueue, Return, NewPass, ScanDone
  <2> QED
    BY <1>2, <2>1, <2>2, <2>3, <2>4, <2>5, <2>6, <2>7, <2>8, <2>9, <2>10, <2>11, <2>12, <2>13, <2>14, <2>15, <2>16, <2>17, <2>18, <2>19, <2>20, <2>21, <2>22
    DEF Processing, Flushing
<1> QED
  BY <1>1, <1>2 DEF Next, Done

(* Every step moves an event from one place to one other place. *)
LEMMA PlaceNext ==
  ASSUME TypeOK, LockInv, HoldInv, SlotsNotShared, EachEventOnce, [Next]_vars
  PROVE  EachEventOnce'
<1> USE ConstantsAssumption DEF TypeOK, HoldInv, EachEventOnce, PcValues, HoldingPcs, SharedPcs, ScanPcs
<1>1. CASE UNCHANGED vars
  BY <1>1 DEF vars
<1>2. ASSUME NEW t \in Threads, (\E e \in Events : Call(t, e)) \/ Processing(t)
                                  \/ Flushing(t)
      PROVE  EachEventOnce'
  <2>1. CASE (\E e \in Events : Call(t, e))
    BY <2>1 DEF Call
  <2>2. CASE PassUnordered(t) \/ LoadHighest(t) \/ PassLate(t)
    BY <2>2 DEF PassUnordered, LoadHighest, PassLate
  <2>3. CASE EndDirect(t)
    BY <2>3 DEF EndDirect, Return, NewPass
  <2>4. CASE RegisterFirst(t)
    BY <2>4 DEF RegisterFirst
  <2>5. CASE RegisterFails(t)
    BY <2>5 DEF RegisterFails
  <2>6. CASE BeginOrdered(t)
    BY <2>6 DEF BeginOrdered
  <2>7. CASE Advance(t)
    BY <2>7 DEF Advance
  <2>8. CASE LockShared(t) \/ Race1(t)
    BY <2>8 DEF LockShared, Race1
  <2>9. CASE ClaimSlot(t) \/ ClaimFails(t)
    BY <2>9 DEF ClaimSlot, ClaimFails, Claim
  <2>10. CASE EndOverflow(t)
    BY <2>10 DEF EndOverflow, Return, NewPass
  <2>11. CASE Race2(t)
    BY <2>11 DEF Race2, SlotsNotShared
  <2>12. CASE RecheckHolds(t)
    BY <2>12 DEF RecheckHolds
  <2>13. CASE Store(t)
    BY <2>13 DEF Store, Return, NewPass, SlotsNotShared
  <2>14. CASE QueueSeenEmpty(t)
    BY <2>14 DEF QueueSeenEmpty, Return, NewPass
  <2>15. CASE QueueSeenUsed(t)
    BY <2>15 DEF QueueSeenUsed
  <2>16. CASE LockUnique(t)
    BY <2>16 DEF LockUnique, NewPass
  <2>17. CASE SkipEmpty(t) \/ SkipEarly(t)
    BY <2>17 DEF SkipEmpty, SkipEarly, Scanning, Scanned
  <2>18. CASE BeginFlush(t)
    BY <2>18 DEF BeginFlush, Scanning, Scanned
  <2>19. CASE EndFlush(t)
    <3> DEFINE s == mQueuedEvents[pos[t]]
    <3>1. pos[t] \in Slots /\ s \in Events
      BY <2>19, FlushedSlot DEF EndFlush
    <3>2. /\ mQueuedEvents' = [mQueuedEvents EXCEPT ![pos[t]] = NoEvent]
          /\ delivered' = delivered \cup {s}
          /\ UNCHANGED <<todo, ev>>
      BY <2>19 DEF EndFlush, Scanned
    <3>3. \A u \in Threads : ev[u] # s
      BY <3>1
    <3>4. \A i \in Slots : mQueuedEvents'[i] # s
      BY <3>1, <3>2
    <3> QED
      BY <3>1, <3>2, <3>3, <3>4
  <2>20. CASE ScanAgain(t)
    BY <2>20 DEF ScanAgain, NewPass, ScanDone
  <2>21. CASE EmptyQueue(t)
    BY <2>21 DEF EmptyQueue, Return, NewPass, ScanDone
  <2>22. CASE LeaveQueue(t)
    BY <2>22 DEF LeaveQueue, Return, NewPass, ScanDone
  <2> QED
    BY <1>2, <2>1, <2>2, <2>3, <2>4, <2>5, <2>6, <2>7, <2>8, <2>9, <2>10, <2>11, <2>12, <2>13, <2>14, <2>15, <2>16, <2>17, <2>18, <2>19, <2>20, <2>21, <2>22
    DEF Processing, Flushing
<1> QED
  BY <1>1, <1>2 DEF Next, Done

(* Every step keeps the count above the slots in use. *)
LEMMA QueueNext ==
  ASSUME TypeOK, LockInv, HoldInv, SlotsNotShared, QueueInv, [Next]_vars
  PROVE  QueueInv'
<1> USE ConstantsAssumption DEF TypeOK, QueueInv, PcValues, HoldingPcs, SharedPcs, ScanPcs
<1>1. CASE UNCHANGED vars
  BY <1>1 DEF vars
<1>2. ASSUME NEW t \in Threads, (\E e \in Events : Call(t, e)) \/ Processing(t)
                                  \/ Flushing(t)
      PROVE  QueueInv'
  <2>1. CASE (\E e \in Events : Call(t, e))
    BY <2>1 DEF Call
  <2>2. CASE PassUnordered(t) \/ LoadHighest(t) \/ PassLate(t)
    BY <2>2 DEF PassUnordered, LoadHighest, PassLate
  <2>3. CASE EndDirect(t)
    BY <2>3 DEF EndDirect, Return, NewPass
  <2>4. CASE RegisterFirst(t)
    BY <2>4 DEF RegisterFirst
  <2>5. CASE RegisterFails(t)
    BY <2>5 DEF RegisterFails
  <2>6. CASE BeginOrdered(t)
    BY <2>6 DEF BeginOrdered
  <2>7. CASE Advance(t)
    BY <2>7 DEF Advance
  <2>8. CASE LockShared(t) \/ Race1(t)
    BY <2>8 DEF LockShared, Race1
  <2>9. CASE ClaimSlot(t)
    BY <2>9 DEF ClaimSlot, Claim, Slots
  <2>10. CASE ClaimFails(t)
    BY <2>10 DEF ClaimFails, Claim, Slots
  <2>11. CASE EndOverflow(t)
    BY <2>11 DEF EndOverflow, Return, NewPass
  <2>12. CASE Race2(t)
    BY <2>12 DEF Race2, SlotsNotShared, Slots
  <2>13. CASE RecheckHolds(t)
    BY <2>13 DEF RecheckHolds
  <2>14. CASE Store(t)
    <3>1. index[t] \in Slots /\ index[t] < mQueuedEventCount
      BY <2>14 DEF Store, Return, SlotsNotShared
    <3>2. writer = {}
      BY <2>14 DEF Store, Return, LockInv
    <3>3. \A u \in Threads : pc'[u] = pc[u] \/ pc'[u] = "Idle"
      BY <2>14 DEF Store, Return
    <3>4. \A u \in Threads : pc'[u] # "Scan"
      BY <3>2, <3>3 DEF LockInv
    <3> QED
      BY <2>14, <3>1, <3>3, <3>4 DEF Store
  <2>15. CASE QueueSeenEmpty(t)
    BY <2>15 DEF QueueSeenEmpty, Return, NewPass
  <2>16. CASE QueueSeenUsed(t)
    BY <2>16 DEF QueueSeenUsed
  <2>17. CASE LockUnique(t)
    BY <2>17 DEF LockUnique, NewPass, Slots
  <2>18. CASE SkipEmpty(t)
    BY <2>18, SMTT(30) DEF SkipEmpty, Scanning, Scanned, Slots
  <2>19. CASE SkipEarly(t)
    <3>1. nonZeroEvents'[t] # 0
      BY <2>19 DEF SkipEarly
    <3> QED
      BY <2>19, <3>1 DEF SkipEarly
  <2>20. CASE BeginFlush(t)
    BY <2>20 DEF BeginFlush, Scanning, Scanned
  <2>21. CASE EndFlush(t)
    BY <2>21 DEF EndFlush, Scanned, HoldInv
  <2>22. CASE ScanAgain(t)
    BY <2>22 DEF ScanAgain, NewPass, ScanDone, Slots
  <2>23. CASE EmptyQueue(t)
    <3>1. readers = {} /\ \A u \in Threads : pc[u] # "Overflow"
      BY <2>23 DEF EmptyQueue, ScanDone, LockInv
    <3>4. \A i \in Slots : mQueuedEvents[i] = NoEvent
      BY <2>23, EmptyPass DEF EmptyQueue
    <3> QED
      BY <2>23, <3>1, <3>4 DEF EmptyQueue, ScanDone, Return, NewPass
  <2>24. CASE LeaveQueue(t)
    BY <2>24 DEF LeaveQueue, Return, NewPass, ScanDone
  <2> QED
    BY <1>2, <2>1, <2>2, <2>3, <2>4, <2>5, <2>6, <2>7, <2>8, <2>9, <2>10, <2>11, <2>12, <2>13, <2>14, <2>15, <2>16, <2>17, <2>18, <2>19, <2>20, <2>21, <2>22, <2>23, <2>24
    DEF Processing, Flushing
<1> QED
  BY <1>1, <1>2 DEF Next, Done

(* Every step keeps claimed slots free and with one thread. *)
LEMMA SlotsNext ==
  ASSUME TypeOK, LockInv, HoldInv, QueueInv, SlotsNotShared, [Next]_vars
  PROVE  SlotsNotShared'
<1> USE ConstantsAssumption DEF TypeOK, SlotsNotShared, PcValues, HoldingPcs, SharedPcs, ScanPcs
<1>1. CASE UNCHANGED vars
  BY <1>1 DEF vars
<1>2. ASSUME NEW t \in Threads, (\E e \in Events : Call(t, e)) \/ Processing(t)
                                  \/ Flushing(t)
      PROVE  SlotsNotShared'
  <2>1. CASE (\E e \in Events : Call(t, e))
    BY <2>1 DEF Call
  <2>2. CASE PassUnordered(t) \/ LoadHighest(t) \/ PassLate(t)
    BY <2>2 DEF PassUnordered, LoadHighest, PassLate
  <2>3. CASE EndDirect(t)
    BY <2>3 DEF EndDirect, Return, NewPass
  <2>4. CASE RegisterFirst(t)
    BY <2>4 DEF RegisterFirst
  <2>5. CASE RegisterFails(t)
    BY <2>5 DEF RegisterFails
  <2>6. CASE BeginOrdered(t)
    BY <2>6 DEF BeginOrdered
  <2>7. CASE Advance(t)
    BY <2>7 DEF Advance
  <2>8. CASE LockShared(t) \/ Race1(t)
    BY <2>8 DEF LockShared, Race1
  <2>9. CASE ClaimSlot(t)
    <3>1. /\ mQueuedEventCount \in Slots
          /\ mQueuedEvents[mQueuedEventCount] = NoEvent
      BY <2>9 DEF ClaimSlot, QueueInv, Slots
    <3>2. /\ pc' = [pc EXCEPT ![t] = "Recheck"]
          /\ index' = [index EXCEPT ![t] = mQueuedEventCount]
          /\ mQueuedEventCount' = mQueuedEventCount + 1
          /\ mQueuedEvents' = mQueuedEvents
      BY <2>9 DEF ClaimSlot, Claim, Goto
    <3>3. ASSUME NEW u \in Threads, u # t, pc'[u] \in {"Recheck", "Store"}
          PROVE  /\ pc[u] \in {"Recheck", "Store"}
                 /\ index'[u] = index[u]
                 /\ index[u] < mQueuedEventCount
      BY <3>2, <3>3
    <3>4. index'[t] = mQueuedEventCount
      BY <3>2
    <3> QED
      BY <3>1, <3>2, <3>3, <3>4, SMTT(30) DEF Slots
  <2>10. CASE ClaimFails(t)
    BY <2>10 DEF ClaimFails, Claim
  <2>11. CASE EndOverflow(t)
    BY <2>11 DEF EndOverflow, Return, NewPass
  <2>12. CASE Race2(t)
    BY <2>12 DEF Race2
  <2>13. CASE RecheckHolds(t)
    BY <2>13 DEF RecheckHolds
  <2>14. CASE Store(t)
    BY <2>14 DEF Store, Return, NewPass
  <2>15. CASE QueueSeenEmpty(t)
    BY <2>15 DEF QueueSeenEmpty, Return, NewPass
  <2>16. CASE QueueSeenUsed(t)
    BY <2>16 DEF QueueSeenUsed
  <2>17. CASE LockUnique(t)
    BY <2>17 DEF LockUnique, NewPass
  <2>18. CASE SkipEmpty(t) \/ SkipEarly(t)
    BY <2>18 DEF SkipEmpty, SkipEarly, Scanning, Scanned
  <2>19. CASE BeginFlush(t)
    BY <2>19 DEF BeginFlush, Scanning, Scanned
  <2>20. CASE EndFlush(t)
    BY <2>20 DEF EndFlush, Scanned, LockInv
  <2>21. CASE ScanAgain(t)
    BY <2>21 DEF ScanAgain, NewPass, ScanDone
  <2>22. CASE EmptyQueue(t)
    BY <2>22 DEF EmptyQueue, Return, NewPass, ScanDone, LockInv
  <2>23. CASE LeaveQueue(t)
    BY <2>23 DEF LeaveQueue, Return, NewPass, ScanDone
  <2> QED
    BY <1>2, <2>1, <2>2, <2>3, <2>4, <2>5, <2>6, <2>7, <2>8, <2>9, <2>10, <2>11, <2>12, <2>13, <2>14, <2>15, <2>16, <2>17, <2>18, <2>19, <2>20, <2>21, <2>22, <2>23
    DEF Processing, Flushing
<1> QED
  BY <1>1, <1>2 DEF Next, Done

(* Every step keeps what the threads know about mHighestId true. *)
LEMMA SequenceNext ==
  ASSUME DistinctIds, TypeOK, LockInv, HoldInv, EachEventOnce, QueueInv, SequenceInv, [Next]_vars
  PROVE  SequenceInv'
<1> USE ConstantsAssumption DEF TypeOK, SequenceInv, Knows, KnowsPcs, TooEarly, Id, IsNextId, Scanned, PcValues, HoldingPcs, SharedPcs, ScanPcs
<1>1. CASE UNCHANGED vars
  BY <1>1 DEF vars
<1>2. ASSUME NEW t \in Threads, (\E e \in Events : Call(t, e)) \/ Processing(t)
                                  \/ Flushing(t)
      PROVE  SequenceInv'
  <2>1. CASE (\E e \in Events : Call(t, e))
    BY <2>1 DEF Call
  <2>2. CASE PassUnordered(t)
    BY <2>2 DEF PassUnordered
  <2>3. CASE LoadHighest(t)
    BY <2>3 DEF LoadHighest
  <2>4. CASE PassLate(t)
    <3>1. ev[t] \in Events /\ Id(t) # UINT64_MAX
      BY <2>4 DEF PassLate, HoldInv
    <3>2. mHighestId # UINT64_MAX /\ Id(t) <= mHighestId
      BY <2>4, <3>1 DEF PassLate
    <3> QED
      BY <2>4, <3>2 DEF PassLate
  <2>5. CASE EndDirect(t)
    BY <2>5 DEF EndDirect, Return, NewPass
  <2>6. CASE RegisterFirst(t)
    BY <2>6 DEF RegisterFirst, HoldInv
  <2>7. CASE RegisterFails(t)
    BY <2>7 DEF RegisterFails
  <2>8. CASE BeginOrdered(t)
    BY <2>8 DEF BeginOrdered
  <2>9. CASE Advance(t)
    <3>1. ev[t] \in Events /\ Id(t) # 0
      BY <2>9 DEF Advance, HoldInv
    <3>2. mHighestId # UINT64_MAX /\ mHighestId = Id(t) - 1 /\ mHighestId' = Id(t)
      BY <2>9 DEF Advance
    <3>3. Id(t) \in 1..(UINT64_MAX - 1)
      BY <3>1
    <3>4. \A u \in Threads : u # t /\ ev[u] \in Events => Id(u) # Id(t)
      BY <3>1 DEF EachEventOnce, DistinctIds
    <3>5. \A u \in Threads : pc[u] # "Flush"
      <4> SUFFICES ASSUME NEW u \in Threads, pc[u] = "Flush" PROVE FALSE
        OBVIOUS
      <4>1. pos[u] \in Slots /\ mQueuedEvents[pos[u]] \in Events
        BY FlushedSlot
      <4>2. IdOf[mQueuedEvents[pos[u]]] = IdOf[ev[t]]
        BY <3>2
      <4>3. mQueuedEvents[pos[u]] = ev[t]
        BY <3>1, <4>1, <4>2 DEF DistinctIds
      <4> QED
        BY <3>1, <4>1, <4>3 DEF EachEventOnce
    <3>6. \A u \in Threads : u # t => /\ pc'[u] = pc[u] /\ ev'[u] = ev[u]
                                      /\ current'[u] = current[u]
      BY <2>9 DEF Advance
    <3>7. pc'[t] = "Check" /\ mQueuedEventCount' = mQueuedEventCount
      BY <2>9 DEF Advance
    <3>8. \A u \in Threads : pc[u] \in HoldingPcs => ev[u] \in Events
      BY DEF HoldInv
    <3> SUFFICES ASSUME NEW u \in Threads, u # t PROVE Knows(u)'
      BY <3>7
    <3> QED
      BY <3>2, <3>3, <3>4, <3>5, <3>6, <3>7, <3>8
  <2>10. CASE LockShared(t) \/ Race1(t)
    BY <2>10 DEF LockShared, Race1
  <2>11. CASE ClaimSlot(t)
    BY <2>11 DEF ClaimSlot, Claim
  <2>12. CASE ClaimFails(t)
    BY <2>12 DEF ClaimFails, Claim
  <2>13. CASE EndOverflow(t)
    BY <2>13 DEF EndOverflow, Return, NewPass
  <2>14. CASE Race2(t)
    BY <2>14 DEF Race2, LockInv
  <2>15. CASE RecheckHolds(t)
    BY <2>15 DEF RecheckHolds
  <2>16. CASE Store(t)
    BY <2>16 DEF Store, Return, NewPass, LockInv
  <2>17. CASE QueueSeenEmpty(t)
    BY <2>17 DEF QueueSeenEmpty, Return, NewPass
  <2>18. CASE QueueSeenUsed(t)
    BY <2>18 DEF QueueSeenUsed
  <2>19. CASE LockUnique(t)
    BY <2>19 DEF LockUnique, NewPass
  <2>20. CASE SkipEmpty(t) \/ SkipEarly(t)
    BY <2>20 DEF SkipEmpty, SkipEarly, Scanning, Scanned
  <2>21. CASE BeginFlush(t)
    BY <2>21 DEF BeginFlush, Scanning, Scanned
  <2>22. CASE EndFlush(t)
    <3> DEFINE s == mQueuedEvents[pos[t]]
    <3>1. pos[t] \in Slots /\ s \in Events
      BY <2>22, FlushedSlot DEF EndFlush
    <3>2. mHighestId # UINT64_MAX /\ mHighestId = IdOf[s] - 1 /\ mHighestId' = IdOf[s]
      BY <2>22 DEF EndFlush
    <3>3. IdOf[s] \in 1..(UINT64_MAX - 1)
      BY <3>1, <3>2
    <3>4. \A u \in Threads : ev[u] \in Events => Id(u) # IdOf[s]
      BY <3>1, <3>3 DEF EachEventOnce, DistinctIds
    <3>5. \A u \in Threads : pc'[u] \in ScanPcs => u = t
      BY <2>22 DEF EndFlush, LockInv
    <3>6. \A u \in Threads : u # t => pc'[u] = pc[u]
      BY <2>22 DEF EndFlush
    <3>7. pc'[t] = "Scan" /\ ev' = ev /\ current' = current
          /\ mQueuedEventCount' = mQueuedEventCount
      BY <2>22 DEF EndFlush
    <3>8. \A u \in Threads : pc[u] \in HoldingPcs => ev[u] \in Events
      BY DEF HoldInv
    <3> SUFFICES ASSUME NEW u \in Threads, u # t PROVE Knows(u)'
      BY <3>7
    <3>9. pc'[u] # "Flush"
      BY <3>5
    <3> QED
      BY <3>2, <3>3, <3>4, <3>6, <3>7, <3>8, <3>9
  <2>23. CASE ScanAgain(t)
    BY <2>23 DEF ScanAgain, NewPass, ScanDone
  <2>24. CASE EmptyQueue(t)
    BY <2>24 DEF EmptyQueue, Return, NewPass, ScanDone
  <2>25. CASE LeaveQueue(t)
    BY <2>25 DEF LeaveQueue, Return, NewPass, ScanDone
  <2> QED
    BY <1>2, <2>1, <2>2, <2>3, <2>4, <2>5, <2>6, <2>7, <2>8, <2>9, <2>10, <2>11, <2>12, <2>13, <2>14, <2>15, <2>16, <2>17, <2>18, <2>19, <2>20, <2>21, <2>22, <2>23, <2>24, <2>25
    DEF Processing, Flushing
<1> QED
  BY <1>1, <1>2 DEF Next, Done

(* Every step leaves a thread to look at a slot whose event has become the next one. *)
LEMMA WakeupNext ==
  ASSUME DistinctIds, TypeOK, LockInv, HoldInv, EachEventOnce, SequenceInv, QueueInv, SlotsNotShared, NoLostWakeup, [Next]_vars
  PROVE  NoLostWakeup'
<1> USE ConstantsAssumption DEF TypeOK, NoLostWakeup, Awaited, WillLookAt, IsNextId, PcValues, HoldingPcs, SharedPcs, ScanPcs
<1>1. CASE UNCHANGED vars
  BY <1>1 DEF vars
<1>2. ASSUME NEW t \in Threads, (\E e \in Events : Call(t, e)) \/ Processing(t)
                                  \/ Flushing(t)
      PROVE  NoLostWakeup'
  <2>1. CASE (\E e \in Events : Call(t, e))
    BY <2>1 DEF Call
  <2>2. CASE PassUnordered(t)
    BY <2>2 DEF PassUnordered
  <2>3. CASE LoadHighest(t)
    BY <2>3 DEF LoadHighest
  <2>4. CASE PassLate(t)
    BY <2>4 DEF PassLate
  <2>5. CASE EndDirect(t)
    BY <2>5 DEF EndDirect, Return, NewPass
  <2>6. CASE RegisterFirst(t)
    <3>1. ev[t] \in Events /\ Id(t) # 0
      BY <2>6 DEF RegisterFirst, HoldInv, SequenceInv, Knows, KnowsPcs
    <3>2. ASSUME NEW e \in Events, IsNextId(e)' PROVE e = ev[t]
      BY <2>6, <3>1, <3>2 DEF RegisterFirst, Id, DistinctIds
    <3>3. \A i \in Slots : ~ Awaited(i)'
      BY <2>6, <3>1, <3>2 DEF RegisterFirst, EachEventOnce
    <3>4. \A u \in Threads : pc'[u] = "Store" => ev[u] \in Events /\ u # t
      BY <2>6 DEF RegisterFirst, HoldInv
    <3>5. \A u \in Threads : pc'[u] = "Store" => ~ IsNextId(ev[u])'
      BY <2>6, <3>1, <3>2, <3>4 DEF RegisterFirst, EachEventOnce
    <3> QED
      BY <2>6, <3>3, <3>5 DEF RegisterFirst
  <2>7. CASE RegisterFails(t)
    BY <2>7 DEF RegisterFails
  <2>8. CASE BeginOrdered(t)
    BY <2>8 DEF BeginOrdered
  <2>9. CASE Advance(t)
    BY <2>9 DEF Advance
  <2>10. CASE LockShared(t) \/ Race1(t)
    BY <2>10 DEF LockShared, Race1
  <2>11. CASE ClaimSlot(t)
    BY <2>11 DEF ClaimSlot, Claim
  <2>12. CASE ClaimFails(t)
    BY <2>12 DEF ClaimFails, Claim
  <2>13. CASE EndOverflow(t)
    BY <2>13 DEF EndOverflow, Return, NewPass
  <2>14. CASE Race2(t)
    BY <2>14 DEF Race2
  <2>15. CASE RecheckHolds(t)
    <3>1. ASSUME NEW i \in Slots, Awaited(i)' PROVE \E w \in Threads : WillLookAt(w, i)'
      <4>1. Awaited(i)
        BY <2>15, <3>1 DEF RecheckHolds
      <4>2. PICK w \in Threads : WillLookAt(w, i)
        BY <4>1
      <4>3. WillLookAt(w, i)'
        BY <2>15, <3>1, <4>1, <4>2 DEF RecheckHolds
      <4> QED
        BY <4>3
    <3>2. ASSUME NEW u \in Threads, pc'[u] = "Store", IsNextId(ev[u])'
          PROVE  \E w \in Threads : pc'[w] \in {"Check", "WaitUnique"}
      <4>1. u # t
        BY <2>15, <3>2 DEF RecheckHolds, SequenceInv, Knows, TooEarly, Id, HoldInv
      <4>2. pc[u] = "Store" /\ IsNextId(ev[u])
        BY <2>15, <3>2, <4>1 DEF RecheckHolds
      <4> QED
        BY <2>15, <4>2 DEF RecheckHolds
    <3> QED
      BY <3>1, <3>2
  <2>16. CASE Store(t)
    BY <2>16 DEF Store, Return, NewPass
  <2>17. CASE QueueSeenEmpty(t)
    <3>1. ASSUME NEW i \in Slots, Awaited(i)' PROVE \E w \in Threads : WillLookAt(w, i)'
      BY <2>17, <3>1 DEF QueueSeenEmpty, QueueInv, Slots
    <3>2. \A u \in Threads : pc'[u] # "Store"
      BY <2>17 DEF QueueSeenEmpty, SlotsNotShared, Return
    <3> QED
      BY <3>1, <3>2
  <2>18. CASE QueueSeenUsed(t)
    BY <2>18 DEF QueueSeenUsed
  <2>19. CASE LockUnique(t)
    <3>1. ASSUME NEW i \in Slots, Awaited(i)' PROVE \E w \in Threads : WillLookAt(w, i)'
      <4>1. Awaited(i)
        BY <2>19, <3>1 DEF LockUnique
      <4>2. PICK w \in Threads : WillLookAt(w, i)
        BY <4>1
      <4>3. WillLookAt(w, i)'
        BY <2>19, <3>1, <4>1, <4>2 DEF LockUnique, NewPass, Slots
      <4> QED
        BY <4>3
    <3>2. \A u \in Threads : pc'[u] # "Store"
      BY <2>19 DEF LockUnique, LockInv
    <3> QED
      BY <3>1, <3>2
  <2>20. CASE SkipEmpty(t)
    <3>1. ASSUME NEW i \in Slots, Awaited(i)' PROVE \E w \in Threads : WillLookAt(w, i)'
      <4>1. Awaited(i)
        BY <2>20, <3>1 DEF SkipEmpty
      <4>2. PICK w \in Threads : WillLookAt(w, i)
        BY <4>1
      <4>3. WillLookAt(w, i)'
        BY <2>20, <3>1, <4>1, <4>2, SMTT(30) DEF SkipEmpty, Scanning, Scanned, Slots
      <4> QED
        BY <4>3
    <3>2. \A u \in Threads : pc'[u] # "Store"
      BY <2>20 DEF SkipEmpty, LockInv, Scanning
    <3> QED
      BY <3>1, <3>2
  <2>21. CASE SkipEarly(t)
    <3>1. ASSUME NEW i \in Slots, Awaited(i)' PROVE \E w \in Threads : WillLookAt(w, i)'
      <4>1. Awaited(i)
        BY <2>21, <3>1 DEF SkipEarly
      <4>2. PICK w \in Threads : WillLookAt(w, i)
        BY <4>1
      <4>3. WillLookAt(w, i)'
        BY <2>21, <3>1, <4>1, <4>2, SMTT(30) DEF SkipEarly, Scanning, Scanned, Slots
      <4> QED
        BY <4>3
    <3>2. \A u \in Threads : pc'[u] # "Store"
      BY <2>21 DEF SkipEarly, LockInv, Scanning
    <3> QED
      BY <3>1, <3>2
  <2>22. CASE BeginFlush(t)
    BY <2>22 DEF BeginFlush, Scanning, Scanned
  <2>23. CASE EndFlush(t)
    <3>1. ASSUME NEW i \in Slots, Awaited(i)' PROVE \E w \in Threads : WillLookAt(w, i)'
      <4>1. WillLookAt(t, i)'
        BY <2>23 DEF EndFlush
      <4> QED
        BY <4>1
    <3>2. \A u \in Threads : pc'[u] # "Store"
      BY <2>23 DEF EndFlush, LockInv
    <3> QED
      BY <3>1, <3>2
  <2>24. CASE ScanAgain(t)
    <3>1. ASSUME NEW i \in Slots, Awaited(i)' PROVE \E w \in Threads : WillLookAt(w, i)'
      <4>1. Awaited(i)
        BY <2>24, <3>1 DEF ScanAgain
      <4>2. PICK w \in Threads : WillLookAt(w, i)
        BY <4>1
      <4>3. WillLookAt(w, i)'
        BY <2>24, <3>1, <4>1, <4>2 DEF ScanAgain, ScanDone, NewPass, Slots
      <4> QED
        BY <4>3
    <3>2. \A u \in Threads : pc'[u] # "Store"
      BY <2>24 DEF ScanAgain, LockInv, ScanDone
    <3> QED
      BY <3>1, <3>2
  <2>25. CASE EmptyQueue(t)
    <3>1. ASSUME NEW i \in Slots, Awaited(i)' PROVE \E w \in Threads : WillLookAt(w, i)'
      BY <2>25, <3>1, EmptyPass DEF EmptyQueue
    <3>2. \A u \in Threads : pc'[u] # "Store"
      BY <2>25 DEF EmptyQueue, LockInv, ScanDone, Return
    <3> QED
      BY <3>1, <3>2
  <2>26. CASE LeaveQueue(t)
    <3>1. ASSUME NEW i \in Slots, Awaited(i)' PROVE \E w \in Threads : WillLookAt(w, i)'
      <4>1. Awaited(i)
        BY <2>26, <3>1 DEF LeaveQueue
      <4>2. PICK w \in Threads : WillLookAt(w, i)
        BY <4>1
      <4>3. i < pos[t]
        <5>1. i < mQueuedEventCount
          BY <4>1 DEF QueueInv
        <5>2. pos[t] = Capped(mQueuedEventCount)
          BY <2>26 DEF LeaveQueue, ScanDone, HoldInv
        <5> QED
          BY <5>1, <5>2 DEF Capped, Slots
      <4>4. w # t
        BY <2>26, <4>2, <4>3 DEF LeaveQueue, ScanDone, Slots
      <4>5. WillLookAt(w, i)'
        BY <2>26, <4>2, <4>4 DEF LeaveQueue, Return, NewPass
      <4> QED
        BY <4>5
    <3>2. \A u \in Threads : pc'[u] # "Store"
      BY <2>26 DEF LeaveQueue, LockInv, ScanDone, Return
    <3> QED
      BY <3>1, <3>2
  <2> QED
    BY <1>2, <2>1, <2>2, <2>3, <2>4, <2>5, <2>6, <2>7, <2>8, <2>9, <2>10, <2>11, <2>12, <2>13, <2>14, <2>15, <2>16, <2>17, <2>18, <2>19, <2>20, <2>21, <2>22, <2>23, <2>24, <2>25, <2>26
    DEF Processing, Flushing
<1> QED
  BY <1>1, <1>2 DEF Next, Done

-----------------------------------------------------------------------------
(* IInv is an inductive invariant when no two events share an id. The      *)
(* duplicate run shows that this assumption is needed.                     *)
THEOREM Inductive == ASSUME DistinctIds PROVE Spec => []IInv
<1>1. Init => IInv
  <2> SUFFICES ASSUME Init PROVE IInv
    OBVIOUS
  <2> USE ConstantsAssumption
      DEF Init, PcValues, HoldingPcs, SharedPcs, ScanPcs, KnowsPcs
  <2>1. TypeOK
    BY DEF TypeOK, Slots
  <2>2. LockInv /\ HoldInv
    BY DEF LockInv, HoldInv
  <2>3. EachEventOnce
    BY DEF EachEventOnce
  <2>4. SequenceInv /\ QueueInv
    BY DEF SequenceInv, Knows, QueueInv
  <2>5. SlotsNotShared /\ NoLostWakeup
    BY DEF SlotsNotShared, NoLostWakeup, Awaited
  <2> QED
    BY <2>1, <2>2, <2>3, <2>4, <2>5 DEF IInv
<1>2. IInv /\ [Next]_vars => IInv'
  BY DistinctIds, TypeNext, LockNext, HoldNext, PlaceNext, QueueNext,
     SlotsNext, SequenceNext, WakeupNext
  DEF IInv
<1> QED
  BY <1>1, <1>2, PTL DEF Spec

(* Every variable keeps its type, whatever the threads do. *)
THEOREM TypeCorrect == ASSUME DistinctIds PROVE Spec => []TypeOK
<1>1. IInv => TypeOK
  BY DEF IInv
<1> QED
  BY <1>1, Inductive, PTL

(* No event is lost, passed on twice, or in two hands at once: the thread  *)
(* that flushes a slot and the one that stored the event never both have   *)
(* it (ProcessEvent and TryFlushEvents together).                          *)
THEOREM EventsAreKept == ASSUME DistinctIds PROVE Spec => []EachEventOnce
<1>1. IInv => EachEventOnce
  BY DEF IInv
<1> QED
  BY <1>1, Inductive, PTL

(* A claimed slot is free and belongs to one thread (the comment at lines  *)
(* 100-108 of EventSequencer.cpp).                                         *)
THEOREM ClaimsAreExclusive == ASSUME DistinctIds PROVE Spec => []SlotsNotShared
<1>1. IInv => SlotsNotShared
  BY DEF IInv
<1> QED
  BY <1>1, Inductive, PTL

(* An event that has become the next one is never left in the queue with   *)
(* nobody about to look (the comment at lines 83-84).                      *)
THEOREM WakeupsAreKept == ASSUME DistinctIds PROVE Spec => []NoLostWakeup
<1>1. IInv => NoLostWakeup
  BY DEF IInv
<1> QED
  BY <1>1, Inductive, PTL

(* Neither exchange of ProcessEvent and TryFlushEvents fails, and the      *)
(* queue is given up only when it is empty: the asserts of lines 62, 267   *)
(* and 279 hold.                                                           *)
THEOREM AssertsNeverFail == ASSUME DistinctIds PROVE Spec => []AssertsHold
<1>1. IInv => AssertsHold
  <2> SUFFICES ASSUME IInv, NEW t \in Threads
               PROVE  /\ pc[t] \in {"Ordered", "Flush"} => mHighestId = current[t]
                      /\ ScanDone(t) /\ ~ removed[t] /\ nonZeroEvents[t] = 0 =>
                           \A i \in Slots : mQueuedEvents[i] = NoEvent
    BY DEF AssertsHold
  <2>1. pc[t] \in {"Ordered", "Flush"} => mHighestId = current[t]
    BY DEF IInv, SequenceInv, Knows
  <2> QED
    BY <2>1, EmptyPass DEF IInv
<1> QED
  BY <1>1, Inductive, PTL

(* mHighestId leaves its initial value once, and then only moves to the    *)
(* next id, in the step in which that event's callback has returned.       *)
THEOREM StepsAreByOne == ASSUME DistinctIds PROVE Spec => StepByOne
<1> DEFINE Good == mHighestId' # mHighestId =>
       \/ mHighestId = UINT64_MAX
       \/ /\ mHighestId' = mHighestId + 1
          /\ \E e \in delivered' \ delivered : IdOf[e] = mHighestId'
<1>1. IInv /\ [Next]_vars => Good
  <2> SUFFICES ASSUME IInv, [Next]_vars, mHighestId' # mHighestId,
                      mHighestId # UINT64_MAX
               PROVE  /\ mHighestId' = mHighestId + 1
                      /\ \E e \in delivered' \ delivered : IdOf[e] = mHighestId'
    OBVIOUS
  <2>1. PICK t \in Threads : Advance(t) \/ EndFlush(t)
    BY DEF Next, Processing, Flushing, Done, vars, Call, PassUnordered, LoadHighest,
       PassLate, EndDirect, RegisterFirst, RegisterFails, BeginOrdered, LockShared,
       Race1, ClaimSlot, ClaimFails, Claim, EndOverflow, Race2, RecheckHolds, Store,
       QueueSeenEmpty, QueueSeenUsed, LockUnique, SkipEmpty, SkipEarly, BeginFlush,
       ScanAgain, EmptyQueue, LeaveQueue
  <2>2. CASE Advance(t)
    <3>1. pc[t] = "Ordered" /\ ev[t] \in Events /\ ev[t] \notin delivered
      BY <2>2 DEF Advance, IInv, TypeOK, HoldInv, HoldingPcs, EachEventOnce
    <3>2. mHighestId = current[t] /\ current[t] = Id(t) - 1
      BY <3>1 DEF IInv, SequenceInv, Knows
    <3>3. mHighestId' = Id(t) /\ ev[t] \in delivered'
      BY <2>2, <3>2 DEF Advance
    <3>4. Id(t) = mHighestId + 1
      BY <3>1, <3>2, ConstantsAssumption DEF Id, IInv, TypeOK
    <3> QED
      BY <3>1, <3>3, <3>4 DEF Id
  <2>3. CASE EndFlush(t)
    <3>1. pc[t] = "Flush"
      BY <2>3 DEF EndFlush
    <3>2. pos[t] \in Slots /\ Scanned(t) \in Events
      BY <3>1, FlushedSlot DEF IInv, Scanned
    <3>3. Scanned(t) \notin delivered
      BY <3>2 DEF IInv, EachEventOnce, Scanned
    <3>4. mHighestId = current[t] /\ IdOf[Scanned(t)] = mHighestId + 1
      BY <3>1 DEF IInv, SequenceInv, Knows, IsNextId
    <3>5. mHighestId' = IdOf[Scanned(t)] /\ Scanned(t) \in delivered'
      BY <2>3, <3>4 DEF EndFlush
    <3> QED
      BY <3>2, <3>3, <3>4, <3>5
  <2> QED
    BY <2>1, <2>2, <2>3
<1> QED
  BY <1>1, Inductive, PTL DEF Spec, StepByOne

(* mCallback is called ahead of the sequence only when the slots have run  *)
(* out; otherwise all the events before it have been passed on.            *)
THEOREM OnlyFullQueuesSkip == ASSUME DistinctIds PROVE Spec => AheadOnlyWhenFull
<1> DEFINE InOrder(e) ==
       \/ IdOf[e] = 0
       \/ mHighestId' # UINT64_MAX /\ IdOf[e] <= mHighestId'
       \/ mQueuedEventCount > MAX_QUEUED_EVENTS
<1>1. IInv /\ [Next]_vars => \A e \in delivered' \ delivered : InOrder(e)
  <2> SUFFICES ASSUME IInv, [Next]_vars, NEW e \in delivered' \ delivered
               PROVE  InOrder(e)
    OBVIOUS
  <2>1. PICK t \in Threads : \/ Advance(t) \/ EndFlush(t)
                            \/ EndDirect(t) \/ EndOverflow(t)
    BY DEF Next, Processing, Flushing, Done, vars, Call, PassUnordered, LoadHighest,
       PassLate, RegisterFirst, RegisterFails, BeginOrdered, LockShared, Race1,
       ClaimSlot, ClaimFails, Claim, Race2, RecheckHolds, Store, QueueSeenEmpty,
       QueueSeenUsed, LockUnique, SkipEmpty, SkipEarly, BeginFlush, ScanAgain,
       EmptyQueue, LeaveQueue
  <2>2. CASE Advance(t)
    <3>1. pc[t] = "Ordered" /\ e = ev[t] /\ ev[t] \in Events
      BY <2>2 DEF Advance, IInv, TypeOK, HoldInv, HoldingPcs
    <3>2. mHighestId = current[t]
      BY <3>1 DEF IInv, SequenceInv, Knows
    <3>3. mHighestId' = IdOf[e]
      BY <2>2, <3>1, <3>2 DEF Advance, Id
    <3> QED
      BY <3>1, <3>3, ConstantsAssumption
  <2>3. CASE EndFlush(t)
    <3>1. pc[t] = "Flush" /\ e = Scanned(t)
      BY <2>3 DEF EndFlush
    <3>2. e \in Events
      BY <3>1, FlushedSlot DEF IInv, Scanned
    <3>3. mHighestId = current[t]
      BY <3>1 DEF IInv, SequenceInv, Knows
    <3>4. mHighestId' = IdOf[e]
      BY <2>3, <3>1, <3>3 DEF EndFlush
    <3> QED
      BY <3>2, <3>4, ConstantsAssumption
  <2>4. CASE EndDirect(t)
    <3>1. pc[t] = "Direct" /\ e = ev[t] /\ mHighestId' = mHighestId
      BY <2>4 DEF EndDirect, Return
    <3> QED
      BY <3>1 DEF IInv, SequenceInv, Knows, Id
  <2>5. CASE EndOverflow(t)
    <3>1. pc[t] = "Overflow"
      BY <2>5 DEF EndOverflow, Return
    <3> QED
      BY <3>1 DEF IInv, QueueInv
  <2> QED
    BY <2>1, <2>2, <2>3, <2>4, <2>5
<1> QED
  BY <1>1, Inductive, PTL DEF Spec, AheadOnlyWhenFull

(* mCallback never runs for two events of the sequence at once: both would *)
(* have the id after mHighestId, and an event is in one place only.        *)
THEOREM CallbacksAreSequential == ASSUME DistinctIds PROVE Spec => []OneAtATime
<1>1. ASSUME IInv, NEW t \in Threads, NEW u \in Threads,
             pc[t] \in {"Ordered", "Flush"}, pc[u] \in {"Ordered", "Flush"}
      PROVE  t = u
  <2> USE DEF IInv
  <2>1. ASSUME NEW v \in Threads, pc[v] = "Ordered"
        PROVE  ev[v] \in Events /\ IsNextId(ev[v])
    BY <1>1, <2>1, ConstantsAssumption DEF TypeOK, HoldInv, HoldingPcs, SequenceInv, Knows,
                   KnowsPcs, Id, IsNextId
  <2>2. ASSUME NEW v \in Threads, pc[v] = "Flush"
        PROVE  /\ pos[v] \in Slots
               /\ mQueuedEvents[pos[v]] \in Events
               /\ IsNextId(mQueuedEvents[pos[v]])
    BY <1>1, <2>2, FlushedSlot DEF SequenceInv, Knows, Scanned
  <2>3. ASSUME NEW e \in Events, NEW f \in Events, IsNextId(e), IsNextId(f)
        PROVE  e = f
    <3>1. IdOf[e] = IdOf[f] /\ IdOf[e] # 0
      BY <1>1, <2>3, ConstantsAssumption DEF IsNextId, TypeOK
    <3> QED
      BY <3>1, DistinctIds DEF DistinctIds
  <2>4. CASE pc[t] = "Ordered" /\ pc[u] = "Ordered"
    <3>1. ev[t] = ev[u] /\ ev[t] # NoEvent
      BY <2>1, <2>3, <2>4, ConstantsAssumption
    <3> QED
      BY <1>1, <3>1 DEF EachEventOnce
  <2>5. CASE pc[t] = "Flush" /\ pc[u] = "Flush"
    BY <1>1, <2>5 DEF LockInv, ScanPcs
  <2>6. ASSUME NEW v \in Threads, NEW w \in Threads, pc[v] = "Ordered",
               pc[w] = "Flush"
        PROVE  FALSE
    <3>1. ev[v] = mQueuedEvents[pos[w]] /\ ev[v] # NoEvent /\ pos[w] \in Slots
      BY <2>1, <2>2, <2>3, <2>6, ConstantsAssumption
    <3> QED
      BY <1>1, <3>1 DEF EachEventOnce
  <2> QED
    BY <1>1, <2>4, <2>5, <2>6
<1>2. IInv => OneAtATime
  BY <1>1 DEF OneAtATime
<1> QED
  BY <1>2, Inductive, PTL

-----------------------------------------------------------------------------
(* An event that waits stays ahead of the sequence. *)
LEMMA AheadNext ==
  ASSUME DistinctIds, IInv, AheadInv, [Next]_vars
  PROVE  AheadInv'
<1> USE ConstantsAssumption
    DEF TypeOK, PcValues, HoldingPcs, SharedPcs, ScanPcs, AheadInv, IInv, Id
<1>1. CASE UNCHANGED vars
  BY <1>1 DEF vars
<1>2. ASSUME NEW t \in Threads, (\E e \in Events : Call(t, e)) \/ Processing(t)
                                  \/ Flushing(t)
      PROVE  AheadInv'
  <2>1. CASE \E e \in Events : Call(t, e)
    BY <2>1 DEF Call
  <2>2. CASE PassUnordered(t)
    BY <2>2 DEF PassUnordered
  <2>3. CASE LoadHighest(t)
    BY <2>3 DEF LoadHighest
  <2>4. CASE PassLate(t)
    BY <2>4 DEF PassLate
  <2>5. CASE EndDirect(t)
    BY <2>5 DEF EndDirect, Return, NewPass
  <2>6. CASE RegisterFirst(t)
    <3>1. ASSUME NEW u \in Threads PROVE pc'[u] \notin SharedPcs
      BY <2>6 DEF RegisterFirst, SequenceInv, Knows, KnowsPcs, TooEarly
    <3> QED
      BY <2>6, <3>1 DEF RegisterFirst
  <2>7. CASE RegisterFails(t)
    BY <2>7 DEF RegisterFails
  <2>8. CASE BeginOrdered(t)
    BY <2>8 DEF BeginOrdered
  <2>9. CASE Advance(t)
    <3>1. /\ ev[t] \in Events /\ mHighestId # UINT64_MAX
          /\ mHighestId = current[t] /\ current[t] = Id(t) - 1
      BY <2>9 DEF Advance, HoldInv, SequenceInv, Knows
    <3>2. mHighestId' = IdOf[ev[t]] /\ IdOf[ev[t]] = mHighestId + 1
      BY <2>9, <3>1 DEF Advance
    <3>3. ASSUME NEW e \in Events, IdOf[e] > mHighestId, e # ev[t]
          PROVE  IdOf[e] > mHighestId'
      <4>1. IdOf[e] \in Nat /\ mHighestId \in Nat
        OBVIOUS
      <4>2. IdOf[e] # IdOf[ev[t]]
        BY <3>1, <3>3, <4>1, DistinctIds DEF DistinctIds
      <4> QED
        BY <3>2, <3>3, <4>1, <4>2
    <3>4. ASSUME NEW u \in Threads, pc'[u] \in SharedPcs
          PROVE  Id(u)' > mHighestId'
      <4>1. u # t /\ pc[u] \in SharedPcs /\ ev'[u] = ev[u]
        BY <2>9, <3>4 DEF Advance
      <4>2. ev[u] \in Events /\ ev[u] # ev[t]
        BY <3>1, <4>1 DEF EachEventOnce, HoldInv
      <4> QED
        BY <3>3, <4>1, <4>2
    <3>5. ASSUME NEW i \in Slots, mQueuedEvents[i] # NoEvent
          PROVE  IdOf[mQueuedEvents[i]] > mHighestId'
      BY <3>1, <3>3, <3>5 DEF EachEventOnce
    <3> QED
      BY <2>9, <3>1, <3>2, <3>4, <3>5 DEF Advance
  <2>10. CASE LockShared(t)
    BY <2>10 DEF LockShared, TooEarly, HoldInv
  <2>11. CASE Race1(t)
    BY <2>11 DEF Race1
  <2>12. CASE ClaimSlot(t)
    BY <2>12 DEF ClaimSlot, Claim
  <2>13. CASE ClaimFails(t)
    BY <2>13 DEF ClaimFails, Claim
  <2>14. CASE EndOverflow(t)
    BY <2>14 DEF EndOverflow, Return, NewPass
  <2>15. CASE Race2(t)
    BY <2>15 DEF Race2, SlotsNotShared
  <2>16. CASE RecheckHolds(t)
    BY <2>16 DEF RecheckHolds
  <2>17. CASE Store(t)
    BY <2>17 DEF Store, Return, NewPass
  <2>18. CASE QueueSeenEmpty(t)
    BY <2>18 DEF QueueSeenEmpty, Return, NewPass
  <2>19. CASE QueueSeenUsed(t)
    BY <2>19 DEF QueueSeenUsed
  <2>20. CASE LockUnique(t)
    BY <2>20 DEF LockUnique, NewPass
  <2>21. CASE SkipEmpty(t)
    BY <2>21 DEF SkipEmpty, Scanning, Scanned
  <2>22. CASE SkipEarly(t)
    BY <2>22 DEF SkipEarly, Scanning, Scanned
  <2>23. CASE BeginFlush(t)
    BY <2>23 DEF BeginFlush, Scanning, Scanned
  <2>24. CASE EndFlush(t)
    <3> DEFINE s == mQueuedEvents[pos[t]]
    <3>1. /\ pos[t] \in Slots /\ s \in Events
          /\ mHighestId = current[t] /\ IsNextId(s)
      BY <2>24, FlushedSlot DEF EndFlush, SequenceInv, Knows, Scanned
    <3>2. mHighestId' = IdOf[s] /\ IdOf[s] = mHighestId + 1
      BY <2>24, <3>1 DEF EndFlush, Scanned, IsNextId
    <3>3. ASSUME NEW e \in Events, IdOf[e] > mHighestId, e # s
          PROVE  IdOf[e] > mHighestId'
      BY <3>1, <3>2, <3>3, DistinctIds DEF DistinctIds
    <3>4. ASSUME NEW u \in Threads PROVE pc'[u] \notin SharedPcs
      BY <2>24 DEF EndFlush, LockInv
    <3>5. ASSUME NEW i \in Slots, mQueuedEvents'[i] # NoEvent
          PROVE  IdOf[mQueuedEvents'[i]] > mHighestId'
      <4>1. i # pos[t] /\ mQueuedEvents'[i] = mQueuedEvents[i]
        BY <2>24, <3>1, <3>5 DEF EndFlush
      <4>2. mQueuedEvents[i] \in Events /\ mQueuedEvents[i] # s
        BY <3>1, <3>5, <4>1 DEF EachEventOnce
      <4> QED
        BY <3>3, <3>5, <4>1, <4>2
    <3> QED
      BY <2>24, <3>1, <3>2, <3>4, <3>5
  <2>25. CASE ScanAgain(t)
    BY <2>25 DEF ScanAgain, ScanDone, NewPass
  <2>26. CASE EmptyQueue(t)
    BY <2>26 DEF EmptyQueue, ScanDone, Return, NewPass
  <2>27. CASE LeaveQueue(t)
    BY <2>27 DEF LeaveQueue, ScanDone, Return, NewPass
  <2> QED
    BY <1>2, <2>1, <2>2, <2>3, <2>4, <2>5, <2>6, <2>7, <2>8, <2>9, <2>10,
       <2>11, <2>12, <2>13, <2>14, <2>15, <2>16, <2>17, <2>18, <2>19, <2>20,
       <2>21, <2>22, <2>23, <2>24, <2>25, <2>26, <2>27
    DEF Processing, Flushing
<1> QED
  BY <1>1, <1>2 DEF Next, Done

(* A pass that will leave the queue as it is has seen one that waits.      *)
LEMMA LeavesNext ==
  ASSUME IInv, LeavesInv, [Next]_vars
  PROVE  LeavesInv'
<1> USE ConstantsAssumption
    DEF TypeOK, PcValues, HoldingPcs, SharedPcs, ScanPcs, LeavesInv, IInv
<1>1. CASE UNCHANGED vars
  BY <1>1 DEF vars
<1>2. ASSUME NEW t \in Threads, (\E e \in Events : Call(t, e)) \/ Processing(t)
                                  \/ Flushing(t)
      PROVE  LeavesInv'
  <2>1. CASE \E e \in Events : Call(t, e)
    BY <2>1 DEF Call
  <2>2. CASE PassUnordered(t)
    BY <2>2 DEF PassUnordered
  <2>3. CASE LoadHighest(t)
    BY <2>3 DEF LoadHighest
  <2>4. CASE PassLate(t)
    BY <2>4 DEF PassLate
  <2>5. CASE EndDirect(t)
    BY <2>5 DEF EndDirect, Return, NewPass
  <2>6. CASE RegisterFirst(t)
    BY <2>6 DEF RegisterFirst
  <2>7. CASE RegisterFails(t)
    BY <2>7 DEF RegisterFails
  <2>8. CASE BeginOrdered(t)
    BY <2>8 DEF BeginOrdered
  <2>9. CASE Advance(t)
    BY <2>9 DEF Advance
  <2>10. CASE LockShared(t)
    BY <2>10 DEF LockShared
  <2>11. CASE Race1(t)
    BY <2>11 DEF Race1
  <2>12. CASE ClaimSlot(t)
    BY <2>12 DEF ClaimSlot, Claim
  <2>13. CASE ClaimFails(t)
    BY <2>13 DEF ClaimFails, Claim
  <2>14. CASE EndOverflow(t)
    BY <2>14 DEF EndOverflow, Return, NewPass
  <2>15. CASE Race2(t)
    <3>1. \A u \in Threads : pc'[u] # "Scan"
      BY <2>15 DEF Race2, LockInv
    <3> QED
      BY <3>1
  <2>16. CASE RecheckHolds(t)
    BY <2>16 DEF RecheckHolds
  <2>17. CASE Store(t)
    <3>1. \A u \in Threads : pc'[u] # "Scan"
      BY <2>17 DEF Store, Return, LockInv
    <3> QED
      BY <3>1
  <2>18. CASE QueueSeenEmpty(t)
    BY <2>18 DEF QueueSeenEmpty, Return, NewPass
  <2>19. CASE QueueSeenUsed(t)
    BY <2>19 DEF QueueSeenUsed
  <2>20. CASE LockUnique(t)
    BY <2>20 DEF LockUnique, NewPass
  <2>21. CASE SkipEmpty(t)
    BY <2>21 DEF SkipEmpty, Scanning, Scanned
  <2>22. CASE SkipEarly(t)
    <3>1. pos[t] \in Slots /\ mQueuedEvents[pos[t]] # NoEvent
      <4>1. pos[t] < eventCount[t] /\ eventCount[t] = Capped(mQueuedEventCount)
        BY <2>22 DEF SkipEarly, Scanning, HoldInv
      <4> QED
        BY <2>22, <4>1 DEF SkipEarly, Scanned, Capped, Slots
    <3> QED
      BY <2>22, <3>1 DEF SkipEarly
  <2>23. CASE BeginFlush(t)
    BY <2>23 DEF BeginFlush, Scanning, Scanned
  <2>24. CASE EndFlush(t)
    <3>1. \A u \in Threads : pc'[u] = "Scan" => u = t
      BY <2>24 DEF EndFlush, LockInv
    <3> QED
      BY <2>24, <3>1 DEF EndFlush
  <2>25. CASE ScanAgain(t)
    BY <2>25 DEF ScanAgain, ScanDone, NewPass
  <2>26. CASE EmptyQueue(t)
    BY <2>26 DEF EmptyQueue, ScanDone, Return, NewPass
  <2>27. CASE LeaveQueue(t)
    BY <2>27 DEF LeaveQueue, ScanDone, Return, NewPass
  <2> QED
    BY <1>2, <2>1, <2>2, <2>3, <2>4, <2>5, <2>6, <2>7, <2>8, <2>9, <2>10,
       <2>11, <2>12, <2>13, <2>14, <2>15, <2>16, <2>17, <2>18, <2>19, <2>20,
       <2>21, <2>22, <2>23, <2>24, <2>25, <2>26, <2>27
    DEF Processing, Flushing
<1> QED
  BY <1>1, <1>2 DEF Next, Done

(* While the count is not zero at the end of the sequence, somebody is     *)
(* still to look at the queue.                                             *)
LEMMA LooksNext ==
  ASSUME IInv, AheadInv, LeavesInv, LooksInv, [Next]_vars
  PROVE  LooksInv'
<1> USE ConstantsAssumption
    DEF TypeOK, PcValues, HoldingPcs, SharedPcs, ScanPcs, LooksInv, AtTheEnd, IInv
<1>1. CASE UNCHANGED vars
  BY <1>1 DEF vars
<1>2. ASSUME NEW t \in Threads, (\E e \in Events : Call(t, e)) \/ Processing(t)
                                  \/ Flushing(t)
      PROVE  LooksInv'
  <2>1. CASE \E e \in Events : Call(t, e)
    BY <2>1 DEF Call
  <2>2. CASE PassUnordered(t)
    BY <2>2 DEF PassUnordered
  <2>3. CASE LoadHighest(t)
    BY <2>3 DEF LoadHighest
  <2>4. CASE PassLate(t)
    BY <2>4 DEF PassLate
  <2>5. CASE EndDirect(t)
    BY <2>5 DEF EndDirect, Return, NewPass
  <2>6. CASE RegisterFirst(t)
    <3>1. ev[t] \in Events /\ mHighestId' = IdOf[ev[t]] - 1
      BY <2>6 DEF RegisterFirst, HoldInv, Id
    <3> QED
      BY <3>1
  <2>7. CASE RegisterFails(t)
    BY <2>7 DEF RegisterFails
  <2>8. CASE BeginOrdered(t)
    BY <2>8 DEF BeginOrdered
  <2>9. CASE Advance(t)
    BY <2>9 DEF Advance
  <2>10. CASE LockShared(t)
    BY <2>10 DEF LockShared
  <2>11. CASE Race1(t)
    BY <2>11 DEF Race1
  <2>12. CASE ClaimSlot(t)
    <3>1. ev[t] \in Events /\ Id(t) > mHighestId
      BY <2>12 DEF ClaimSlot, AheadInv, HoldInv
    <3> QED
      BY <2>12, <3>1 DEF ClaimSlot, Claim, Id
  <2>13. CASE ClaimFails(t)
    <3>1. ev[t] \in Events /\ Id(t) > mHighestId
      BY <2>13 DEF ClaimFails, AheadInv, HoldInv
    <3> QED
      BY <2>13, <3>1 DEF ClaimFails, Claim, Id
  <2>14. CASE EndOverflow(t)
    BY <2>14 DEF EndOverflow, Return, NewPass
  <2>15. CASE Race2(t)
    BY <2>15 DEF Race2
  <2>16. CASE RecheckHolds(t)
    BY <2>16 DEF RecheckHolds
  <2>17. CASE Store(t)
    BY <2>17 DEF Store, Return, NewPass
  <2>18. CASE QueueSeenEmpty(t)
    BY <2>18 DEF QueueSeenEmpty, Return, NewPass
  <2>19. CASE QueueSeenUsed(t)
    BY <2>19 DEF QueueSeenUsed
  <2>20. CASE LockUnique(t)
    BY <2>20 DEF LockUnique, NewPass
  <2>21. CASE SkipEmpty(t)
    BY <2>21 DEF SkipEmpty, Scanning, Scanned
  <2>22. CASE SkipEarly(t)
    BY <2>22 DEF SkipEarly, Scanning, Scanned
  <2>23. CASE BeginFlush(t)
    BY <2>23 DEF BeginFlush, Scanning, Scanned
  <2>24. CASE EndFlush(t)
    BY <2>24 DEF EndFlush, Scanned
  <2>25. CASE ScanAgain(t)
    BY <2>25 DEF ScanAgain, ScanDone, NewPass
  <2>26. CASE EmptyQueue(t)
    BY <2>26 DEF EmptyQueue, ScanDone, Return, NewPass
  <2>27. CASE LeaveQueue(t)
    <3>1. PICK i \in Slots : mQueuedEvents[i] # NoEvent
      BY <2>27 DEF LeaveQueue, LeavesInv, ScanDone
    <3>2. mQueuedEvents[i] \in Events /\ IdOf[mQueuedEvents[i]] > mHighestId
      BY <3>1 DEF AheadInv
    <3> QED
      BY <2>27, <3>2 DEF LeaveQueue
  <2> QED
    BY <1>2, <2>1, <2>2, <2>3, <2>4, <2>5, <2>6, <2>7, <2>8, <2>9, <2>10,
       <2>11, <2>12, <2>13, <2>14, <2>15, <2>16, <2>17, <2>18, <2>19, <2>20,
       <2>21, <2>22, <2>23, <2>24, <2>25, <2>26, <2>27
    DEF Processing, Flushing
<1> QED
  BY <1>1, <1>2 DEF Next, Done

(* When the sequence has passed on every event and every call has          *)
(* returned, no slot counts as used (LocalStatsTest.cpp asserts it after a *)
(* parallel replay): slots that Race2 left empty are taken back by the     *)
(* thread that passed the last event on.                                   *)
THEOREM QuietQueueIsEmpty == ASSUME DistinctIds PROVE Spec => []QuietMeansEmpty
<1>1. Init => QuietInv
  BY DEF Init, QuietInv, AheadInv, LeavesInv, LooksInv, SharedPcs
<1>2. IInv /\ QuietInv /\ [Next]_vars => QuietInv'
  BY AheadNext, LeavesNext, LooksNext DEF QuietInv
<1>3. QuietInv => QuietMeansEmpty
  BY DEF QuietInv, LooksInv, QuietMeansEmpty, Finished, QueueIsEmpty, ScanPcs
<1> QED
  BY <1>1, <1>2, <1>3, Inductive, PTL DEF Spec

=============================================================================
