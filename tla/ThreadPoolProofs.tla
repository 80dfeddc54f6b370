-------------------------- MODULE ThreadPoolProofs --------------------------
(***************************************************************************)
(* Proofs about the thread pool, for every number of threads, clients,     *)
(* tasks and slots of the queue.                                           *)
(***************************************************************************)
EXTENDS ThreadPool, FiniteSetTheorems, SequenceTheorems, TLAPS

USE DEF NoOne, Broken

(* A slot number plus one, modulo the size of the queue, is a slot number.  *)
LEMMA NextIndexType == ASSUME NEW i \in QSlots PROVE NextIndex(i) \in QSlots
BY SizeAssumption DEF QSlots, NextIndex

(* Every set of workers is finite.                                          *)
LEMMA SlotsFinite ==
  ASSUME NEW S \in SUBSET Slots
  PROVE  IsFiniteSet(S) /\ Cardinality(S) \in Nat
<1>1. IsFiniteSet(Slots)
  BY FS_Interval, SizeAssumption DEF Slots
<1> QED BY <1>1, FS_Subset, FS_CardinalityType

(* Two facts about cardinality.                                            *)
LEMMA DisjointUnion ==
  ASSUME NEW A, NEW B, IsFiniteSet(A), IsFiniteSet(B), A \cap B = {}
  PROVE  Cardinality(A \cup B) = Cardinality(A) + Cardinality(B)
<1>1. Cardinality(A \cup B) = Cardinality(A) + Cardinality(B) - Cardinality(A \cap B)
  BY FS_Union
<1>2. Cardinality(A \cap B) = 0
  BY FS_EmptySet
<1>3. Cardinality(A) \in Nat /\ Cardinality(B) \in Nat
  BY FS_CardinalityType
<1> QED BY <1>1, <1>2, <1>3

LEMMA FirstNumbers ==
  ASSUME NEW n \in Nat
  PROVE  IsFiniteSet(0 .. n - 1) /\ Cardinality(0 .. n - 1) = n
<1>1. 0 \in Int /\ n - 1 \in Int
  OBVIOUS
<1>2. \A a, b \in Int :
        IsFiniteSet(a .. b) /\ Cardinality(a .. b) = IF a > b THEN 0 ELSE b - a + 1
  BY FS_Interval
<1>3. IsFiniteSet(0 .. n - 1)
  BY <1>1, <1>2
<1>4. Cardinality(0 .. n - 1) = IF 0 > n - 1 THEN 0 ELSE n - 1 - 0 + 1
  BY <1>1, <1>2
<1> QED BY <1>3, <1>4

-----------------------------------------------------------------------------
(* Type correctness.  asig counts down to zero, which only the pairing with *)
(* the adjuster's place in its loop shows.                                  *)
SignalsLeft == apc = "signal" => asig > 0

(* The lock.  Only after shutdown does an add go on without it; from then   *)
(* on it stays broken, and only then are sections entered that it no longer *)
(* protects.  A worker about to wait owns it.                               *)
TornWorker == {"asked", "counting", "counted", "retiring", "leaving"}
TornAdjuster == {"live", "slot", "created", "counted"}

BrokenInv ==
  /\ lock = Broken => shutdown
  /\ \A w \in Slots : /\ wpc[w] \in TornWorker => lock = Broken
                      /\ wpc[w] = "towait" => lock = w
  /\ apc \in TornAdjuster => lock = Broken
  /\ \A c \in Clients : cpc[c] \in {"unlocked", "stored"} => lock = Broken

Types == TypeOK /\ SignalsLeft

TypeInv == TypeOK /\ SignalsLeft /\ BrokenInv

LEMMA TypeInvInit == Init => TypeInv
<1> SUFFICES ASSUME Init PROVE TypeInv
  OBVIOUS
<1> USE SizeAssumption, ValueAssumption DEF Init
<1>1. task_queue \in [QSlots -> Tasks \cup {Null, Junk}]
  OBVIOUS
<1>2. 0 \in QSlots
  BY DEF QSlots
<1>3. cload \in [Clients -> QSlots \X Int]
  BY <1>2
<1>4. /\ snap \in [queue_size : Int, live_thr_num : Int, busy_thr_num : Int]
      /\ grow \in [i : Nat, add : Nat, live : Int] /\ wload \in [Slots -> Int]
  BY DEF NoSnap, NoGrow
<1>5. /\ wpc \in [Slots -> WorkerPC] /\ cpc \in [Clients -> ClientPC]
      /\ apc \in AdjusterPC /\ mpc \in MainPC /\ apc # "signal"
  BY DEF WorkerPC, ClientPC, AdjusterPC, MainPC
<1>6. /\ wtask \in [Slots -> Tasks \cup {Null, Junk}]
      /\ carg \in [Clients -> Tasks \cup {Null}]
  OBVIOUS
<1>7. /\ live_thr_num \in Int /\ wait_exit_thr_num \in Int
      /\ shutdown \in BOOLEAN /\ aborted \in BOOLEAN
  <2>1. live_thr_num \in Int
    OBVIOUS
  <2>2. wait_exit_thr_num \in Int
    OBVIOUS
  <2>3. shutdown \in BOOLEAN /\ aborted \in BOOLEAN
    BY Zenon
  <2> QED BY <2>1, <2>2, <2>3
<1>8. lock \in Slots \cup {NoOne, Broken} /\ lock # Broken
  OBVIOUS
<1>9. BrokenInv
  BY <1>8 DEF BrokenInv, TornWorker, TornAdjuster
<1> QED BY <1>1, <1>2, <1>3, <1>4, <1>5, <1>6, <1>7, <1>8, <1>9
        DEF TypeInv, TypeOK, SignalsLeft

(* A signal or a broadcast leaves every worker in one of its places.        *)
LEMMA SignalType ==
  ASSUME TypeOK, SignalNotEmpty
  PROVE  wpc' \in [Slots -> WorkerPC]
BY DEF TypeOK, SignalNotEmpty, WaitingWorkers, WorkerPC

LEMMA TypesNext == Types /\ [Next]_vars => Types'
<1> SUFFICES ASSUME Types, [Next]_vars PROVE Types'
  OBVIOUS
<1> USE SizeAssumption, ValueAssumption, NextIndexType
    DEF Types, TypeOK, SignalsLeft, WorkerPC, ClientPC, AdjusterPC, MainPC,
        vars, queueVars, countVars, tornVars, workerVars, clientVars,
        adjusterVars, mainVars, histVars
<1>1. ASSUME NEW w \in Slots, WorkerLock(w) PROVE Types'
  BY <1>1 DEF WorkerLock, TestQueue, TakeTask, MustWait, BroadcastNotFull
<1>2. ASSUME NEW w \in Slots, WorkerWait(w) PROVE Types'
  BY <1>2 DEF WorkerWait
<1>3. ASSUME NEW w \in Slots, WorkerRetire(w) PROVE Types'
  BY <1>3 DEF WorkerRetire, MayRetire
<1>4. ASSUME NEW w \in Slots, WorkerRetest(w) PROVE Types'
  BY <1>4 DEF WorkerRetest, TestQueue, TakeTask, MustWait, BroadcastNotFull
<1>5. ASSUME NEW w \in Slots, WorkerStart(w) PROVE Types'
  BY <1>5 DEF WorkerStart
<1>6. ASSUME NEW w \in Slots, WorkerFinish(w) PROVE Types'
  BY <1>6 DEF WorkerFinish
<1>7. ASSUME NEW w \in Slots, WorkerTerminate(w) PROVE Types'
  BY <1>7 DEF WorkerTerminate
<1>8. ASSUME NEW c \in Clients, NEW t \in Tasks \cup {Null}, AddUnderLock(c, t),
               called' \subseteq Tasks PROVE Types'
  <2>1. /\ task_queue' \in [QSlots -> Tasks \cup {Null, Junk}]
        /\ freed' \subseteq Tasks
    BY <1>8 DEF AddUnderLock, StoreTask
  <2>2. aborted' \in BOOLEAN
    BY <1>8, Zenon DEF AddUnderLock, StoreTask, Types, TypeOK
  <2>3. /\ queue_rear' \in QSlots /\ queue_front' \in QSlots
        /\ queue_size' \in Int
    BY <1>8 DEF AddUnderLock
  <2>4. /\ cpc' \in [Clients -> ClientPC]
        /\ carg' \in [Clients -> Tasks \cup {Null}]
    <3>1. \E p \in ClientPC : cpc' = [cpc EXCEPT ![c] = p]
      BY <1>8 DEF AddUnderLock
    <3>2. \E a \in Tasks \cup {Null} : carg' = [carg EXCEPT ![c] = a]
      BY <1>8 DEF AddUnderLock
    <3> QED BY <3>1, <3>2
  <2>5. wpc' \in [Slots -> WorkerPC]
    BY <1>8, SignalType DEF AddUnderLock
  <2> QED BY <1>8, <2>1, <2>2, <2>3, <2>4, <2>5
          DEF AddUnderLock
<1>9. ASSUME NEW c \in Clients, NEW t \in Tasks, AddCall(c, t) PROVE Types'
  BY <1>8, <1>9 DEF AddCall
<1>10. ASSUME NEW c \in Clients, AddWake(c) PROVE Types'
  BY <1>8, <1>10 DEF AddWake
<1>11. ASSUME NEW c \in Clients, UnlockedStore(c) PROVE Types'
  <2>1. aborted' \in BOOLEAN
    BY <1>11, Zenon DEF UnlockedStore, Types, TypeOK
  <2>2. task_queue' \in [QSlots -> Tasks \cup {Null, Junk}] /\ freed' \subseteq Tasks
    BY <1>11 DEF UnlockedStore, StoreTask
  <2>3. cload' \in [Clients -> QSlots \X Int] /\ cpc' \in [Clients -> ClientPC]
    BY <1>11 DEF UnlockedStore
  <2> QED BY <1>11, <2>1, <2>2, <2>3 DEF UnlockedStore
<1>12. ASSUME NEW c \in Clients, UnlockedPublish(c) PROVE Types'
  <2>1. /\ queue_rear' \in QSlots /\ queue_size' \in Int
        /\ lock' \in Slots \cup {NoOne, Broken}
    BY <1>12 DEF UnlockedPublish
  <2>2. /\ cpc' \in [Clients -> ClientPC]
        /\ carg' \in [Clients -> Tasks \cup {Null}]
    BY <1>12 DEF UnlockedPublish
  <2>3. cload' \in [Clients -> QSlots \X Int]
    <3>1. 0 \in QSlots
      BY DEF QSlots
    <3> QED BY <1>12, <3>1 DEF UnlockedPublish
  <2>4. wpc' \in [Slots -> WorkerPC]
    BY <1>12, SignalType DEF UnlockedPublish
  <2> QED BY <1>12, <2>1, <2>2, <2>3, <2>4 DEF UnlockedPublish
<1>13. CASE AdjustTest
  BY <1>13 DEF AdjustTest
<1>14. CASE AdjustReadCounts
  BY <1>14 DEF AdjustReadCounts
<1>15. CASE AdjustReadBusy
  BY <1>15 DEF AdjustReadBusy
<1>16. CASE AdjustGrow
  BY <1>16, SlotsFinite DEF AdjustGrow
<1>17. CASE AdjustSkipGrow
  BY <1>17 DEF AdjustSkipGrow
<1>18. CASE AdjustShrink
  BY <1>18 DEF AdjustShrink, NoSnap
<1>19. CASE AdjustSkipShrink
  BY <1>19 DEF AdjustSkipShrink, NoSnap
<1>20. CASE AdjustSignal
  BY <1>20, SignalType DEF AdjustSignal
<1>21. CASE CreateWorker
  BY <1>21 DEF CreateWorker, Slots
<1>22. CASE CreateAdjuster
  BY <1>22 DEF CreateAdjuster
<1>23. CASE DestroyStart
  BY <1>23 DEF DestroyStart
<1>24. CASE DestroyJoinAdjuster
  BY <1>24 DEF DestroyJoinAdjuster
<1>25. CASE DestroyBroadcast
  BY <1>25 DEF DestroyBroadcast, BroadcastNotEmpty
<1>26. CASE DestroyJoinWorker
  BY <1>26 DEF DestroyJoinWorker
<1>27. CASE DestroyFree
  BY <1>27 DEF DestroyFree
<1>28. CASE SpuriousWake
  BY <1>28 DEF SpuriousWake, WaitingWorkers
<1>29. CASE UNCHANGED vars
  BY <1>29
<1>30. ASSUME NEW w \in Slots, WorkerTorn(w) PROVE Types'
  BY <1>30 DEF WorkerTorn, WorkerAsk, WorkerLoad, WorkerTestLive, WorkerStore
<1>31. CASE AdjusterTorn
  BY <1>31 DEF AdjusterTorn, AdjustReadSize, AdjustReadLive, AdjustEnterLoop,
               AdjustSlot, AdjustLoad, AdjustStore, NoGrow
<1> QED
  BY <1>1, <1>2, <1>3, <1>4, <1>5, <1>6, <1>7, <1>9, <1>10, <1>11, <1>12,
     <1>13, <1>14, <1>15, <1>16, <1>17, <1>18, <1>19, <1>20, <1>21, <1>22,
     <1>23, <1>24, <1>25, <1>26, <1>27, <1>28, <1>29, <1>30, <1>31
     DEF Next, Worker, Client, Adjuster, Destroyer

(* Nobody is in a section taken apart while the lock still excludes, and    *)
(* once broken it stays so.                                                 *)
LEMMA BrokenInvNext == TypeInv /\ [Next]_vars => BrokenInv'
<1> SUFFICES ASSUME TypeInv, [Next]_vars PROVE BrokenInv'
  OBVIOUS
<1> USE DEF TypeInv, TypeOK, BrokenInv, TornWorker, TornAdjuster, Free, vars,
            workerVars, clientVars, adjusterVars, mainVars
<1>1. ASSUME NEW w \in Slots, WorkerLock(w) \/ WorkerRetest(w) PROVE BrokenInv'
  <2>1. /\ Free /\ TestQueue(w) /\ wpc[w] \in {"lock", "woken"}
        /\ UNCHANGED <<shutdown, apc>> /\ w # NoOne /\ w # Broken
    BY <1>1 DEF WorkerLock, WorkerRetest, Slots
  <2>2. CASE MustWait
    <3>1. lock = NoOne /\ lock' = w /\ wpc' = [wpc EXCEPT ![w] = "towait"]
      BY <2>1, <2>2 DEF TestQueue, MustWait
    <3>2. UNCHANGED cpc
      BY <2>1, <2>2 DEF TestQueue
    <3> QED BY <2>1, <3>1, <3>2 DEF Slots
  <2>3. CASE ~MustWait
    <3>1. /\ UNCHANGED lock /\ \A v \in Slots \ {w} : wpc'[v] = wpc[v]
          /\ wpc'[w] \in {"exiting", "got"}
      BY <2>1, <2>3 DEF TestQueue, TakeTask
    <3>2. \A c \in Clients : cpc'[c] \in {"unlocked", "stored"} => cpc'[c] = cpc[c]
      BY <2>1, <2>3 DEF TestQueue, TakeTask, BroadcastNotFull
    <3> QED BY <2>1, <3>1, <3>2
  <2> QED BY <2>2, <2>3
<1>2. ASSUME NEW w \in Slots, WorkerWait(w) PROVE BrokenInv'
  BY <1>2 DEF WorkerWait, Slots
<1>3. ASSUME NEW w \in Slots,
             WorkerRetire(w) \/ WorkerStart(w) \/ WorkerFinish(w) \/ WorkerTerminate(w)
      PROVE  BrokenInv'
  BY <1>3 DEF WorkerRetire, WorkerStart, WorkerFinish, WorkerTerminate
<1>4. ASSUME NEW w \in Slots, WorkerTorn(w) PROVE BrokenInv'
  BY <1>4 DEF WorkerTorn, WorkerAsk, WorkerLoad, WorkerTestLive, WorkerStore
<1>5. ASSUME NEW c \in Clients, NEW t, AddUnderLock(c, t) PROVE BrokenInv'
  <2>1. /\ UNCHANGED apc /\ UNCHANGED shutdown
        /\ UNCHANGED wpc \/ SignalNotEmpty
        /\ \A v \in Slots : wpc[v] # "towait"
    BY <1>5 DEF AddUnderLock, Slots
  <2>2. \A v \in Slots : wpc'[v] \in TornWorker \cup {"towait"} => wpc'[v] = wpc[v]
    BY <2>1 DEF SignalNotEmpty, WaitingWorkers
  <2>3. \/ lock' = Broken /\ shutdown
        \/ UNCHANGED lock /\ \A d \in Clients :
             cpc'[d] \in {"unlocked", "stored"} => cpc'[d] = cpc[d]
    BY <1>5 DEF AddUnderLock
  <2> QED BY <2>1, <2>2, <2>3
<1>6. ASSUME NEW c \in Clients, Client(c) PROVE BrokenInv'
  <2>1. CASE UnlockedStore(c) \/ UnlockedPublish(c)
    BY <2>1 DEF UnlockedStore, UnlockedPublish, SignalNotEmpty, WaitingWorkers, Slots
  <2> QED BY <1>5, <1>6, <2>1 DEF Client, AddCall, AddWake
<1>7. CASE Adjuster
  <2>1. CASE AdjusterTorn
    BY <2>1 DEF AdjusterTorn, AdjustReadSize, AdjustReadLive, AdjustEnterLoop,
                AdjustSlot, AdjustLoad, AdjustStore
  <2>2. CASE AdjustGrow \/ AdjustSignal
    BY <2>2 DEF AdjustGrow, AdjustSignal, SignalNotEmpty, WaitingWorkers
  <2> QED BY <1>7, <2>1, <2>2
          DEF Adjuster, AdjustTest, AdjustReadCounts, AdjustReadBusy,
              AdjustSkipGrow, AdjustShrink, AdjustSkipShrink
<1>8. CASE Destroyer
  BY <1>8 DEF Destroyer, CreateWorker, CreateAdjuster, DestroyStart,
              DestroyJoinAdjuster, DestroyBroadcast, BroadcastNotEmpty,
              DestroyJoinWorker, DestroyFree
<1>9. CASE SpuriousWake
  BY <1>9 DEF SpuriousWake, WaitingWorkers
<1>10. CASE UNCHANGED vars
  BY <1>10
<1> QED BY <1>1, <1>2, <1>3, <1>4, <1>6, <1>7, <1>8, <1>9, <1>10 DEF Next, Worker

LEMMA StaysBroken ==
  ASSUME TypeInv, lock = Broken, [Next]_vars
  PROVE  lock' = Broken
<1> USE DEF TypeInv, TypeOK, BrokenInv, vars
<1>1. ASSUME NEW w \in Slots, Worker(w) PROVE lock' = Broken
  BY <1>1, SizeAssumption
     DEF Worker, WorkerLock, WorkerWait, WorkerRetire, WorkerRetest, WorkerTorn,
         WorkerStart, WorkerFinish, WorkerTerminate, TestQueue, TakeTask,
         MustWait, Slots
<1>2. ASSUME NEW c \in Clients, Client(c) PROVE lock' = Broken
  BY <1>2 DEF Client, AddCall, AddWake, AddUnderLock, UnlockedStore, UnlockedPublish
<1>3. ASSUME Adjuster PROVE lock' = Broken
  BY <1>3 DEF Adjuster, AdjustTest, AdjustReadCounts, AdjustReadBusy, AdjustGrow,
              AdjustSkipGrow, AdjustShrink, AdjustSkipShrink, AdjustSignal,
              AdjusterTorn
<1>4. ASSUME Destroyer PROVE lock' = Broken
  BY <1>4 DEF Destroyer, CreateWorker, CreateAdjuster, DestroyStart,
              DestroyJoinAdjuster, DestroyBroadcast, DestroyJoinWorker, DestroyFree
<1>5. ASSUME SpuriousWake PROVE lock' = Broken
  BY <1>5 DEF SpuriousWake
<1> QED BY <1>1, <1>2, <1>3, <1>4, <1>5 DEF Next

LEMMA TypeInvNext == TypeInv /\ [Next]_vars => TypeInv'
BY TypesNext, BrokenInvNext DEF TypeInv, Types

(* Every variable keeps its type in every execution.                        *)
THEOREM TypeCorrect == Spec => []TypeOK
<1>1. TypeInv => TypeOK
  BY DEF TypeInv
<1> QED BY <1>1, TypeInvInit, TypeInvNext, PTL DEF Spec

-----------------------------------------------------------------------------
(* The size of the pool.  Retirement is guarded by the minimum and growth   *)
(* by the maximum, each in one section with the update, so the stale reads  *)
(* that led to them do not matter.  With the lock broken two retirements    *)
(* may pass the guard together and undercut the minimum, but only the       *)
(* adjuster counts up, and what the workers store meanwhile is below what   *)
(* they loaded: the maximum stands.                                         *)
SizeInv ==
  /\ LiveBounds
  /\ \A w \in Slots : wpc[w] = "leaving" => wload[w] <= MaxThr
  /\ apc = "created" => live_thr_num < MaxThr
  /\ apc = "counted" => live_thr_num < MaxThr /\ grow.live < MaxThr

LEMMA SizeInvNext == TypeInv /\ SizeInv /\ [Next]_vars => SizeInv'
<1> SUFFICES ASSUME TypeInv, SizeInv, [Next]_vars PROVE SizeInv'
  OBVIOUS
<1> USE SizeAssumption
    DEF TypeInv, TypeOK, BrokenInv, TornWorker, TornAdjuster, SizeInv, LiveBounds,
        vars, countVars, tornVars, workerVars, adjusterVars
<1>1. ASSUME NEW w \in Slots, WorkerLock(w) PROVE SizeInv'
  BY <1>1 DEF WorkerLock, TestQueue, TakeTask, MustWait, Free
<1>2. ASSUME NEW w \in Slots, WorkerWait(w) PROVE SizeInv'
  BY <1>2 DEF WorkerWait, Slots
<1>3. ASSUME NEW w \in Slots, WorkerRetire(w) PROVE SizeInv'
  BY <1>3 DEF WorkerRetire, MayRetire
<1>4. ASSUME NEW w \in Slots, WorkerRetest(w) PROVE SizeInv'
  BY <1>4 DEF WorkerRetest, TestQueue, TakeTask, BroadcastNotFull
<1>5. ASSUME NEW w \in Slots, WorkerStart(w) PROVE SizeInv'
  BY <1>5 DEF WorkerStart
<1>6. ASSUME NEW w \in Slots, WorkerFinish(w) PROVE SizeInv'
  BY <1>6 DEF WorkerFinish
<1>7. ASSUME NEW w \in Slots, WorkerTerminate(w) PROVE SizeInv'
  BY <1>7 DEF WorkerTerminate
<1>8. ASSUME NEW c \in Clients, NEW t \in Tasks, AddCall(c, t) PROVE SizeInv'
  BY <1>8 DEF AddCall, AddUnderLock, SignalNotEmpty, WaitingWorkers
<1>9. ASSUME NEW c \in Clients, AddWake(c) PROVE SizeInv'
  BY <1>9 DEF AddWake, AddUnderLock, SignalNotEmpty, WaitingWorkers
<1>10. ASSUME NEW c \in Clients, UnlockedStore(c) PROVE SizeInv'
  BY <1>10 DEF UnlockedStore
<1>11. ASSUME NEW c \in Clients, UnlockedPublish(c) PROVE SizeInv'
  BY <1>11 DEF UnlockedPublish, SignalNotEmpty, WaitingWorkers
<1>12. CASE AdjustTest
  BY <1>12 DEF AdjustTest
<1>13. CASE AdjustReadCounts
  BY <1>13 DEF AdjustReadCounts
<1>14. CASE AdjustReadBusy
  BY <1>14 DEF AdjustReadBusy
<1>15. CASE AdjustGrow
  BY <1>15, SlotsFinite DEF AdjustGrow, Fillable
<1>16. CASE AdjustSkipGrow
  BY <1>16 DEF AdjustSkipGrow
<1>17. CASE AdjustShrink
  BY <1>17 DEF AdjustShrink
<1>18. CASE AdjustSkipShrink
  BY <1>18 DEF AdjustSkipShrink
<1>19. CASE AdjustSignal
  BY <1>19 DEF AdjustSignal, SignalNotEmpty, WaitingWorkers
<1>20. CASE CreateWorker
  BY <1>20 DEF CreateWorker
<1>21. CASE CreateAdjuster
  BY <1>21 DEF CreateAdjuster
<1>22. CASE DestroyStart
  BY <1>22 DEF DestroyStart
<1>23. CASE DestroyJoinAdjuster
  BY <1>23 DEF DestroyJoinAdjuster
<1>24. CASE DestroyBroadcast
  BY <1>24 DEF DestroyBroadcast, BroadcastNotEmpty
<1>25. CASE DestroyJoinWorker
  BY <1>25 DEF DestroyJoinWorker
<1>26. CASE DestroyFree
  BY <1>26 DEF DestroyFree
<1>27. CASE SpuriousWake
  BY <1>27 DEF SpuriousWake, WaitingWorkers
<1>28. CASE UNCHANGED vars
  BY <1>28
<1>29. ASSUME NEW w \in Slots, WorkerTorn(w) PROVE SizeInv'
  BY <1>29 DEF WorkerTorn, WorkerAsk, WorkerLoad, WorkerTestLive, WorkerStore
<1>30. CASE AdjusterTorn
  BY <1>30 DEF AdjusterTorn, AdjustReadSize, AdjustReadLive, AdjustEnterLoop,
               AdjustSlot, MoreSlots, AdjustLoad, AdjustStore
<1> QED
  BY <1>1, <1>2, <1>3, <1>4, <1>5, <1>6, <1>7, <1>8, <1>9, <1>10, <1>11,
     <1>12, <1>13, <1>14, <1>15, <1>16, <1>17, <1>18, <1>19, <1>20, <1>21,
     <1>22, <1>23, <1>24, <1>25, <1>26, <1>27, <1>28, <1>29, <1>30
     DEF Next, Worker, Client, Adjuster, Destroyer

(* live_thr_num never exceeds max_thr_num, nor falls below min_thr_num as   *)
(* long as no add has gone on without the lock.                             *)
THEOREM LiveBoundsAlways == Spec => []LiveBounds
<1>1. Init => SizeInv
  BY SizeAssumption DEF Init, SizeInv, LiveBounds
<1>2. SizeInv => LiveBounds
  BY DEF SizeInv
<1> QED BY <1>1, <1>2, TypeInvInit, TypeInvNext, SizeInvNext, PTL DEF Spec

-----------------------------------------------------------------------------
(* Where destroy is, and its loop variable before the loops.                *)
Shut ==
  /\ mpc \in {"create", "run"} <=> ~shutdown
  /\ mpc \in {"run", "joinAdjuster"} => mi = 0

LEMMA ShutNext == TypeInv /\ Shut /\ [Next]_vars => Shut'
<1> SUFFICES ASSUME TypeInv, Shut, [Next]_vars PROVE Shut'
  OBVIOUS
<1> USE DEF TypeInv, TypeOK, Shut, vars, mainVars
<1>1. ASSUME NEW w \in Slots, Worker(w) PROVE Shut'
  BY <1>1 DEF Worker, WorkerLock, WorkerWait, WorkerRetire, WorkerRetest,
              WorkerTorn, WorkerStart, WorkerFinish, WorkerTerminate
<1>2. ASSUME NEW c \in Clients, Client(c) PROVE Shut'
  BY <1>2 DEF Client, AddCall, AddWake, AddUnderLock, UnlockedStore, UnlockedPublish
<1>3. CASE Adjuster
  BY <1>3 DEF Adjuster, AdjustTest, AdjustReadCounts, AdjustReadBusy, AdjustGrow,
              AdjustSkipGrow, AdjustShrink, AdjustSkipShrink, AdjustSignal,
              AdjusterTorn
<1>4. CASE Destroyer
  BY <1>4 DEF Destroyer, CreateWorker, CreateAdjuster, DestroyStart,
              DestroyJoinAdjuster, DestroyBroadcast, DestroyJoinWorker, DestroyFree
<1>5. CASE SpuriousWake
  BY <1>5 DEF SpuriousWake
<1>6. CASE UNCHANGED vars
  BY <1>6
<1> QED BY <1>1, <1>2, <1>3, <1>4, <1>5, <1>6 DEF Next

LEMMA ShutInit == Init => Shut
BY DEF Init, Shut

(* Creation: one slot after the other gets its worker, before there is an   *)
(* adjuster to change anything.                                             *)
CreationInv ==
  mpc = "create" =>
    /\ ~shutdown
    /\ apc = "none" /\ mi <= MinThr /\ live_thr_num = MinThr
    /\ \A w \in Slots : (wpc[w] = "none") <=> w >= mi

LEMMA CreationInvNext == TypeInv /\ CreationInv /\ [Next]_vars => CreationInv'
<1> SUFFICES ASSUME TypeInv, CreationInv, mpc' = "create", [Next]_vars
             PROVE  CreationInv'
  BY DEF CreationInv
<1> USE SizeAssumption
    DEF TypeInv, TypeOK, CreationInv, vars, countVars, tornVars,
        workerVars, adjusterVars, mainVars
<1>1. ASSUME NEW w \in Slots, Worker(w) PROVE CreationInv'
  <2>1. CASE WorkerTorn(w)
    <3>1. mpc = "create" /\ lock = Broken
      BY <2>1 DEF WorkerTorn, WorkerAsk, WorkerLoad, WorkerTestLive, WorkerStore,
                  BrokenInv, TornWorker
    <3> QED BY <3>1 DEF BrokenInv
  <2> QED BY <1>1, <2>1
          DEF Worker, WorkerLock, WorkerWait, WorkerRetire, WorkerRetest,
              WorkerStart, WorkerFinish, WorkerTerminate, TestQueue, TakeTask,
              MayRetire
<1>2. ASSUME NEW c \in Clients, Client(c) PROVE CreationInv'
  BY <1>2 DEF Client, AddCall, AddWake, AddUnderLock, UnlockedStore,
              UnlockedPublish, SignalNotEmpty, WaitingWorkers
<1>3. CASE Adjuster
  BY <1>3 DEF Adjuster, AdjustTest, AdjustReadCounts, AdjustReadBusy, AdjustGrow,
              AdjustSkipGrow, AdjustShrink, AdjustSkipShrink, AdjustSignal,
              AdjusterTorn, AdjustReadSize, AdjustReadLive, AdjustEnterLoop,
              AdjustSlot, AdjustLoad, AdjustStore
<1>4. CASE CreateWorker
  BY <1>4 DEF CreateWorker, Slots
<1>5. CASE Destroyer /\ ~CreateWorker
  BY <1>5 DEF Destroyer, CreateAdjuster, DestroyStart, DestroyJoinAdjuster,
              DestroyBroadcast, DestroyJoinWorker, DestroyFree
<1>6. CASE SpuriousWake
  BY <1>6 DEF SpuriousWake, WaitingWorkers
<1>7. CASE UNCHANGED vars
  BY <1>7
<1> QED BY <1>1, <1>2, <1>3, <1>4, <1>5, <1>6, <1>7 DEF Next

LEMMA CreationInvInit == Init => CreationInv
BY SizeAssumption DEF Init, CreationInv, Slots

-----------------------------------------------------------------------------
(* The size of the pool, counted.  live_thr_num is updated apart from the   *)
(* threads' own steps, but a worker enters or leaves the pool only in the   *)
(* step that counts it, or leaves uncounted after shutdown.                 *)
Resizes ==
  \/ \E w \in InPool : /\ InPool' = InPool \ {w}
                       /\ \/ live_thr_num' = live_thr_num - 1
                          \/ shutdown /\ UNCHANGED live_thr_num
                       /\ UNCHANGED <<NotYetCreated, shutdown>>
  \/ \E S \in SUBSET (Slots \ InPool) :
       /\ InPool' = InPool \cup S
       /\ \/ /\ live_thr_num' = live_thr_num + Cardinality(S)
             /\ UNCHANGED <<NotYetCreated, shutdown>>
          \/ /\ \E w \in Slots : S = {w}
             /\ NotYetCreated' = NotYetCreated - 1
             /\ UNCHANGED <<live_thr_num, shutdown>>
  \/ /\ UNCHANGED <<InPool, NotYetCreated, live_thr_num>>
     /\ shutdown => shutdown'

(* A signal takes nobody into or out of the pool.                           *)
LEMMA SignalPool == ASSUME TypeOK, SignalNotEmpty PROVE UNCHANGED InPool
BY DEF TypeOK, SignalNotEmpty, WaitingWorkers, InPool

(* While the lock excludes, every step is one of these.                     *)
LEMMA ResizeSteps ==
  TypeInv /\ CreationInv /\ Shut /\ lock' # Broken /\ [Next]_vars => Resizes
<1> SUFFICES ASSUME TypeInv, CreationInv, Shut, lock' # Broken, [Next]_vars
             PROVE  Resizes
  OBVIOUS
<1> USE DEF TypeInv, TypeOK, vars, countVars, workerVars, mainVars
<1> DEFINE Same == /\ UNCHANGED <<InPool, NotYetCreated, live_thr_num>>
                   /\ shutdown => shutdown'
<1>1. ASSUME NEW w \in Slots, TestQueue(w), wpc[w] \in {"lock", "woken"},
             UNCHANGED <<live_thr_num, shutdown, mpc, mi>> PROVE Resizes
  <2>1. CASE ~MustWait /\ shutdown
    <3>1. w \in InPool /\ InPool' = InPool \ {w}
      BY <1>1, <2>1 DEF TestQueue, InPool
    <3> QED BY <1>1, <2>1, <3>1 DEF Resizes, NotYetCreated
  <2>2. CASE MustWait \/ ~shutdown
    <3>1. UNCHANGED InPool
      BY <1>1, <2>2 DEF TestQueue, TakeTask, InPool
    <3> QED BY <1>1, <3>1 DEF Resizes, NotYetCreated
  <2> QED BY <2>1, <2>2
<1>2. ASSUME NEW w \in Slots, WorkerLock(w) \/ WorkerRetest(w) PROVE Resizes
  BY <1>1, <1>2 DEF WorkerLock, WorkerRetest
<1>3. ASSUME NEW w \in Slots, WorkerRetire(w) PROVE Resizes
  <2>1. w \in InPool /\ InPool' = InPool \ {w}
    BY <1>3 DEF WorkerRetire, InPool
  <2> QED BY <1>3, <2>1 DEF Resizes, WorkerRetire, NotYetCreated
<1>4. ASSUME NEW w \in Slots,
             WorkerWait(w) \/ WorkerStart(w) \/ WorkerFinish(w) \/ WorkerTerminate(w)
      PROVE  Same
  <2>1. UNCHANGED <<mpc, mi, live_thr_num, shutdown>>
    BY <1>4 DEF WorkerWait, WorkerStart, WorkerFinish, WorkerTerminate
  <2>2. UNCHANGED InPool
    BY <1>4 DEF WorkerWait, WorkerStart, WorkerFinish, WorkerTerminate, InPool
  <2> QED BY <2>1, <2>2 DEF NotYetCreated
<1>5. ASSUME NEW c \in Clients, Client(c) PROVE Same
  <2>1. UNCHANGED <<mpc, mi, live_thr_num, shutdown>>
    BY <1>5 DEF Client, AddCall, AddWake, AddUnderLock, UnlockedStore, UnlockedPublish
  <2>2. UNCHANGED wpc \/ SignalNotEmpty
    BY <1>5 DEF Client, AddCall, AddWake, AddUnderLock, UnlockedStore, UnlockedPublish
  <2>3. UNCHANGED InPool
    BY <2>2, SignalPool DEF InPool
  <2> QED BY <2>1, <2>3 DEF NotYetCreated
<1>6. CASE AdjustGrow
  <2>1. PICK S \in SUBSET Slots :
          /\ S \subseteq Vacant /\ live_thr_num' = live_thr_num + Cardinality(S)
          /\ wpc' = [w \in Slots |-> IF w \in S THEN "lock" ELSE wpc[w]]
          /\ UNCHANGED <<mpc, mi, shutdown>>
    BY <1>6 DEF AdjustGrow, Fillable
  <2>2. S \in SUBSET (Slots \ InPool) /\ InPool' = InPool \cup S
    BY <2>1 DEF InPool, Vacant
  <2> QED BY <2>1, <2>2 DEF Resizes, NotYetCreated
<1>7. CASE Adjuster /\ ~AdjustGrow /\ ~AdjusterTorn
  <2>1. /\ UNCHANGED <<mpc, mi, live_thr_num, shutdown>>
        /\ UNCHANGED wpc \/ SignalNotEmpty
    BY <1>7 DEF Adjuster, AdjustTest, AdjustReadCounts, AdjustReadBusy,
                AdjustSkipGrow, AdjustShrink, AdjustSkipShrink, AdjustSignal
  <2>2. UNCHANGED InPool
    BY <2>1, SignalPool DEF InPool
  <2> QED BY <2>1, <2>2 DEF Resizes, NotYetCreated
<1>8. CASE CreateWorker
  <2>1. /\ mpc = "create" /\ mi \in Slots /\ mi < MinThr /\ wpc[mi] = "none"
        /\ wpc' = [wpc EXCEPT ![mi] = "lock"] /\ mi' = mi + 1
        /\ UNCHANGED <<mpc, shutdown, live_thr_num>>
    BY <1>8, SizeAssumption DEF CreateWorker, CreationInv, Slots
  <2>2. {mi} \in SUBSET (Slots \ InPool) /\ InPool' = InPool \cup {mi}
    BY <2>1 DEF InPool
  <2>3. NotYetCreated' = NotYetCreated - 1
    BY <2>1, SizeAssumption DEF NotYetCreated
  <2> QED BY <2>1, <2>2, <2>3 DEF Resizes
<1>9. CASE Destroyer /\ ~CreateWorker
  <2>1. /\ UNCHANGED live_thr_num /\ (shutdown => shutdown')
        /\ UNCHANGED wpc \/ BroadcastNotEmpty
    BY <1>9 DEF Destroyer, CreateAdjuster, DestroyStart, DestroyJoinAdjuster,
                DestroyBroadcast, DestroyJoinWorker, DestroyFree
  <2>2. UNCHANGED InPool
    BY <2>1 DEF BroadcastNotEmpty, InPool
  <2>3. UNCHANGED NotYetCreated
    BY <1>9, SizeAssumption
       DEF Destroyer, CreateAdjuster, DestroyStart, DestroyJoinAdjuster,
           DestroyBroadcast, DestroyJoinWorker, DestroyFree, NotYetCreated
  <2> QED BY <2>1, <2>2, <2>3 DEF Resizes
<1>10. CASE SpuriousWake
  <2>1. UNCHANGED InPool
    BY <1>10 DEF SpuriousWake, WaitingWorkers, InPool
  <2> QED BY <1>10, <2>1 DEF SpuriousWake, Resizes, NotYetCreated
<1>11. CASE UNCHANGED vars
  BY <1>11 DEF Resizes, InPool, NotYetCreated
<1>12. Same => Resizes
  BY DEF Resizes
<1>13. ASSUME AdjusterTorn \/ \E w \in Slots : WorkerTorn(w) PROVE FALSE
  <2>1. CASE AdjusterTorn
    BY <2>1 DEF AdjusterTorn, AdjustReadSize, AdjustReadLive, AdjustEnterLoop,
                AdjustSlot, AdjustLoad, AdjustStore, BrokenInv, TornAdjuster
  <2>2. CASE \E w \in Slots : WorkerTorn(w)
    BY <2>2 DEF WorkerTorn, WorkerAsk, WorkerLoad, WorkerTestLive, WorkerStore,
                BrokenInv, TornWorker
  <2> QED BY <1>13, <2>1, <2>2
<1> QED
  BY <1>2, <1>3, <1>4, <1>5, <1>6, <1>7, <1>8, <1>9, <1>10, <1>11, <1>12, <1>13
     DEF Next, Worker

(* Whatever changes the number of workers changes live_thr_num with it.     *)
LEMMA LiveCountNext ==
  ASSUME TypeInv, CreationInv, LiveCount, Resizes, lock # Broken, lock' # Broken
  PROVE  LiveCount'
<1> DEFINE n == Cardinality(InPool)
<1>1. /\ IsFiniteSet(InPool) /\ n \in Nat
      /\ NotYetCreated \in Int /\ live_thr_num \in Int /\ shutdown \in BOOLEAN
  BY SlotsFinite, SizeAssumption
     DEF InPool, NotYetCreated, TypeInv, TypeOK
<1>2. ASSUME NEW w \in InPool, InPool' = InPool \ {w} PROVE Cardinality(InPool') = n - 1
  BY <1>1, <1>2, FS_RemoveElement
<1>3. ASSUME NEW S \in SUBSET (Slots \ InPool), InPool' = InPool \cup S
      PROVE  Cardinality(InPool') = n + Cardinality(S) /\ Cardinality(S) \in Nat
  <2>1. IsFiniteSet(S) /\ Cardinality(S) \in Nat /\ InPool \cap S = {}
    BY SlotsFinite
  <2> QED BY <1>1, <1>3, <2>1, DisjointUnion
<1>4. \A w : Cardinality({w}) = 1
  BY FS_Singleton
<1>5. ASSUME NEW d \in Int, live_thr_num' = live_thr_num + d, UNCHANGED shutdown,
             Cardinality(InPool') + NotYetCreated' = n + NotYetCreated + d
      PROVE  LiveCount'
  BY <1>1, <1>5 DEF LiveCount
<1>6. ASSUME NEW w \in InPool, InPool' = InPool \ {w},
             live_thr_num' = live_thr_num - 1 \/ (shutdown /\ UNCHANGED live_thr_num),
             UNCHANGED <<NotYetCreated, shutdown>>
      PROVE  LiveCount'
  BY <1>1, <1>2, <1>6 DEF LiveCount
<1>7. ASSUME NEW S \in SUBSET (Slots \ InPool), InPool' = InPool \cup S,
             live_thr_num' = live_thr_num + Cardinality(S),
             UNCHANGED <<NotYetCreated, shutdown>>
      PROVE  LiveCount'
  <2>1. Cardinality(InPool') = n + Cardinality(S) /\ Cardinality(S) \in Nat
    BY <1>3, <1>7
  <2>2. Cardinality(InPool') + NotYetCreated' = n + NotYetCreated + Cardinality(S)
    BY <1>1, <1>7, <2>1
  <2> QED BY <1>5, <1>7, <2>1, <2>2
<1>8. ASSUME NEW w \in Slots, {w} \in SUBSET (Slots \ InPool),
             InPool' = InPool \cup {w},
             NotYetCreated' = NotYetCreated - 1, UNCHANGED <<live_thr_num, shutdown>>
      PROVE  LiveCount'
  <2>1. Cardinality(InPool') = n + Cardinality({w})
    BY <1>3, <1>8
  <2>2. Cardinality({w}) = 1
    BY <1>4
  <2>3. Cardinality(InPool') + NotYetCreated' = n + NotYetCreated + 0
    BY <1>1, <1>8, <2>1, <2>2
  <2>4. live_thr_num' = live_thr_num + 0
    BY <1>1, <1>8
  <2> QED BY <1>5, <1>8, <2>3, <2>4
<1>9. ASSUME UNCHANGED <<InPool, NotYetCreated, live_thr_num>>, shutdown => shutdown'
      PROVE  LiveCount'
  BY <1>1, <1>9 DEF LiveCount
<1> QED BY <1>6, <1>7, <1>8, <1>9 DEF Resizes

(* With the lock broken nobody goes to sleep any more, but updates of       *)
(* live_thr_num get lost.  Still every value loaded covers the sleepers and *)
(* those back from sleep, each of whom counts down at most once.            *)
LoadsCover ==
  lock = Broken =>
    /\ live_thr_num >= Cardinality(Sleepy)
    /\ \A w \in Slots : wpc[w] = "leaving" => wload[w] >= Cardinality(Sleepy)
    /\ apc = "counted" => grow.live >= Cardinality(Sleepy)

CountInv == LiveCount /\ LoadsCover

(* What a step may do to them once the lock is broken.                      *)
Uncounted ==
  /\ Sleepy' \subseteq Sleepy
  /\ \/ UNCHANGED live_thr_num
     \/ \E w \in Sleepy : /\ wpc[w] = "leaving" /\ Sleepy' = Sleepy \ {w}
                          /\ live_thr_num' = wload[w] - 1
     \/ apc = "counted" /\ live_thr_num' = grow.live + 1
  /\ \A w \in Slots : wpc'[w] = "leaving" =>
       \/ wpc[w] = "leaving" /\ wload'[w] = wload[w]
       \/ wload'[w] = live_thr_num
  /\ apc' = "counted" =>
       \/ apc = "counted" /\ UNCHANGED grow
       \/ grow'.live = live_thr_num

LEMMA UncountedSteps ==
  ASSUME TypeInv, lock = Broken, [Next]_vars
  PROVE  Uncounted
<1> USE DEF TypeInv, TypeOK, BrokenInv, Uncounted, Sleepy, vars, countVars,
            tornVars, workerVars, adjusterVars
<1>1. ASSUME NEW w \in Slots, WorkerLock(w) \/ WorkerRetest(w) PROVE Uncounted
  BY <1>1 DEF WorkerLock, WorkerRetest, TestQueue, TakeTask, MustWait, Free
<1>2. ASSUME NEW w \in Slots, WorkerWait(w) \/ WorkerRetire(w) PROVE Uncounted
  BY <1>2 DEF WorkerWait, WorkerRetire, Slots
<1>3. ASSUME NEW w \in Slots, WorkerStart(w) \/ WorkerFinish(w) \/ WorkerTerminate(w)
      PROVE  Uncounted
  BY <1>3 DEF WorkerStart, WorkerFinish, WorkerTerminate
<1>4. ASSUME NEW w \in Slots, WorkerTorn(w) PROVE Uncounted
  <2>1. CASE WorkerAsk(w) \/ WorkerTestLive(w)
    BY <1>4, <2>1 DEF WorkerTorn, WorkerAsk, WorkerTestLive
  <2>2. CASE WorkerLoad(w)
    BY <1>4, <2>2 DEF WorkerTorn, WorkerLoad
  <2>3. CASE WorkerStore(w) /\ wpc[w] = "counting"
    BY <1>4, <2>3 DEF WorkerTorn, WorkerStore
  <2>4. CASE WorkerStore(w) /\ wpc[w] = "leaving"
    <3>1. w \in Sleepy /\ Sleepy' = Sleepy \ {w} /\ live_thr_num' = wload[w] - 1
      BY <1>4, <2>4 DEF WorkerTorn, WorkerStore
    <3> QED BY <1>4, <2>4, <3>1 DEF WorkerTorn, WorkerStore
  <2> QED BY <1>4, <2>1, <2>2, <2>3, <2>4 DEF WorkerTorn, WorkerStore
<1>5. ASSUME NEW c \in Clients, Client(c) PROVE Uncounted
  BY <1>5 DEF Client, AddCall, AddWake, AddUnderLock, UnlockedStore,
              UnlockedPublish, SignalNotEmpty, WaitingWorkers
<1>6. CASE Adjuster /\ ~AdjusterTorn
  BY <1>6 DEF Adjuster, AdjustTest, AdjustReadCounts, AdjustReadBusy, AdjustGrow,
              AdjustSkipGrow, AdjustShrink, AdjustSkipShrink, AdjustSignal,
              SignalNotEmpty, WaitingWorkers
<1>7. CASE AdjusterTorn
  BY <1>7 DEF AdjusterTorn, AdjustReadSize, AdjustReadLive, AdjustEnterLoop,
              AdjustSlot, AdjustLoad, AdjustStore
<1>8. CASE Destroyer
  BY <1>8 DEF Destroyer, CreateWorker, CreateAdjuster, DestroyStart,
              DestroyJoinAdjuster, DestroyBroadcast, BroadcastNotEmpty,
              DestroyJoinWorker, DestroyFree
<1>9. CASE SpuriousWake
  BY <1>9 DEF SpuriousWake, WaitingWorkers
<1>10. CASE UNCHANGED vars
  BY <1>10
<1> QED BY <1>1, <1>2, <1>3, <1>4, <1>5, <1>6, <1>7, <1>8, <1>9, <1>10 DEF Next, Worker

(* Only an add that finds shutdown set breaks the lock, and it moves nobody. *)
LEMMA BreakingStep ==
  ASSUME TypeInv, lock # Broken, lock' = Broken, [Next]_vars
  PROVE  /\ shutdown /\ UNCHANGED <<wpc, apc, live_thr_num>>
<1> USE DEF TypeInv, TypeOK, BrokenInv, vars, mainVars, workerVars, adjusterVars,
            countVars
<1>1. ASSUME NEW w \in Slots, Worker(w) PROVE FALSE
  BY <1>1, SizeAssumption
     DEF Worker, WorkerLock, WorkerWait, WorkerRetire, WorkerRetest, WorkerTorn,
         WorkerStart, WorkerFinish, WorkerTerminate, TestQueue, TakeTask, Slots
<1>2. ASSUME NEW c \in Clients, UnlockedStore(c) \/ UnlockedPublish(c) PROVE FALSE
  BY <1>2 DEF UnlockedStore, UnlockedPublish
<1>3. ASSUME NEW c \in Clients, NEW t, AddUnderLock(c, t)
      PROVE  shutdown /\ UNCHANGED <<wpc, apc, live_thr_num>>
  BY <1>3 DEF AddUnderLock
<1>4. ASSUME NEW c \in Clients, Client(c)
      PROVE  shutdown /\ UNCHANGED <<wpc, apc, live_thr_num>>
  BY <1>2, <1>3, <1>4 DEF Client, AddCall, AddWake
<1>5. ASSUME Adjuster PROVE FALSE
  BY <1>5 DEF Adjuster, AdjustTest, AdjustReadCounts, AdjustReadBusy, AdjustGrow,
              AdjustSkipGrow, AdjustShrink, AdjustSkipShrink, AdjustSignal,
              AdjusterTorn
<1>6. ASSUME Destroyer PROVE FALSE
  BY <1>6 DEF Destroyer, CreateWorker, CreateAdjuster, DestroyStart,
              DestroyJoinAdjuster, DestroyBroadcast, DestroyJoinWorker, DestroyFree
<1>7. ASSUME SpuriousWake PROVE FALSE
  BY <1>7 DEF SpuriousWake
<1> QED BY <1>1, <1>4, <1>5, <1>6, <1>7 DEF Next

LEMMA CountInvInit == Init => CountInv
<1> SUFFICES ASSUME Init PROVE CountInv
  OBVIOUS
<1>1. InPool = {}
  BY DEF Init, InPool
<1>2. Cardinality({}) = 0
  BY FS_EmptySet
<1> QED BY <1>1, <1>2, SizeAssumption
        DEF Init, CountInv, LiveCount, LoadsCover, NotYetCreated

LEMMA CountInvNext ==
  TypeInv /\ CreationInv /\ Shut /\ CountInv /\ [Next]_vars => CountInv'
<1> SUFFICES ASSUME TypeInv, CreationInv, Shut, CountInv, [Next]_vars PROVE CountInv'
  OBVIOUS
<1> DEFINE n == Cardinality(Sleepy)
           m == Cardinality(Sleepy')
<1>1. TypeInv'
  BY TypeInvNext
<1>2. IsFiniteSet(Sleepy) /\ n \in Nat /\ IsFiniteSet(Sleepy') /\ m \in Nat
  <2>1. Sleepy \in SUBSET Slots /\ Sleepy' \in SUBSET Slots
    BY DEF Sleepy
  <2> QED BY <2>1, SlotsFinite
<1>3. CASE lock = Broken
  <2>1. Uncounted /\ lock' = Broken
    BY <1>3, UncountedSteps, StaysBroken
  <2>2. m <= n
    BY <1>2, <2>1, FS_Subset DEF Uncounted
  <2>3. live_thr_num' >= m
    <3>1. ASSUME NEW w \in Sleepy, wpc[w] = "leaving", Sleepy' = Sleepy \ {w},
                 live_thr_num' = wload[w] - 1
          PROVE  live_thr_num' >= m
      <4>1. m = n - 1
        BY <1>2, <3>1, FS_RemoveElement
      <4>2. wload[w] >= n /\ wload[w] \in Int
        BY <1>3, <3>1 DEF CountInv, LoadsCover, Sleepy, TypeInv, TypeOK
      <4> QED BY <1>2, <3>1, <4>1, <4>2
    <3>2. CASE UNCHANGED live_thr_num
      BY <1>2, <1>3, <2>2, <3>2 DEF CountInv, LoadsCover, TypeInv, TypeOK
    <3>3. CASE apc = "counted" /\ live_thr_num' = grow.live + 1
      BY <1>2, <1>3, <2>2, <3>3 DEF CountInv, LoadsCover, TypeInv, TypeOK
    <3> QED BY <2>1, <3>1, <3>2, <3>3 DEF Uncounted
  <2>4. ASSUME NEW w \in Slots, wpc'[w] = "leaving" PROVE wload'[w] >= m
    BY <1>2, <1>3, <2>1, <2>2, <2>4 DEF Uncounted, CountInv, LoadsCover, TypeInv, TypeOK
  <2>5. apc' = "counted" => grow'.live >= m
    BY <1>2, <1>3, <2>1, <2>2 DEF Uncounted, CountInv, LoadsCover, TypeInv, TypeOK
  <2>6. shutdown'
    BY <1>1, <2>1 DEF TypeInv, BrokenInv
  <2> QED BY <2>1, <2>3, <2>4, <2>5, <2>6 DEF CountInv, LoadsCover, LiveCount
<1>4. CASE lock # Broken /\ lock' = Broken
  <2>1. shutdown /\ shutdown' /\ UNCHANGED <<wpc, apc, live_thr_num>>
    BY <1>1, <1>4, BreakingStep DEF TypeInv, BrokenInv
  <2>2. m = n /\ n <= Cardinality(InPool) /\ Cardinality(InPool) \in Nat
    <3>1. Sleepy \subseteq InPool /\ InPool \in SUBSET Slots
      BY DEF Sleepy, InPool
    <3>2. Sleepy' = Sleepy
      BY <2>1 DEF Sleepy
    <3> QED BY <3>1, <3>2, SlotsFinite, FS_Subset
  <2>3. NotYetCreated = 0
    BY <2>1 DEF Shut, NotYetCreated
  <2>4. live_thr_num' >= m
    BY <1>2, <1>4, <2>1, <2>2, <2>3 DEF CountInv, LiveCount, TypeInv, TypeOK
  <2>5. (\A w \in Slots : wpc'[w] # "leaving") /\ apc' # "counted"
    BY <1>4, <2>1 DEF TypeInv, BrokenInv, TornWorker, TornAdjuster
  <2> QED BY <1>4, <2>1, <2>4, <2>5 DEF CountInv, LoadsCover, LiveCount
<1>5. CASE lock # Broken /\ lock' # Broken
  BY <1>5, ResizeSteps, LiveCountNext DEF CountInv, LoadsCover
<1> QED BY <1>3, <1>4, <1>5

(* live_thr_num counts the workers in the pool, those threadpool_create has *)
(* yet to start included; after shutdown it never falls below their number  *)
(* as long as the lock excludes, and when an add has broken it, never below *)
(* the number of those that sleep or come back from sleep.                  *)
THEOREM LiveCountAlways == Spec => []LiveCount
<1>1. CountInv => LiveCount
  BY DEF CountInv
<1> QED BY <1>1, TypeInvInit, TypeInvNext, ShutInit, ShutNext, CreationInvInit,
           CreationInvNext, CountInvInit, CountInvNext, PTL DEF Spec

-----------------------------------------------------------------------------
(* Who may still sleep while destroy waits for the workers.  Before the     *)
(* first broadcast anybody may; the broadcast wakes them all, and a worker  *)
(* that goes to sleep after it had tested the condition before shutdown.    *)
SleepersLate ==
  /\ shutdown => \A w \in Slots : wpc[w] = "towait" => w \in late
  /\ (mpc = "broadcast" /\ mi > 0) \/ mpc = "join"
       => \A w \in Slots : wpc[w] = "waiting" => w \in late

LEMMA SleepersLateNext ==
  TypeInv /\ SizeInv /\ Shut /\ CountInv /\ SleepersLate /\ [Next]_vars
    => SleepersLate'
<1> SUFFICES ASSUME TypeInv, SizeInv, Shut, CountInv, SleepersLate, [Next]_vars
             PROVE  SleepersLate'
  OBVIOUS
<1> USE SizeAssumption
    DEF TypeInv, TypeOK, Shut, SleepersLate, vars, mainVars, workerVars
<1>1. ASSUME NEW w \in Slots, WorkerLock(w) PROVE SleepersLate'
  BY <1>1 DEF WorkerLock, TestQueue, TakeTask, MustWait, BroadcastNotFull
<1>2. ASSUME NEW w \in Slots, WorkerWait(w) PROVE SleepersLate'
  BY <1>2 DEF WorkerWait
<1>3. ASSUME NEW w \in Slots, WorkerRetire(w) PROVE SleepersLate'
  BY <1>3 DEF WorkerRetire, MayRetire
<1>4. ASSUME NEW w \in Slots, WorkerRetest(w) PROVE SleepersLate'
  BY <1>4 DEF WorkerRetest, TestQueue, TakeTask, MustWait, BroadcastNotFull
<1>5. ASSUME NEW w \in Slots, WorkerStart(w) PROVE SleepersLate'
  BY <1>5 DEF WorkerStart
<1>6. ASSUME NEW w \in Slots, WorkerFinish(w) PROVE SleepersLate'
  BY <1>6 DEF WorkerFinish
<1>7. ASSUME NEW w \in Slots, WorkerTerminate(w) PROVE SleepersLate'
  BY <1>7 DEF WorkerTerminate
<1>8. ASSUME NEW c \in Clients, NEW t \in Tasks, AddCall(c, t) PROVE SleepersLate'
  BY <1>8 DEF AddCall, AddUnderLock, SignalNotEmpty, WaitingWorkers
<1>9. ASSUME NEW c \in Clients, AddWake(c) PROVE SleepersLate'
  BY <1>9 DEF AddWake, AddUnderLock, SignalNotEmpty, WaitingWorkers
<1>10. ASSUME NEW c \in Clients, UnlockedStore(c) PROVE SleepersLate'
  BY <1>10 DEF UnlockedStore
<1>11. ASSUME NEW c \in Clients, UnlockedPublish(c) PROVE SleepersLate'
  BY <1>11 DEF UnlockedPublish, SignalNotEmpty, WaitingWorkers
<1>12. CASE AdjustTest
  BY <1>12 DEF AdjustTest
<1>13. CASE AdjustReadCounts
  BY <1>13 DEF AdjustReadCounts
<1>14. CASE AdjustReadBusy
  BY <1>14 DEF AdjustReadBusy
<1>15. CASE AdjustGrow
  BY <1>15 DEF AdjustGrow
<1>16. CASE AdjustSkipGrow
  BY <1>16 DEF AdjustSkipGrow
<1>17. CASE AdjustShrink
  BY <1>17 DEF AdjustShrink
<1>18. CASE AdjustSkipShrink
  BY <1>18 DEF AdjustSkipShrink
<1>19. CASE AdjustSignal
  BY <1>19 DEF AdjustSignal, SignalNotEmpty, WaitingWorkers
<1>20. CASE CreateWorker
  BY <1>20 DEF CreateWorker
<1>21. CASE CreateAdjuster
  BY <1>21 DEF CreateAdjuster
<1>22. CASE DestroyStart
  BY <1>22 DEF DestroyStart
<1>23. CASE DestroyJoinAdjuster
  BY <1>23 DEF DestroyJoinAdjuster
<1>24. CASE DestroyBroadcast
  <2>1. ASSUME NEW w \in Slots, wpc[w] = "waiting" PROVE live_thr_num > 0
    <3>1. w \in Sleepy /\ Sleepy \subseteq Slots
      BY <2>1 DEF Sleepy
    <3>2. CASE lock = Broken
      <4>1. Cardinality(Sleepy) \in Nat \ {0}
        BY <3>1, SlotsFinite, FS_EmptySet
      <4>2. live_thr_num >= Cardinality(Sleepy) /\ live_thr_num \in Int
        BY <3>2 DEF CountInv, LoadsCover
      <4> HIDE DEF TypeInv, TypeOK, Shut, SleepersLate
      <4>3. \A k \in Nat \ {0}, l \in Int : l >= k => l > 0
        OBVIOUS
      <4> QED BY <4>1, <4>2, <4>3
    <3>3. CASE lock # Broken
      BY <3>3 DEF SizeInv, LiveBounds
    <3> QED BY <3>2, <3>3
  <2> QED BY <1>24, <2>1 DEF DestroyBroadcast, BroadcastNotEmpty
<1>25. CASE DestroyJoinWorker
  BY <1>25 DEF DestroyJoinWorker
<1>26. CASE DestroyFree
  BY <1>26 DEF DestroyFree
<1>27. CASE SpuriousWake
  BY <1>27 DEF SpuriousWake, WaitingWorkers
<1>28. CASE UNCHANGED vars
  BY <1>28
<1>29. ASSUME NEW w \in Slots, WorkerTorn(w) PROVE SleepersLate'
  BY <1>29 DEF WorkerTorn, WorkerAsk, WorkerLoad, WorkerTestLive, WorkerStore
<1>30. CASE AdjusterTorn
  BY <1>30 DEF AdjusterTorn, AdjustReadSize, AdjustReadLive, AdjustEnterLoop,
               AdjustSlot, AdjustLoad, AdjustStore
<1> QED
  BY <1>1, <1>2, <1>3, <1>4, <1>5, <1>6, <1>7, <1>8, <1>9, <1>10, <1>11,
     <1>12, <1>13, <1>14, <1>15, <1>16, <1>17, <1>18, <1>19, <1>20, <1>21,
     <1>22, <1>23, <1>24, <1>25, <1>26, <1>27, <1>28, <1>29, <1>30
     DEF Next, Worker, Client, Adjuster, Destroyer

(* Only a worker caught between its test and its wait sleeps through the    *)
(* broadcasts of destroy.                                                   *)
THEOREM OnlyLateSleep == Spec => []SleepsOnlyIfLate
<1>1. Init => SizeInv /\ SleepersLate
  BY SizeAssumption DEF Init, SizeInv, LiveBounds, SleepersLate
<1>2. SleepersLate => SleepsOnlyIfLate
  BY DEF SleepersLate, SleepsOnlyIfLate
<1> QED BY <1>1, <1>2, TypeInvInit, TypeInvNext, SizeInvNext, ShutInit, ShutNext,
           CreationInvInit, CreationInvNext, CountInvInit, CountInvNext,
           SleepersLateNext, PTL DEF Spec

-----------------------------------------------------------------------------
(* A pool that may neither grow nor shrink.  Until shutdown every worker    *)
(* that was created stays, a worker about to wait owns the lock and has     *)
(* seen the queue empty, and an add is never without the lock: so no task   *)
(* can slip in while the last worker goes to sleep.                         *)
CreationQuiet ==
  mpc = "create" => queue_size = 0 /\ \A c \in Clients : cpc[c] = "idle"

AllStay ==
  ~shutdown => \A w \in Slots : (mpc = "create" => w < mi) => w \in InPool

WaiterOwnsLock ==
  ~shutdown =>
    \A w \in Slots : wpc[w] = "towait" => lock = w /\ queue_size = 0

FixedInv ==
  /\ Shut /\ CreationQuiet /\ AllStay
  /\ WaiterOwnsLock /\ NoStuckTask

(* threadpool_add from its lock to its unlock keeps FixedInv: the signal    *)
(* wakes a sleeper, or there is none and worker 0 is awake.                 *)
LEMMA FixedInvAdd ==
  ASSUME MinThr = MaxThr, TypeInv, SizeInv, FixedInv, mpc # "create",
         NEW c \in Clients, NEW t, AddUnderLock(c, t)
  PROVE  FixedInv'
<1> USE SizeAssumption
    DEF TypeInv, TypeOK, SizeInv, LiveBounds, FixedInv, Shut, CreationQuiet,
        BrokenInv, Free, TornWorker, TornAdjuster, AllStay, WaiterOwnsLock, InPool, Slots,
        queueVars, mainVars, WaitingWorkers
<1>1. CASE shutdown
  BY <1>1 DEF AddUnderLock, NoStuckTask
<1>2. CASE UNCHANGED <<queueVars, wpc>>
  BY <1>2 DEF AddUnderLock, NoStuckTask
<1>3. CASE ~shutdown /\ SignalNotEmpty
  <2>1. 0 \in Slots /\ 0 \in InPool
    BY <1>3
  <2>2. \A w \in Slots : wpc[w] # "towait"
    BY <1>3 DEF AddUnderLock
  <2>3. /\ UNCHANGED <<shutdown, mpc, mi>>
        /\ cpc'[c] \in {"idle", "blocked"} /\ \A d \in Clients \ {c} : cpc'[d] = cpc[d]
    BY <1>3 DEF AddUnderLock, MainPC, ClientPC
  <2>4. \E w \in InPool' : wpc'[w] # "waiting"
    <3>1. CASE WaitingWorkers = {} /\ UNCHANGED wpc
      BY <2>1, <3>1
    <3>2. CASE \E w \in WaitingWorkers : wpc' = [wpc EXCEPT ![w] = "woken"]
      BY <3>2
    <3> QED BY <1>3, <3>1, <3>2 DEF SignalNotEmpty
  <2>5. \A w \in Slots : /\ wpc'[w] # "towait"
                         /\ w \in InPool => w \in InPool'
    BY <1>3, <2>2 DEF SignalNotEmpty
  <2> QED BY <1>3, <2>3, <2>4, <2>5 DEF NoStuckTask
<1> QED BY <1>1, <1>2, <1>3 DEF AddUnderLock

(* A worker's test keeps FixedInv: it either takes a task, and is awake, or *)
(* has seen the queue empty.                                                *)
LEMMA FixedInvTest ==
  ASSUME MinThr = MaxThr, TypeInv, SizeInv, FixedInv, NEW w \in Slots,
         wpc[w] \in {"lock", "woken"}, Free, TestQueue(w),
         UNCHANGED <<live_thr_num, mpc, mi, shutdown>>
  PROVE  FixedInv'
<1> USE SizeAssumption
    DEF TypeInv, TypeOK, SizeInv, LiveBounds, FixedInv, Shut, CreationQuiet,
        BrokenInv, Free, TornWorker, TornAdjuster, AllStay, WaiterOwnsLock, NoStuckTask, InPool,
        Slots, queueVars, TestQueue, MustWait
<1>1. CASE MustWait
  BY <1>1
<1>2. CASE ~MustWait /\ shutdown
  BY <1>2
<1>3. CASE ~MustWait /\ ~shutdown
  <2>1. /\ wpc' = [wpc EXCEPT ![w] = "got"] /\ UNCHANGED lock
        /\ \A c \in Clients : cpc[c] = "idle" => cpc'[c] = "idle"
        /\ mpc # "create"
    BY <1>3 DEF TakeTask, BroadcastNotFull
  <2>2. \A v \in Slots : wpc'[v] # "towait" /\ (v \in InPool => v \in InPool')
    BY <2>1
  <2>3. w \in InPool' /\ wpc'[w] # "waiting"
    BY <2>1
  <2> QED BY <1>3, <2>1, <2>2, <2>3
<1> QED BY <1>1, <1>2, <1>3

LEMMA FixedInvNext ==
  ASSUME MinThr = MaxThr, TypeInv, SizeInv, FixedInv, [Next]_vars
  PROVE  FixedInv'
<1> USE SizeAssumption
    DEF TypeInv, TypeOK, SizeInv, LiveBounds, FixedInv, Shut, CreationQuiet,
        BrokenInv, Free, TornWorker, TornAdjuster, AllStay, WaiterOwnsLock, NoStuckTask, InPool,
        Slots, vars, queueVars, countVars, workerVars, clientVars, mainVars
<1>1. ASSUME NEW w \in Slots, WorkerLock(w) PROVE FixedInv'
  BY <1>1, FixedInvTest DEF WorkerLock
<1>2. ASSUME NEW w \in Slots, WorkerWait(w) PROVE FixedInv'
  BY <1>2 DEF WorkerWait
<1>3. ASSUME NEW w \in Slots, WorkerRetire(w) PROVE FixedInv'
  BY <1>3 DEF WorkerRetire, MayRetire
<1>4. ASSUME NEW w \in Slots, WorkerRetest(w) PROVE FixedInv'
  BY <1>4, FixedInvTest DEF WorkerRetest
<1>5. ASSUME NEW w \in Slots, WorkerStart(w) PROVE FixedInv'
  BY <1>5 DEF WorkerStart
<1>6. ASSUME NEW w \in Slots, WorkerFinish(w) PROVE FixedInv'
  BY <1>6 DEF WorkerFinish
<1>7. ASSUME NEW w \in Slots, WorkerTerminate(w) PROVE FixedInv'
  BY <1>7 DEF WorkerTerminate
<1>8. ASSUME NEW c \in Clients, NEW t \in Tasks, AddCall(c, t) PROVE FixedInv'
  BY <1>8, FixedInvAdd DEF AddCall
<1>9. ASSUME NEW c \in Clients, AddWake(c) PROVE FixedInv'
  BY <1>9, FixedInvAdd DEF AddWake
<1>10. ASSUME NEW c \in Clients, UnlockedStore(c) PROVE FixedInv'
  BY <1>10 DEF UnlockedStore
<1>11. ASSUME NEW c \in Clients, UnlockedPublish(c) PROVE FixedInv'
  BY <1>11 DEF UnlockedPublish, SignalNotEmpty, WaitingWorkers
<1>12. CASE AdjustTest
  BY <1>12 DEF AdjustTest
<1>13. CASE AdjustReadCounts
  BY <1>13 DEF AdjustReadCounts
<1>14. CASE AdjustReadBusy
  BY <1>14 DEF AdjustReadBusy
<1>15. CASE AdjustGrow
  BY <1>15 DEF AdjustGrow
<1>16. CASE AdjustSkipGrow
  BY <1>16 DEF AdjustSkipGrow
<1>17. CASE AdjustShrink
  BY <1>17 DEF AdjustShrink
<1>18. CASE AdjustSkipShrink
  BY <1>18 DEF AdjustSkipShrink
<1>19. CASE AdjustSignal
  BY <1>19 DEF AdjustSignal, SignalNotEmpty, WaitingWorkers
<1>20. CASE CreateWorker
  BY <1>20 DEF CreateWorker
<1>21. CASE CreateAdjuster
  BY <1>21 DEF CreateAdjuster
<1>22. CASE DestroyStart
  BY <1>22 DEF DestroyStart
<1>23. CASE DestroyJoinAdjuster
  BY <1>23 DEF DestroyJoinAdjuster
<1>24. CASE DestroyBroadcast
  BY <1>24 DEF DestroyBroadcast, BroadcastNotEmpty
<1>25. CASE DestroyJoinWorker
  BY <1>25 DEF DestroyJoinWorker
<1>26. CASE DestroyFree
  BY <1>26 DEF DestroyFree
<1>27. CASE SpuriousWake
  BY <1>27 DEF SpuriousWake, WaitingWorkers
<1>28. CASE UNCHANGED vars
  BY <1>28
<1>29. ASSUME NEW w \in Slots, WorkerTorn(w) PROVE FixedInv'
  BY <1>29 DEF WorkerTorn, WorkerAsk, WorkerLoad, WorkerTestLive, WorkerStore
<1>30. CASE AdjusterTorn
  BY <1>30 DEF AdjusterTorn, AdjustReadSize, AdjustReadLive, AdjustEnterLoop,
               AdjustSlot, AdjustLoad, AdjustStore
<1> QED
  BY <1>1, <1>2, <1>3, <1>4, <1>5, <1>6, <1>7, <1>8, <1>9, <1>10, <1>11,
     <1>12, <1>13, <1>14, <1>15, <1>16, <1>17, <1>18, <1>19, <1>20, <1>21,
     <1>22, <1>23, <1>24, <1>25, <1>26, <1>27, <1>28, <1>29, <1>30
     DEF Next, Worker, Client, Adjuster, Destroyer

(* With min_thr_num equal to max_thr_num a waiting task is never left to    *)
(* workers that all sleep.                                                  *)
THEOREM FixedPoolNoStuckTask == MinThr = MaxThr => (Spec => []NoStuckTask)
<1> SUFFICES ASSUME MinThr = MaxThr PROVE Spec => []NoStuckTask
  OBVIOUS
<1>1. Init => SizeInv /\ FixedInv
  BY SizeAssumption
     DEF Init, SizeInv, LiveBounds, FixedInv, Shut, CreationQuiet, NoStuckTask,
         AllStay, WaiterOwnsLock, InPool, Slots
<1>2. TypeInv /\ SizeInv /\ FixedInv /\ [Next]_vars => FixedInv'
  BY FixedInvNext
<1>3. FixedInv => NoStuckTask
  BY DEF FixedInv
<1> QED BY <1>1, <1>2, <1>3, TypeInvInit, TypeInvNext, SizeInvNext,
           PTL DEF Spec

-----------------------------------------------------------------------------
(* The joins of a pool of fixed size.  The adjuster is gone when they       *)
(* begin, so a worker that was joined is not replaced, and live_thr_num     *)
(* covers every slot: nobody finds it above the minimum or below the        *)
(* maximum, not even with the lock broken.                                  *)
JoinInv ==
  /\ Shut /\ live_thr_num = MaxThr
  /\ \A w \in Slots : wpc[w] \notin {"retiring", "leaving"}
  /\ apc \notin {"created", "counted"}
  /\ mpc \in {"broadcast", "join", "freed"} => apc = "done"
  /\ mpc = "join" => \A w \in Slots : w < mi => wpc[w] = "dead"
  /\ mpc = "freed" => \A w \in Slots : wpc[w] = "dead"

LEMMA JoinInvNext ==
  ASSUME MinThr = MaxThr, TypeInv, JoinInv, [Next]_vars
  PROVE  JoinInv'
<1> USE SizeAssumption
    DEF TypeInv, TypeOK, JoinInv, Shut, Slots, vars, countVars,
        tornVars, workerVars, adjusterVars, mainVars, Alive
<1>1. ASSUME NEW w \in Slots, WorkerLock(w) PROVE JoinInv'
  BY <1>1 DEF WorkerLock, TestQueue, TakeTask, MustWait, BroadcastNotFull
<1>2. ASSUME NEW w \in Slots, WorkerWait(w) PROVE JoinInv'
  BY <1>2 DEF WorkerWait
<1>3. ASSUME NEW w \in Slots, WorkerRetire(w) PROVE JoinInv'
  BY <1>3 DEF WorkerRetire, MayRetire
<1>4. ASSUME NEW w \in Slots, WorkerRetest(w) PROVE JoinInv'
  BY <1>4 DEF WorkerRetest, TestQueue, TakeTask, MustWait, BroadcastNotFull
<1>5. ASSUME NEW w \in Slots, WorkerStart(w) PROVE JoinInv'
  BY <1>5 DEF WorkerStart
<1>6. ASSUME NEW w \in Slots, WorkerFinish(w) PROVE JoinInv'
  BY <1>6 DEF WorkerFinish
<1>7. ASSUME NEW w \in Slots, WorkerTerminate(w) PROVE JoinInv'
  BY <1>7 DEF WorkerTerminate
<1>8. ASSUME NEW c \in Clients, NEW t \in Tasks, AddCall(c, t) PROVE JoinInv'
  BY <1>8 DEF AddCall, AddUnderLock, SignalNotEmpty, WaitingWorkers
<1>9. ASSUME NEW c \in Clients, AddWake(c) PROVE JoinInv'
  BY <1>9 DEF AddWake, AddUnderLock, SignalNotEmpty, WaitingWorkers
<1>10. ASSUME NEW c \in Clients, UnlockedStore(c) PROVE JoinInv'
  BY <1>10 DEF UnlockedStore
<1>11. ASSUME NEW c \in Clients, UnlockedPublish(c) PROVE JoinInv'
  BY <1>11 DEF UnlockedPublish, SignalNotEmpty, WaitingWorkers
<1>12. CASE AdjustTest
  BY <1>12 DEF AdjustTest
<1>13. CASE AdjustReadCounts
  BY <1>13 DEF AdjustReadCounts
<1>14. CASE AdjustReadBusy
  BY <1>14 DEF AdjustReadBusy
<1>15. CASE AdjustGrow
  <2>1. PICK S \in SUBSET Slots :
          /\ live_thr_num' = live_thr_num + Cardinality(S)
          /\ live_thr_num + Cardinality(S) <= MaxThr
    BY <1>15 DEF AdjustGrow, Fillable
  <2>2. Cardinality(S) \in Nat
    BY SlotsFinite
  <2>3. live_thr_num' = live_thr_num
    BY <2>1, <2>2
  <2> QED BY <1>15, <2>3 DEF AdjustGrow
<1>16. CASE AdjustSkipGrow
  BY <1>16 DEF AdjustSkipGrow
<1>17. CASE AdjustShrink
  BY <1>17 DEF AdjustShrink
<1>18. CASE AdjustSkipShrink
  BY <1>18 DEF AdjustSkipShrink
<1>19. CASE AdjustSignal
  BY <1>19 DEF AdjustSignal, SignalNotEmpty, WaitingWorkers
<1>20. CASE CreateWorker
  BY <1>20 DEF CreateWorker
<1>21. CASE CreateAdjuster
  BY <1>21 DEF CreateAdjuster
<1>22. CASE DestroyStart
  BY <1>22 DEF DestroyStart
<1>23. CASE DestroyJoinAdjuster
  BY <1>23 DEF DestroyJoinAdjuster
<1>24. CASE DestroyBroadcast
  BY <1>24 DEF DestroyBroadcast, BroadcastNotEmpty
<1>25. CASE DestroyJoinWorker
  BY <1>25 DEF DestroyJoinWorker
<1>26. CASE DestroyFree
  BY <1>26 DEF DestroyFree
<1>27. CASE SpuriousWake
  BY <1>27 DEF SpuriousWake, WaitingWorkers
<1>28. CASE UNCHANGED vars
  BY <1>28
<1>29. ASSUME NEW w \in Slots, WorkerTorn(w) PROVE JoinInv'
  <2>1. /\ UNCHANGED <<mpc, mi, apc, shutdown, live_thr_num>> /\ wpc[w] # "dead"
        /\ \A v \in Slots \ {w} : wpc'[v] = wpc[v]
        /\ wpc'[w] \notin {"retiring", "leaving"}
    <3>1. CASE WorkerAsk(w)
      BY <1>29, <3>1 DEF WorkerTorn, WorkerAsk
    <3>2. CASE WorkerLoad(w)
      BY <1>29, <3>2 DEF WorkerTorn, WorkerLoad
    <3>3. CASE WorkerTestLive(w)
      BY <1>29, <3>3 DEF WorkerTorn, WorkerTestLive
    <3>4. CASE WorkerStore(w)
      BY <1>29, <3>4 DEF WorkerTorn, WorkerStore
    <3> QED BY <1>29, <3>1, <3>2, <3>3, <3>4 DEF WorkerTorn
  <2> QED BY <1>29, <2>1 DEF WorkerTorn
<1>30. CASE AdjusterTorn
  <2>1. /\ UNCHANGED <<mpc, mi, shutdown, live_thr_num, wpc>> /\ apc # "done"
        /\ apc' \notin {"created", "counted"}
    BY <1>30 DEF AdjusterTorn, AdjustReadSize, AdjustReadLive, AdjustEnterLoop,
                 AdjustSlot, MoreSlots, AdjustLoad, AdjustStore
  <2> QED BY <1>30, <2>1 DEF AdjusterTorn
<1> QED
  BY <1>1, <1>2, <1>3, <1>4, <1>5, <1>6, <1>7, <1>8, <1>9, <1>10, <1>11,
     <1>12, <1>13, <1>14, <1>15, <1>16, <1>17, <1>18, <1>19, <1>20, <1>21,
     <1>22, <1>23, <1>24, <1>25, <1>26, <1>27, <1>28, <1>29, <1>30
     DEF Next, Worker, Client, Adjuster, Destroyer

(* With min_thr_num equal to max_thr_num the pool is freed only when every  *)
(* worker has terminated.                                                   *)
THEOREM FixedPoolNoUseAfterFree == MinThr = MaxThr => (Spec => []NoUseAfterFree)
<1> SUFFICES ASSUME MinThr = MaxThr PROVE Spec => []NoUseAfterFree
  OBVIOUS
<1>1. Init => JoinInv
  BY SizeAssumption DEF Init, JoinInv, Shut, Slots
<1>2. TypeInv /\ JoinInv /\ [Next]_vars => JoinInv'
  BY JoinInvNext
<1>3. JoinInv => NoUseAfterFree
  BY DEF JoinInv, NoUseAfterFree, InPool
<1> QED BY <1>1, <1>2, <1>3, TypeInvInit, TypeInvNext,
           PTL DEF Spec

-----------------------------------------------------------------------------

(* The tasks.  Only some steps move one: a worker takes or finishes it, a   *)
(* client adds it.  The others may still wake a blocked add or shut down.   *)
Pending(c) == cpc[c] \in {"blocked", "woken"}

Takes(w) ==
  /\ wpc[w] \in {"lock", "woken"} /\ ~MustWait /\ ~shutdown /\ TakeTask(w)
  /\ UNCHANGED <<carg, called, finished, freed, shutdown>>

Quiet ==
  /\ UNCHANGED <<queueVars, wtask, carg, called, finished, freed>>
  /\ \A w \in Slots :
       (wpc'[w] \in {"got", "running"}) <=> (wpc[w] \in {"got", "running"})
  /\ \A c \in Clients :
       /\ Pending(c)' <=> Pending(c)
       /\ cpc[c] \in {"idle", "unlocked", "stored"} => cpc'[c] = cpc[c]

TaskStep ==
  \/ \E w \in Slots : Takes(w) \/ WorkerFinish(w)
  \/ \E c \in Clients : \E t \in Tasks : AddCall(c, t)
  \/ \E c \in Clients : AddWake(c)
  \/ \E c \in Clients : UnlockedStore(c) \/ UnlockedPublish(c)
  \/ DestroyStart /\ Quiet
  \/ UNCHANGED shutdown /\ Quiet

(* A signal wakes nobody who has a task.                                    *)
LEMMA SignalQuiet ==
  ASSUME TypeOK, SignalNotEmpty
  PROVE  \A w \in Slots :
           (wpc'[w] \in {"got", "running"}) <=> (wpc[w] \in {"got", "running"})
BY DEF TypeOK, SignalNotEmpty, WaitingWorkers

(* Every step is one of these.                                              *)
LEMMA TaskSteps == TypeInv /\ CreationInv /\ [Next]_vars => TaskStep
<1> SUFFICES ASSUME TypeInv, CreationInv, [Next]_vars PROVE TaskStep
  OBVIOUS
<1> USE DEF TypeInv, TypeOK, vars, queueVars, countVars, workerVars,
            clientVars, adjusterVars, mainVars, histVars
<1>1. ASSUME NEW w \in Slots, WorkerLock(w) PROVE TaskStep
  <2>1. CASE ~MustWait /\ ~shutdown
    BY <1>1, <2>1 DEF WorkerLock, TestQueue, TaskStep, Takes
  <2>2. CASE MustWait \/ shutdown
    <3>1. Quiet
      BY <1>1, <2>2 DEF WorkerLock, TestQueue, Quiet, Pending
    <3> QED BY <1>1, <3>1 DEF TaskStep, WorkerLock
  <2> QED BY <2>1, <2>2
<1>2. ASSUME NEW w \in Slots, WorkerRetest(w) PROVE TaskStep
  <2>1. CASE ~MustWait /\ ~shutdown
    BY <1>2, <2>1 DEF WorkerRetest, TestQueue, TaskStep, Takes
  <2>2. CASE MustWait \/ shutdown
    <3>1. Quiet
      BY <1>2, <2>2 DEF WorkerRetest, TestQueue, Quiet, Pending
    <3> QED BY <1>2, <3>1 DEF TaskStep, WorkerRetest
  <2> QED BY <2>1, <2>2
<1>3. ASSUME NEW w \in Slots,
             WorkerWait(w) \/ WorkerRetire(w) \/ WorkerTorn(w) \/ WorkerStart(w)
             \/ WorkerTerminate(w)
      PROVE  UNCHANGED shutdown /\ Quiet
  BY <1>3 DEF WorkerWait, WorkerRetire, WorkerTorn, WorkerAsk, WorkerLoad,
              WorkerTestLive, WorkerStore, WorkerStart, WorkerTerminate, Quiet,
              Pending
<1>4. ASSUME AdjustTest \/ AdjustReadCounts \/ AdjustReadBusy \/ AdjustSkipGrow
             \/ AdjustShrink \/ AdjustSkipShrink \/ AdjusterTorn
      PROVE  UNCHANGED shutdown /\ Quiet
  BY <1>4 DEF AdjustTest, AdjustReadCounts, AdjustReadBusy, AdjustSkipGrow,
              AdjustShrink, AdjustSkipShrink, AdjusterTorn, AdjustReadSize,
              AdjustReadLive, AdjustEnterLoop, AdjustSlot, Vacant, AdjustLoad,
              AdjustStore, Quiet, Pending
<1>5. CASE AdjustGrow
  BY <1>5 DEF AdjustGrow, Fillable, Vacant, TaskStep, Quiet, Pending
<1>6. CASE AdjustSignal
  BY <1>6, SignalQuiet DEF AdjustSignal, TaskStep, Quiet, Pending
<1>7. ASSUME CreateWorker \/ CreateAdjuster \/ DestroyJoinAdjuster
             \/ DestroyBroadcast \/ DestroyJoinWorker \/ DestroyFree
      PROVE  UNCHANGED shutdown /\ Quiet
  <2>1. CASE CreateWorker
    <3>1. mi \in Slots /\ wpc[mi] = "none"
      BY <2>1, SizeAssumption DEF CreateWorker, CreationInv, Slots
    <3> QED BY <2>1, <3>1 DEF CreateWorker, Quiet, Pending
  <2> QED BY <1>7, <2>1
          DEF CreateAdjuster, DestroyJoinAdjuster, DestroyBroadcast,
              DestroyJoinWorker, DestroyFree, BroadcastNotEmpty, Quiet, Pending
<1>8. CASE DestroyStart
  BY <1>8 DEF DestroyStart, TaskStep, Quiet, Pending
<1>9. CASE SpuriousWake
  BY <1>9 DEF SpuriousWake, WaitingWorkers, TaskStep, Quiet, Pending
<1>10. CASE UNCHANGED vars
  BY <1>10 DEF TaskStep, Quiet, Pending
<1>11. ASSUME UNCHANGED shutdown /\ Quiet PROVE TaskStep
  BY <1>11 DEF TaskStep
<1> QED
  BY <1>1, <1>2, <1>3, <1>4, <1>5, <1>6, <1>7, <1>8, <1>9, <1>10, <1>11
     DEF Next, Worker, Client, Adjuster, Destroyer, TaskStep

-----------------------------------------------------------------------------
(* The ring.  The task that waits k places behind the front.                *)
PlaceOf(k) ==
  IF queue_front + k < QueueMax THEN queue_front + k
                                ELSE queue_front + k - QueueMax
TaskAt(k) == task_queue[PlaceOf(k)]
Places == 0 .. queue_size - 1

(* An index into the ring, wrapped at most once.                            *)
LEMMA ModSum ==
  ASSUME NEW a \in QSlots, NEW b \in 0 .. QueueMax
  PROVE  (a + b) % QueueMax = IF a + b < QueueMax THEN a + b ELSE a + b - QueueMax
<1> USE SizeAssumption DEF QSlots
<1>1. CASE a + b < QueueMax
  BY <1>1
<1>2. CASE a + b >= QueueMax
  BY <1>2
<1> QED BY <1>1, <1>2

LEMMA NextIndexValue ==
  ASSUME NEW a \in QSlots
  PROVE  NextIndex(a) = IF a = QueueMax - 1 THEN 0 ELSE a + 1
<1>1. 1 \in 0 .. QueueMax
  BY SizeAssumption
<1>2. NextIndex(a) = IF a + 1 < QueueMax THEN a + 1 ELSE a + 1 - QueueMax
  BY <1>1, ModSum DEF NextIndex
<1> QED BY <1>2, SizeAssumption DEF QSlots

(* Which task is where: waiting in the ring, held by a blocked add, run by  *)
(* a worker or finished, and never in two of these places.  After shutdown  *)
(* adds write the ring without the lock, but nobody takes a task any more.  *)
NoUnlockedAdd ==
  ~shutdown => \A c \in Clients : cpc[c] \notin {"unlocked", "stored"}

HeldOnce ==
  /\ \A w \in Slots : (wtask[w] # Null) <=> wpc[w] \in {"got", "running"}
  /\ \A w \in Slots : wtask[w] # Null => wtask[w] \in called \ finished
  /\ finished \subseteq called
  /\ \A v, w \in Slots : wtask[v] = wtask[w] => wtask[v] = Null \/ v = w

RingInOrder ==
  ~shutdown => queue_size \in 0 .. QueueMax /\ queue_rear = PlaceOf(queue_size)

QueuedOnce ==
  ~shutdown =>
    /\ \A k \in Places :
         TaskAt(k) \in called \ finished /\ \A w \in Slots : TaskAt(k) # wtask[w]
    /\ \A j, k \in Places : TaskAt(j) = TaskAt(k) => j = k

PendingOnce ==
  ~shutdown => \A c \in Clients : Pending(c) =>
    /\ carg[c] \in called \ finished
    /\ \A w \in Slots : carg[c] # wtask[w]
    /\ \A k \in Places : carg[c] # TaskAt(k)
    /\ \A d \in Clients : Pending(d) /\ carg[c] = carg[d] => c = d

TaskInv == NoUnlockedAdd /\ HeldOnce /\ RingInOrder /\ QueuedOnce /\ PendingOnce

LEMMA TaskInvInit == Init => TaskInv
BY SizeAssumption
   DEF Init, TaskInv, NoUnlockedAdd, HeldOnce, RingInOrder, QueuedOnce,
       PendingOnce, Pending, PlaceOf, Places, QSlots

(* An add that finds room puts its task behind all others.                  *)
LEMMA StorePlaces ==
  ASSUME TypeInv, TaskInv, ~shutdown, ~QueueFull, NEW t, StoreTask(t),
         queue_rear' = NextIndex(queue_rear), queue_size' = queue_size + 1,
         UNCHANGED queue_front, NEW n, n = queue_size
  PROVE  /\ queue_size' \in 0 .. QueueMax /\ queue_rear' = PlaceOf(queue_size)'
         /\ Places' = Places \cup {n}
         /\ \A k \in Places : k # n /\ TaskAt(k)' = TaskAt(k)
         /\ TaskAt(n)' = t
         /\ \A k \in Places : PlaceOf(k) # queue_rear /\ PlaceOf(k)' = PlaceOf(k)
<1> USE SizeAssumption, NextIndexValue
    DEF TypeInv, TypeOK, TaskInv, RingInOrder, QueueFull, StoreTask, PlaceOf,
        Places, TaskAt, QSlots
<1>1. queue_size' \in 0 .. QueueMax /\ queue_rear' = PlaceOf(queue_size)'
  <2>1. queue_size \in 0 .. QueueMax - 1 /\ queue_front \in 0 .. QueueMax - 1
    OBVIOUS
  <2>2. queue_rear = IF queue_front + queue_size < QueueMax
                     THEN queue_front + queue_size
                     ELSE queue_front + queue_size - QueueMax
    OBVIOUS
  <2>3. queue_rear' = IF queue_rear = QueueMax - 1 THEN 0 ELSE queue_rear + 1
    OBVIOUS
  <2> HIDE DEF TypeInv, TypeOK, TaskInv, RingInOrder, QueueFull, StoreTask
  <2> QED BY <2>1, <2>2, <2>3
<1>2. Places' = Places \cup {n}
  OBVIOUS
<1>3. \A k \in Places : PlaceOf(k) \in QSlots /\ PlaceOf(k) # queue_rear /\ k # n
  OBVIOUS
<1>4. \A k \in Places : TaskAt(k)' = TaskAt(k)
  BY <1>3
<1>5. TaskAt(n)' = t
  OBVIOUS
<1>6. \A k \in Places : PlaceOf(k)' = PlaceOf(k)
  OBVIOUS
<1> QED BY <1>1, <1>2, <1>3, <1>4, <1>5, <1>6

(* A worker takes the task at the front, and the others move up.            *)
LEMMA TakePlaces ==
  ASSUME TypeInv, TaskInv, NEW w \in Slots, Takes(w)
  PROVE  /\ queue_size' \in 0 .. QueueMax /\ queue_rear' = PlaceOf(queue_size)'
         /\ 0 \in Places /\ wtask' = [wtask EXCEPT ![w] = TaskAt(0)]
         /\ \A k \in Places' : k + 1 \in Places /\ TaskAt(k)' = TaskAt(k + 1)
         /\ PlaceOf(0) = queue_front /\ queue_size' = queue_size - 1
         /\ \A k \in Places : k = 0 \/ \E j \in Places' : PlaceOf(j)' = PlaceOf(k)
<1> USE SizeAssumption, NextIndexValue
    DEF TypeInv, TypeOK, TaskInv, RingInOrder, Takes, TakeTask, MustWait,
        PlaceOf, Places, TaskAt, QSlots
<1>1. queue_size \in 1 .. QueueMax /\ queue_size' = queue_size - 1
  OBVIOUS
<1>2. queue_front' = IF queue_front = QueueMax - 1 THEN 0 ELSE queue_front + 1
  OBVIOUS
<1>3. queue_rear' = queue_rear /\ queue_rear = PlaceOf(queue_size)
  OBVIOUS
<1>4. queue_rear' = PlaceOf(queue_size)'
  BY <1>1, <1>2, <1>3
<1>5. 0 \in Places /\ PlaceOf(0) = queue_front
  BY <1>1
<1>6. wtask' = [wtask EXCEPT ![w] = TaskAt(0)]
  BY <1>5
<1>7. \A k \in Places' : k + 1 \in Places /\ TaskAt(k)' = TaskAt(k + 1)
  BY <1>1, <1>2
<1>8. queue_size' \in 0 .. QueueMax
  BY <1>1
<1>9. ASSUME NEW k \in Places, k # 0
      PROVE  k - 1 \in Places' /\ PlaceOf(k - 1)' = PlaceOf(k)
  BY <1>1, <1>2, <1>9
<1> QED BY <1>1, <1>4, <1>5, <1>6, <1>7, <1>8, <1>9

-----------------------------------------------------------------------------
(* The steps that move a task keep the tasks apart.                         *)
LEMMA TakeKeeps ==
  ASSUME TypeInv, TaskInv, NEW w \in Slots, Takes(w)
  PROVE  TaskInv'
<1> DEFINE t == TaskAt(0)
<1>1. /\ queue_size' \in 0 .. QueueMax /\ queue_rear' = PlaceOf(queue_size)'
      /\ 0 \in Places /\ wtask' = [wtask EXCEPT ![w] = t]
      /\ \A k \in Places' : k + 1 \in Places /\ TaskAt(k)' = TaskAt(k + 1)
      /\ \A k \in Places' : k \in Nat
  BY TakePlaces DEF Places
<1>2. /\ ~shutdown /\ UNCHANGED <<shutdown, called, finished, carg>>
      /\ wpc[w] \in {"lock", "woken"} /\ wpc' = [wpc EXCEPT ![w] = "got"]
      /\ \A c \in Clients : (Pending(c)' <=> Pending(c))
      /\ \A c \in Clients : cpc'[c] \in {"unlocked", "stored"}
                               <=> cpc[c] \in {"unlocked", "stored"}
  BY DEF Takes, TakeTask, BroadcastNotFull, Pending, TypeInv, TypeOK
<1>3. /\ t \in called \ finished /\ t # Null /\ \A v \in Slots : wtask[v] # t
      /\ \A k \in Places' : TaskAt(k + 1) # t
  BY <1>1, <1>2, ValueAssumption DEF TaskInv, QueuedOnce, TypeInv, TypeOK
<1>4. wtask[w] = Null
  BY <1>2 DEF TaskInv, HeldOnce
<1>5. \A v \in Slots : wtask'[v] = IF v = w THEN t ELSE wtask[v]
  BY <1>1 DEF TypeInv, TypeOK
<1>6. NoUnlockedAdd'
  BY <1>2 DEF TaskInv, NoUnlockedAdd
<1>7. HeldOnce'
  BY <1>2, <1>3, <1>4, <1>5 DEF TaskInv, HeldOnce, TypeInv, TypeOK
<1>8. RingInOrder'
  BY <1>1 DEF RingInOrder
<1>9. QueuedOnce'
  BY <1>1, <1>2, <1>3, <1>5 DEF TaskInv, QueuedOnce
<1>10. PendingOnce'
  BY <1>1, <1>2, <1>3, <1>5 DEF TaskInv, PendingOnce
<1> QED BY <1>6, <1>7, <1>8, <1>9, <1>10 DEF TaskInv

(* The task that is finished is no longer held.                             *)
LEMMA FinishKeeps ==
  ASSUME TypeInv, TaskInv, NEW w \in Slots, WorkerFinish(w)
  PROVE  TaskInv'
<1>1. /\ UNCHANGED <<queueVars, clientVars, called, shutdown>>
      /\ wpc[w] = "running" /\ wpc' = [wpc EXCEPT ![w] = "lock"]
      /\ wtask' = [wtask EXCEPT ![w] = Null]
      /\ finished' = finished \cup {wtask[w]}
  BY DEF WorkerFinish, mainVars
<1>2. Places' = Places /\ \A k : TaskAt(k)' = TaskAt(k) /\ PlaceOf(k)' = PlaceOf(k)
  BY <1>1 DEF queueVars, Places, TaskAt, PlaceOf
<1>3. \A c \in Clients : (Pending(c)' <=> Pending(c))
  BY <1>1 DEF clientVars, Pending
<1>4. wtask[w] \in called \ finished /\ wtask[w] # Null
  BY <1>1 DEF TaskInv, HeldOnce
<1>5. \A v \in Slots : wtask'[v] = IF v = w THEN Null ELSE wtask[v]
  BY <1>1 DEF TypeInv, TypeOK
<1>6. Null \notin called
  BY ValueAssumption DEF TypeInv, TypeOK
<1>7. NoUnlockedAdd'
  BY <1>1 DEF TaskInv, NoUnlockedAdd, clientVars
<1>8. HeldOnce'
  BY <1>1, <1>4, <1>5 DEF TaskInv, HeldOnce, TypeInv, TypeOK
<1>9. RingInOrder'
  BY <1>1, <1>2 DEF TaskInv, RingInOrder, queueVars
<1>10. QueuedOnce'
  BY <1>1, <1>2, <1>5, <1>6 DEF TaskInv, QueuedOnce
<1>11. PendingOnce'
  BY <1>1, <1>2, <1>3, <1>5, <1>6 DEF TaskInv, PendingOnce, clientVars
<1> QED BY <1>7, <1>8, <1>9, <1>10, <1>11 DEF TaskInv

(* threadpool_add with an arg that is nowhere in the pool but in its hands. *)
LEMMA AddKeeps ==
  ASSUME TypeInv, TaskInv, NEW c \in Clients, NEW t \in Tasks, AddUnderLock(c, t),
         called' \in {called, called \cup {t}}, t \in called',
         cpc[c] \in {"idle", "woken"},
         t \notin finished, \A w \in Slots : wtask[w] # t,
         ~shutdown => /\ \A k \in Places : TaskAt(k) # t
                      /\ \A d \in Clients \ {c} : Pending(d) => carg[d] # t
  PROVE  TaskInv'
<1>1. /\ UNCHANGED <<shutdown, wtask, finished>>
      /\ \A d \in Clients \ {c} : cpc'[d] = cpc[d] /\ carg'[d] = carg[d]
      /\ \A d \in Clients \ {c} : (Pending(d)' <=> Pending(d))
  BY DEF AddUnderLock, mainVars, Pending, TypeInv, TypeOK
<1>2. \A w \in Slots :
        (wpc'[w] \in {"got", "running"}) <=> (wpc[w] \in {"got", "running"})
  BY SignalQuiet DEF AddUnderLock, TypeInv
<1>3. HeldOnce'
  BY <1>1, <1>2 DEF TaskInv, HeldOnce, TypeInv, TypeOK
<1>4. CASE shutdown
  <2>1. shutdown'
    BY <1>1, <1>4
  <2> QED BY <2>1, <1>3 DEF TaskInv, NoUnlockedAdd, RingInOrder, QueuedOnce, PendingOnce
<1>5. CASE ~shutdown /\ QueueFull
  <2>1. /\ UNCHANGED queueVars /\ cpc'[c] = "blocked" /\ carg'[c] = t
    BY <1>5 DEF AddUnderLock, TypeInv, TypeOK
  <2>2. Places' = Places /\ \A k : TaskAt(k)' = TaskAt(k) /\ PlaceOf(k)' = PlaceOf(k)
    BY <2>1 DEF queueVars, Places, TaskAt, PlaceOf
  <2>3. NoUnlockedAdd' /\ RingInOrder' /\ QueuedOnce'
    BY <1>1, <2>1, <2>2, <1>5
       DEF TaskInv, NoUnlockedAdd, RingInOrder, QueuedOnce, queueVars
  <2>4. PendingOnce'
    BY <1>1, <1>5, <2>1, <2>2 DEF TaskInv, PendingOnce, Pending
  <2> QED BY <1>3, <2>3, <2>4 DEF TaskInv
<1>6. CASE ~shutdown /\ ~QueueFull
  <2>1. /\ StoreTask(t) /\ queue_rear' = NextIndex(queue_rear)
        /\ queue_size' = queue_size + 1 /\ UNCHANGED queue_front
        /\ cpc'[c] = "idle" /\ carg'[c] = Null
    BY <1>6 DEF AddUnderLock, TypeInv, TypeOK
  <2>2. PICK n : n = queue_size
    OBVIOUS
  <2>3. /\ queue_size' \in 0 .. QueueMax /\ queue_rear' = PlaceOf(queue_size)'
        /\ Places' = Places \cup {n}
        /\ \A k \in Places : k # n /\ TaskAt(k)' = TaskAt(k)
        /\ TaskAt(n)' = t
    BY <1>6, <2>1, <2>2, StorePlaces
  <2>4. NoUnlockedAdd'
    BY <1>1, <1>6, <2>1 DEF TaskInv, NoUnlockedAdd
  <2>5. QueuedOnce'
    BY <1>1, <1>6, <2>3 DEF TaskInv, QueuedOnce
  <2>6. PendingOnce'
    BY <1>1, <1>6, <2>1, <2>3 DEF TaskInv, PendingOnce, Pending
  <2> QED BY <1>3, <2>3, <2>4, <2>5, <2>6 DEF TaskInv, RingInOrder
<1> QED BY <1>4, <1>5, <1>6

(* A step that moves no task.                                               *)
LEMMA QuietKeeps ==
  ASSUME TypeInv, TaskInv, Quiet, shutdown' = shutdown \/ shutdown'
  PROVE  TaskInv'
<1>1. Places' = Places /\ \A k : TaskAt(k)' = TaskAt(k) /\ PlaceOf(k)' = PlaceOf(k)
  BY DEF Quiet, queueVars, Places, TaskAt, PlaceOf
<1>2. HeldOnce'
  BY DEF Quiet, TaskInv, HeldOnce
<1>3. CASE shutdown'
  BY <1>2, <1>3 DEF TaskInv, NoUnlockedAdd, RingInOrder, QueuedOnce, PendingOnce
<1>4. CASE ~shutdown /\ ~shutdown'
  <2>1. NoUnlockedAdd'
    BY <1>4 DEF Quiet, TaskInv, NoUnlockedAdd, TypeInv, TypeOK, ClientPC, Pending
  <2>2. RingInOrder' /\ QueuedOnce'
    BY <1>1, <1>4 DEF Quiet, TaskInv, RingInOrder, QueuedOnce, queueVars
  <2>3. PendingOnce'
    BY <1>1, <1>4 DEF Quiet, TaskInv, PendingOnce
  <2> QED BY <1>2, <2>1, <2>2, <2>3 DEF TaskInv
<1> QED BY <1>3, <1>4

(* So every step keeps the tasks apart.                                     *)
LEMMA TaskInvNext == TypeInv /\ CreationInv /\ TaskInv /\ [Next]_vars => TaskInv'
<1> SUFFICES ASSUME TypeInv, TaskInv, TaskStep PROVE TaskInv'
  BY TaskSteps
<1>1. ASSUME NEW c \in Clients, NEW t \in Tasks, AddCall(c, t) PROVE TaskInv'
  <2>1. /\ AddUnderLock(c, t) /\ called' = called \cup {t} /\ t \notin called
        /\ cpc[c] = "idle"
    BY <1>1 DEF AddCall
  <2>2. t # Null
    BY ValueAssumption
  <2>3. t \notin finished /\ \A w \in Slots : wtask[w] # t
    BY <2>1, <2>2 DEF TaskInv, HeldOnce
  <2>4. ~shutdown => /\ \A k \in Places : TaskAt(k) # t
                     /\ \A d \in Clients \ {c} : Pending(d) => carg[d] # t
    BY <2>1 DEF TaskInv, QueuedOnce, PendingOnce
  <2> QED BY <2>1, <2>3, <2>4, AddKeeps
<1>2. ASSUME NEW c \in Clients, AddWake(c) PROVE TaskInv'
  <2>1. /\ AddUnderLock(c, carg[c]) /\ UNCHANGED called
        /\ cpc[c] = "woken" /\ Pending(c)
    BY <1>2 DEF AddWake, Pending
  <2>2. CASE shutdown
    <3>1. /\ UNCHANGED <<shutdown, wtask, finished>>
          /\ \A w \in Slots :
               (wpc'[w] \in {"got", "running"}) <=> (wpc[w] \in {"got", "running"})
      BY <2>1, SignalQuiet DEF AddUnderLock, mainVars, TypeInv
    <3>2. HeldOnce'
      BY <2>1, <3>1 DEF TaskInv, HeldOnce
    <3> QED BY <2>2, <3>1, <3>2
            DEF TaskInv, NoUnlockedAdd, RingInOrder, QueuedOnce, PendingOnce
  <2>3. CASE ~shutdown
    <3>1. carg[c] \in Tasks /\ carg[c] \in called \ finished
      BY <2>1, <2>3 DEF TaskInv, PendingOnce, TypeInv, TypeOK
    <3>2. /\ \A w \in Slots : wtask[w] # carg[c]
          /\ \A k \in Places : TaskAt(k) # carg[c]
          /\ \A d \in Clients \ {c} : Pending(d) => carg[d] # carg[c]
      BY <2>1, <2>3 DEF TaskInv, PendingOnce
    <3> QED BY <2>1, <3>1, <3>2, AddKeeps
  <2> QED BY <2>2, <2>3
<1>3. ASSUME NEW c \in Clients, UnlockedStore(c) \/ UnlockedPublish(c) PROVE TaskInv'
  <2>1. shutdown /\ UNCHANGED <<shutdown, wtask, called, finished>>
    BY <1>3 DEF UnlockedStore, UnlockedPublish, mainVars, histVars, workerVars,
                TaskInv, NoUnlockedAdd
  <2>2. \A w \in Slots :
          (wpc'[w] \in {"got", "running"}) <=> (wpc[w] \in {"got", "running"})
    BY <1>3, SignalQuiet DEF UnlockedStore, UnlockedPublish, workerVars, TypeInv
  <2>3. HeldOnce'
    BY <2>1, <2>2 DEF TaskInv, HeldOnce
  <2> QED BY <2>1, <2>3
          DEF TaskInv, NoUnlockedAdd, RingInOrder, QueuedOnce, PendingOnce
<1>4. CASE DestroyStart /\ Quiet
  BY <1>4, QuietKeeps DEF DestroyStart
<1>5. CASE UNCHANGED shutdown /\ Quiet
  BY <1>5, QuietKeeps
<1> QED BY <1>1, <1>2, <1>3, <1>4, <1>5, TakeKeeps, FinishKeeps DEF TaskStep

(* A worker only ever runs what somebody passed to threadpool_add, and      *)
(* nothing twice.                                                           *)
THEOREM RunsOnlyAddedAlways == Spec => []RunsOnlyAdded
<1>1. ASSUME TypeInv, TaskInv PROVE RunsOnlyAdded
  <2> DEFINE busy == {w \in Slots : wtask[w] # Null}
             held == {wtask[w] : w \in busy}
             f == [w \in busy |-> wtask[w]]
  <2>1. finished \cup held \subseteq called /\ finished \cap held = {}
    BY <1>1 DEF TaskInv, HeldOnce
  <2>2. f \in Bijection(busy, held)
    BY <1>1 DEF TaskInv, HeldOnce, Bijection, Injection, Surjection, IsInjective
  <2>3. IsFiniteSet(busy)
    BY SlotsFinite
  <2>4. Cardinality(held) = Cardinality(busy)
    BY <2>2, <2>3, FS_Bijection DEF ExistsBijection
  <2> QED BY <2>1, <2>4 DEF RunsOnlyAdded
<1> QED BY <1>1, TypeInvInit, TypeInvNext, CreationInvInit, CreationInvNext,
           TaskInvInit, TaskInvNext, PTL DEF Spec

-----------------------------------------------------------------------------
(* The args a lap old.  What threadpool_add frees it finds in the slot it   *)
(* is about to fill, and outside the places of the waiting tasks only args  *)
(* of tasks that were taken are left.                                       *)
Gone(t) == t \in finished \/ \E w \in Slots : wtask[w] = t

SpentInv ==
  /\ shutdown => AddsOver
  /\ FreedWereTaken
  /\ ~shutdown =>
       \A s \in QSlots, t \in Tasks :
         task_queue[s] = t => Gone(t) \/ \E k \in Places : PlaceOf(k) = s

(* A task that was taken stays so.                                          *)
LEMMA GoneStays ==
  ASSUME TypeInv, TaskInv, TaskStep, NEW t \in Tasks, Gone(t)
  PROVE  Gone(t)'
<1>1. t # Null
  BY ValueAssumption
<1>2. ASSUME NEW w \in Slots, Takes(w) PROVE Gone(t)'
  <2>1. wtask[w] = Null /\ \A v \in Slots \ {w} : wtask'[v] = wtask[v]
    BY <1>2 DEF Takes, TakeTask, TypeInv, TypeOK, TaskInv, HeldOnce
  <2> QED BY <1>1, <1>2, <2>1 DEF Gone, Takes
<1>3. ASSUME NEW w \in Slots, WorkerFinish(w) PROVE Gone(t)'
  <2>1. /\ finished' = finished \cup {wtask[w]}
        /\ \A v \in Slots \ {w} : wtask'[v] = wtask[v]
    BY <1>3 DEF WorkerFinish, TypeInv, TypeOK
  <2> QED BY <2>1 DEF Gone
<1>4. CASE UNCHANGED <<wtask, finished>>
  BY <1>4 DEF Gone
<1>5. ASSUME NEW c \in Clients, NEW a, AddUnderLock(c, a)
      PROVE  UNCHANGED <<wtask, finished>>
  BY <1>5 DEF AddUnderLock
<1>6. ASSUME NEW c \in Clients, UnlockedStore(c) \/ UnlockedPublish(c)
      PROVE  UNCHANGED <<wtask, finished>>
  BY <1>6 DEF UnlockedStore, UnlockedPublish, workerVars, histVars
<1> QED BY <1>2, <1>3, <1>4, <1>5, <1>6 DEF TaskStep, AddCall, AddWake, Quiet

(* Storing an arg with room in the queue frees at most one that is gone.    *)
LEMMA StoreSpent ==
  ASSUME TypeInv, TaskInv, SpentInv, ~shutdown, ~QueueFull, NEW t, StoreTask(t),
         queue_rear' = NextIndex(queue_rear), queue_size' = queue_size + 1,
         UNCHANGED <<queue_front, wtask, finished, shutdown>>
  PROVE  SpentInv'
<1>1. PICK n : n = queue_size
  OBVIOUS
<1>2. /\ Places' = Places \cup {n}
      /\ \A k \in Places : PlaceOf(k) # queue_rear /\ PlaceOf(k)' = PlaceOf(k)
      /\ queue_rear = PlaceOf(n)
  BY <1>1, StorePlaces DEF TaskInv, RingInOrder
<1>3. PlaceOf(n)' = PlaceOf(n)
  BY DEF PlaceOf
<1>4. queue_rear \in QSlots
  BY DEF TypeInv, TypeOK
<1>5. OldArg \in Tasks => Gone(OldArg)
  BY <1>2, <1>4 DEF SpentInv, OldArg
<1>6. FreedWereTaken'
  BY <1>5 DEF SpentInv, FreedWereTaken, StoreTask, Gone
<1>7. ASSUME NEW s \in QSlots, NEW a \in Tasks, task_queue'[s] = a,
             \A k \in Places' : PlaceOf(k)' # s
      PROVE  Gone(a)'
  <2>1. s # queue_rear /\ \A k \in Places : PlaceOf(k) # s
    BY <1>2, <1>3, <1>7
  <2>2. task_queue'[s] = task_queue[s]
    BY <2>1 DEF StoreTask, TypeInv, TypeOK
  <2> QED BY <1>7, <2>1, <2>2 DEF SpentInv, Gone
<1> QED BY <1>6, <1>7 DEF SpentInv

(* No step frees, or leaves outside the places, an arg still to be run.     *)
LEMMA SpentInvNext ==
  ASSUME DestroyAfterAdds, TypeInv, TaskInv, TaskStep, SpentInv
  PROVE  SpentInv'
<1>1. ASSUME UNCHANGED freed PROVE FreedWereTaken'
  <2>1. \A t \in freed : t \in Tasks /\ Gone(t)
    BY DEF SpentInv, FreedWereTaken, Gone, TypeInv, TypeOK
  <2>2. \A t \in freed : Gone(t)'
    BY <2>1, GoneStays
  <2> QED BY <1>1, <2>2 DEF FreedWereTaken, Gone
<1>2. ASSUME NEW w \in Slots, Takes(w) PROVE SpentInv'
  <2>1. ~shutdown /\ UNCHANGED <<shutdown, freed, task_queue>>
    BY <1>2 DEF Takes, TakeTask
  <2>2. /\ wtask' = [wtask EXCEPT ![w] = TaskAt(0)] /\ PlaceOf(0) = queue_front
        /\ \A k \in Places : k = 0 \/ \E j \in Places' : PlaceOf(j)' = PlaceOf(k)
    BY <1>2, TakePlaces
  <2>3. \A t : t = TaskAt(0) => Gone(t)'
    BY <2>2 DEF Gone, TypeInv, TypeOK
  <2>4. ASSUME NEW s \in QSlots, NEW t \in Tasks, task_queue[s] = t
        PROVE  Gone(t)' \/ \E k \in Places' : PlaceOf(k)' = s
    <3>1. CASE Gone(t)
      BY <3>1, GoneStays
    <3>2. ASSUME NEW k \in Places, PlaceOf(k) = s
          PROVE  Gone(t)' \/ \E j \in Places' : PlaceOf(j)' = s
      <4>1. CASE k = 0
        BY <2>3, <2>4, <3>2, <4>1 DEF TaskAt
      <4>2. CASE k # 0
        BY <2>2, <3>2, <4>2
      <4> QED BY <4>1, <4>2
    <3> QED BY <2>1, <2>4, <3>1, <3>2 DEF SpentInv
  <2> QED BY <1>1, <2>1, <2>4 DEF SpentInv
<1>3. ASSUME UNCHANGED <<queueVars, freed>>, ~shutdown' \/ AddsOver',
             shutdown => shutdown' PROVE SpentInv'
  <2>1. Places' = Places /\ \A k : PlaceOf(k)' = PlaceOf(k)
    BY <1>3 DEF queueVars, Places, PlaceOf
  <2>2. \A t \in Tasks : Gone(t) => Gone(t)'
    BY GoneStays
  <2> QED BY <1>1, <1>3, <2>1, <2>2 DEF SpentInv, queueVars
<1>4. ASSUME NEW w \in Slots, WorkerFinish(w) PROVE SpentInv'
  <2>1. UNCHANGED <<queueVars, clientVars, called, freed, shutdown>>
    BY <1>4 DEF WorkerFinish, mainVars
  <2> QED BY <1>3, <2>1 DEF SpentInv, AddsOver, clientVars
<1>5. ASSUME NEW c \in Clients, NEW t, AddUnderLock(c, t),
             cpc[c] \in {"idle", "woken"}, called # Tasks \/ cpc[c] # "idle"
      PROVE  SpentInv'
  <2>1. ~shutdown /\ UNCHANGED <<shutdown, wtask, finished>>
    BY <1>5 DEF AddUnderLock, mainVars, SpentInv, AddsOver
  <2>2. CASE QueueFull
    BY <1>3, <1>5, <2>1, <2>2 DEF AddUnderLock, queueVars
  <2>3. CASE ~QueueFull
    BY <1>5, <2>1, <2>3, StoreSpent DEF AddUnderLock
  <2> QED BY <2>2, <2>3
<1>6. ASSUME NEW c \in Clients, NEW t \in Tasks, AddCall(c, t) PROVE SpentInv'
  BY <1>5, <1>6 DEF AddCall
<1>7. ASSUME NEW c \in Clients, AddWake(c) PROVE SpentInv'
  BY <1>5, <1>7 DEF AddWake
<1>8. ASSUME NEW c \in Clients, UnlockedStore(c) \/ UnlockedPublish(c) PROVE FALSE
  BY <1>8 DEF UnlockedStore, UnlockedPublish, TaskInv, NoUnlockedAdd, SpentInv,
              AddsOver
<1>9. CASE DestroyStart /\ Quiet
  BY <1>3, <1>9 DEF DestroyStart, Quiet, AddsOver, queueVars, clientVars, histVars
<1>10. CASE UNCHANGED shutdown /\ Quiet
  BY <1>3, <1>10 DEF SpentInv, Quiet, AddsOver
<1> QED BY <1>2, <1>4, <1>6, <1>7, <1>8, <1>9, <1>10 DEF TaskStep

LEMMA SpentInvInit == Init => SpentInv
BY ValueAssumption
   DEF Init, SpentInv, FreedWereTaken

(* Where threadpool_destroy follows the last threadpool_add, threadpool_add *)
(* only ever frees the arg of a task some worker has taken.                 *)
THEOREM FreedWereTakenAlways == DestroyAfterAdds => (Spec => []FreedWereTaken)
<1> SUFFICES ASSUME DestroyAfterAdds PROVE Spec => []FreedWereTaken
  OBVIOUS
<1>1. TypeInv /\ CreationInv /\ TaskInv /\ SpentInv /\ [Next]_vars => SpentInv'
  BY SpentInvNext, TaskSteps
<1>2. SpentInv => FreedWereTaken
  BY DEF SpentInv
<1> QED BY <1>1, <1>2, TypeInvInit, TypeInvNext, CreationInvInit,
           CreationInvNext, TaskInvInit, TaskInvNext, SpentInvInit, PTL DEF Spec

-----------------------------------------------------------------------------
(* The pool implements the bounded FIFO of TaskQueue.                       *)
Running == {wtask[w] : w \in {v \in Slots : wtask[v] # Null}}

(* The ring, read from its front, as a sequence.                            *)
InOrder == [i \in 1 .. queue_size |-> TaskAt(i - 1)]

ContentNow ==
  /\ QueueContent = InOrder
  /\ queue_size \in 0 .. QueueMax
  /\ \A k \in Places : TaskAt(k) \in Tasks \cup {Null, Junk}

LEMMA Content == TypeInv /\ TaskInv /\ ~shutdown => ContentNow
<1> SUFFICES ASSUME TypeInv, TaskInv, ~shutdown PROVE ContentNow
  OBVIOUS
<1> USE SizeAssumption DEF TypeInv, TypeOK, TaskInv, RingInOrder
<1>1. ASSUME NEW i \in 1 .. queue_size
      PROVE  (queue_front + i - 1) % QueueMax = PlaceOf(i - 1)
  <2>1. i - 1 \in 0 .. QueueMax /\ queue_front \in QSlots
    BY <1>1
  <2>2. (queue_front + (i - 1)) % QueueMax = PlaceOf(i - 1)
    BY <2>1, ModSum DEF PlaceOf
  <2>3. queue_front + i - 1 = queue_front + (i - 1)
    BY <2>1 DEF QSlots
  <2> QED BY <2>2, <2>3
<1>2. QueueContent = InOrder
  BY <1>1 DEF QueueContent, TaskAt, InOrder
<1>3. queue_size \in 0 .. QueueMax
  OBVIOUS
<1>4. \A k \in Places : PlaceOf(k) \in QSlots
  BY DEF Places, PlaceOf, QSlots
<1> QED BY <1>2, <1>3, <1>4 DEF TaskAt, ContentNow

(* threadpool_add submits its task, or waits, which the FIFO does not see.  *)
LEMMA AddSubmits ==
  ASSUME TypeInv, TaskInv, ~shutdown, ContentNow, ContentNow',
         NEW c \in Clients, NEW t \in Tasks,
         AddUnderLock(c, t), t \notin finished, \A w \in Slots : wtask[w] # t,
         \A k \in Places : TaskAt(k) # t
  PROVE  [Abstract!Next]_(Abstract!vars)
<1>1. UNCHANGED <<shutdown, finished, wtask>>
  BY DEF AddUnderLock, mainVars
<1>2. CASE QueueFull
  <2>1. UNCHANGED queueVars
    BY <1>2 DEF AddUnderLock
  <2> QED BY <1>1, <2>1 DEF Abstract!vars, QueueContent, queueVars
<1>3. CASE ~QueueFull
  <2>1. /\ StoreTask(t) /\ queue_rear' = NextIndex(queue_rear)
        /\ queue_size' = queue_size + 1 /\ UNCHANGED queue_front
    BY <1>3 DEF AddUnderLock
  <2>2. PICK n : n = queue_size
    OBVIOUS
  <2>3. /\ \A k \in Places : TaskAt(k)' = TaskAt(k)
        /\ TaskAt(n)' = t
    BY <1>3, <2>1, <2>2, StorePlaces
  <2>4. n \in Nat /\ n < QueueMax /\ 1 .. n + 1 = (1 .. n) \cup {n + 1}
    BY <1>3, <2>2, SizeAssumption DEF ContentNow, QueueFull
  <2>5. InOrder \in Seq(Tasks \cup {Null, Junk}) /\ Len(InOrder) = n
    BY <2>2, <2>4 DEF ContentNow, InOrder, Places
  <2>6. \A i \in 1 .. n : InOrder'[i] = InOrder[i]
    BY <2>1, <2>2, <2>3, <2>4 DEF InOrder, Places
  <2>7. InOrder' = [i \in 1 .. n + 1 |-> IF i = n + 1 THEN t ELSE InOrder[i]]
    BY <2>1, <2>2, <2>3, <2>4 DEF InOrder, Places
  <2>8. InOrder' = Append(InOrder, t)
    <3> DEFINE Args == Tasks \cup {Null, Junk}
    <3>1. InOrder' \in Seq(Args) /\ Len(InOrder') = n + 1
      BY <2>4, <2>5, <2>7
    <3>2. /\ Append(InOrder, t) \in Seq(Args) /\ Len(Append(InOrder, t)) = n + 1
          /\ \A i \in 1 .. n + 1 :
               Append(InOrder, t)[i] = IF i = n + 1 THEN t ELSE InOrder[i]
      BY <2>4, <2>5
    <3>3. \A i \in 1 .. n + 1 : InOrder'[i] = Append(InOrder, t)[i]
      BY <2>7, <3>2
    <3> QED BY <3>1, <3>2, <3>3, SeqEqual
  <2>9. t \notin Abstract!Queued \cup Running \cup finished
    BY <2>2, <2>4 DEF Abstract!Queued, Running, ContentNow, InOrder, Places
  <2>10. Abstract!Submit(t)
    BY <1>1, <2>4, <2>5, <2>8, <2>9 DEF Abstract!Submit, ContentNow, Running
  <2> QED BY <2>10 DEF Abstract!Next
<1> QED BY <1>2, <1>3

(* Taking a task starts the oldest one.                                     *)
LEMMA TakeStarts ==
  ASSUME TypeInv, TaskInv, ContentNow, ContentNow', NEW w \in Slots, Takes(w)
  PROVE  Abstract!Start
<1> DEFINE Args == Tasks \cup {Null, Junk}
<1>1. /\ ~shutdown /\ UNCHANGED <<shutdown, finished>> /\ wtask[w] = Null
  BY DEF Takes, TaskInv, HeldOnce
<1>2. PICK n : n = queue_size
  OBVIOUS
<1>3. /\ 0 \in Places /\ wtask' = [wtask EXCEPT ![w] = TaskAt(0)]
      /\ \A k \in Places' : k + 1 \in Places /\ TaskAt(k)' = TaskAt(k + 1)
      /\ queue_size' = n - 1
  BY <1>2, TakePlaces
<1>4. n \in Nat \ {0}
  BY <1>2, <1>3 DEF ContentNow, Places
<1>5. InOrder \in Seq(Args) /\ Len(InOrder) = n /\ InOrder # <<>>
  BY <1>2, <1>4 DEF ContentNow, InOrder, Places
<1>6. Head(InOrder) = TaskAt(0)
  BY <1>2, <1>4, <1>5 DEF InOrder
<1>7. InOrder' = [i \in 1 .. n - 1 |-> InOrder[i + 1]]
  BY <1>2, <1>3, <1>4 DEF InOrder, Places
<1>8. InOrder' = Tail(InOrder)
  <2>1. \A i \in 1 .. n - 1 : InOrder[i + 1] \in Args
    BY <1>4, <1>5
  <2>2. InOrder' \in Seq(Args) /\ Len(InOrder') = n - 1
    BY <1>4, <1>7, <2>1
  <2>3. /\ Tail(InOrder) \in Seq(Args) /\ Len(Tail(InOrder)) = n - 1
        /\ \A i \in 1 .. n - 1 : Tail(InOrder)[i] = InOrder[i + 1]
    BY <1>5, HeadTailProperties
  <2>4. \A i \in 1 .. n - 1 : InOrder'[i] = Tail(InOrder)[i]
    BY <1>7, <2>3
  <2> QED BY <2>2, <2>3, <2>4, SeqEqual
<1>9. TaskAt(0) # Null
  BY <1>1, <1>3, ValueAssumption DEF TaskInv, QueuedOnce, TypeInv, TypeOK
<1>10. Running' = Running \cup {TaskAt(0)}
  BY <1>1, <1>3, <1>9 DEF Running, TypeInv, TypeOK
<1> QED BY <1>1, <1>5, <1>6, <1>8, <1>10 DEF Abstract!Start, ContentNow, Running

(* The return of a task's function finishes it.                             *)
LEMMA FinishFinishes ==
  ASSUME TypeInv, TaskInv, NEW w \in Slots, WorkerFinish(w)
  PROVE  \E t \in Tasks : Abstract!Finish(t)
<1>1. /\ UNCHANGED <<queueVars, shutdown>> /\ wpc[w] = "running"
      /\ wtask' = [wtask EXCEPT ![w] = Null]
      /\ finished' = finished \cup {wtask[w]}
  BY DEF WorkerFinish, mainVars
<1>2. wtask[w] # Null /\ wtask[w] \in Tasks
  BY <1>1 DEF TaskInv, HeldOnce, TypeInv, TypeOK
<1>3. \A v \in Slots \ {w} : wtask[v] # wtask[w]
  BY <1>2 DEF TaskInv, HeldOnce
<1>4. wtask[w] \in Running /\ Running' = Running \ {wtask[w]}
  BY <1>1, <1>2, <1>3 DEF Running, TypeInv, TypeOK
<1>5. UNCHANGED QueueContent
  BY <1>1 DEF QueueContent, queueVars
<1> QED BY <1>1, <1>2, <1>4, <1>5 DEF Abstract!Finish, Running

(* Every step is a step of the FIFO or one it does not see.                 *)
LEMMA StepImplements ==
  ASSUME TypeInv, TaskInv, TaskInv', SpentInv, ContentNow \/ shutdown,
         ContentNow' \/ shutdown', TaskStep
  PROVE  [Abstract!Next]_(Abstract!vars)
<1>1. ASSUME NEW w \in Slots, Takes(w) PROVE Abstract!Next
  BY <1>1, TakeStarts DEF Takes, Abstract!Next
<1>2. ASSUME NEW w \in Slots, WorkerFinish(w) PROVE Abstract!Next
  BY <1>2, FinishFinishes DEF Abstract!Next
<1>3. ASSUME NEW c \in Clients, NEW t \in Tasks, AddCall(c, t)
      PROVE  [Abstract!Next]_(Abstract!vars)
  <2>1. /\ AddUnderLock(c, t) /\ t \notin called /\ ~shutdown /\ UNCHANGED shutdown
    BY <1>3 DEF AddCall, AddUnderLock, mainVars, SpentInv, AddsOver
  <2>2. t \notin finished /\ \A w \in Slots : wtask[w] # t
    BY <2>1, ValueAssumption DEF TaskInv, HeldOnce
  <2>3. \A k \in Places : TaskAt(k) # t
    BY <2>1 DEF TaskInv, QueuedOnce
  <2> QED BY <2>1, <2>2, <2>3, AddSubmits
<1>4. ASSUME NEW c \in Clients, AddWake(c)
      PROVE  [Abstract!Next]_(Abstract!vars)
  <2>1. /\ AddUnderLock(c, carg[c]) /\ Pending(c) /\ ~shutdown /\ UNCHANGED shutdown
    BY <1>4 DEF AddWake, AddUnderLock, mainVars, SpentInv, AddsOver, Pending
  <2>2. /\ carg[c] \in Tasks /\ carg[c] \notin finished
        /\ \A w \in Slots : wtask[w] # carg[c]
        /\ \A k \in Places : TaskAt(k) # carg[c]
    BY <2>1 DEF TaskInv, PendingOnce, TypeInv, TypeOK
  <2> QED BY <2>1, <2>2, AddSubmits
<1>5. ASSUME NEW c \in Clients, UnlockedStore(c) \/ UnlockedPublish(c) PROVE FALSE
  BY <1>5 DEF UnlockedStore, UnlockedPublish, TaskInv, NoUnlockedAdd, SpentInv,
              AddsOver
<1>6. ASSUME Quiet PROVE UNCHANGED <<QueueContent, Running, finished>>
  BY <1>6 DEF Quiet, queueVars, QueueContent, Running
<1>7. CASE DestroyStart /\ Quiet
  BY <1>6, <1>7 DEF DestroyStart, Abstract!Next, Abstract!Close, Running
<1>8. CASE UNCHANGED shutdown /\ Quiet
  BY <1>6, <1>8 DEF Abstract!vars, Running
<1> QED BY <1>1, <1>2, <1>3, <1>4, <1>5, <1>7, <1>8 DEF TaskStep

(* Where threadpool_destroy follows the last threadpool_add, the pool is a  *)
(* bounded FIFO that starts each task at most once, in order, and none      *)
(* after shutdown.                                                          *)
THEOREM PoolImplementsTaskQueue == DestroyAfterAdds => (Spec => ImplementsTaskQueue)
<1> SUFFICES ASSUME DestroyAfterAdds PROVE Spec => ImplementsTaskQueue
  OBVIOUS
<1>1. Init => Abstract!Init
  BY ValueAssumption DEF Init, Abstract!Init, QueueContent
<1>2. TypeInv /\ CreationInv /\ TaskInv /\ SpentInv /\ [Next]_vars => SpentInv'
  BY SpentInvNext, TaskSteps
<1>3. TypeInv /\ TaskInv => ContentNow \/ shutdown
  BY Content
<1>4. TypeInv /\ CreationInv /\ TaskInv /\ SpentInv /\ (ContentNow \/ shutdown)
        /\ TaskInv' /\ (ContentNow \/ shutdown)' /\ [Next]_vars
        => [Abstract!Next]_(Abstract!vars)
  BY StepImplements, TaskSteps
<1> QED BY <1>1, <1>2, <1>3, <1>4, TypeInvInit, TypeInvNext, CreationInvInit,
           CreationInvNext, TaskInvInit, TaskInvNext, SpentInvInit, PTL
        DEF Spec, ImplementsTaskQueue, Abstract!Spec

-----------------------------------------------------------------------------
(* The threads destroy joins.  Where pthread_kill does not report exited    *)
(* threads, growth only fills slots that were never used, lowest first, so  *)
(* the used slots have no gap and are at least live_thr_num.                *)
Created == {w \in Slots : wpc[w] # "none"}

CreatedInv ==
  /\ \A w \in Created : \A v \in Slots : v < w => v \in Created
  /\ mpc # "create" => live_thr_num <= Cardinality(Created)
  /\ \A w \in Slots : wpc[w] = "leaving" => wload[w] <= Cardinality(Created)
  /\ apc \notin {"slot", "created", "counted"} => grow.i = 0
  /\ \A v \in Slots : v < grow.i => v \in Created
  /\ apc \in {"created", "counted"} => grow.i \in Created
  /\ apc \in {"created", "counted"} => live_thr_num < Cardinality(Created)
  /\ apc = "counted" => grow.live < Cardinality(Created)

(* Growth takes the lowest unused slots, and nothing else uses a new one.   *)
LEMMA CreatedInvNext ==
  ASSUME ~KillSeesExit, TypeInv, CreationInv, CreatedInv, [Next]_vars
  PROVE  CreatedInv'
<1> USE DEF TypeInv, TypeOK, vars, countVars, tornVars, workerVars, adjusterVars,
            mainVars
<1> DEFINE Used == Cardinality(Created)
           Counts == /\ UNCHANGED <<Created, live_thr_num>>
                     /\ mpc = "create" => mpc' = "create"
           Loads == \A w \in Slots : wpc'[w] = "leaving" =>
                       wpc[w] = "leaving" /\ wload'[w] = wload[w]
           Loop == \/ UNCHANGED <<apc, grow>>
                   \/ {apc, apc'} \cap {"slot", "created", "counted"} = {}
                      /\ UNCHANGED grow
           Same == Counts /\ Loads /\ Loop
<1>0. Used \in Nat
  BY SlotsFinite DEF Created
<1>1. ASSUME NEW w \in Slots, Worker(w) PROVE Same \/ WorkerTorn(w) \/ WorkerRetire(w)
  BY <1>1 DEF Worker, WorkerLock, WorkerWait, WorkerRetest,
              WorkerStart, WorkerFinish, WorkerTerminate, TestQueue, TakeTask,
              Created
<1>2. ASSUME NEW c \in Clients, Client(c) PROVE Same
  <2>1. /\ wpc' = wpc \/ SignalNotEmpty
        /\ UNCHANGED <<live_thr_num, mpc, wload, apc, grow>>
    BY <1>2 DEF Client, AddCall, AddWake, AddUnderLock, UnlockedStore,
                UnlockedPublish
  <2> QED BY <2>1 DEF SignalNotEmpty, WaitingWorkers, Created
<1>3. ASSUME Adjuster, ~AdjustGrow PROVE Same \/ AdjusterTorn
  <2>1. /\ wpc' = wpc \/ SignalNotEmpty
        /\ UNCHANGED <<live_thr_num, mpc, wload, grow>>
        /\ {apc, apc'} \cap {"slot", "created", "counted"} = {}
        \/ AdjusterTorn
    BY <1>3 DEF Adjuster, AdjustTest, AdjustReadCounts, AdjustReadBusy,
                AdjustSkipGrow, AdjustShrink, AdjustSkipShrink, AdjustSignal
  <2> QED BY <2>1 DEF SignalNotEmpty, WaitingWorkers, Created
<1>4. CASE AdjustGrow
  <2>1. PICK S \in SUBSET Slots :
          /\ S \subseteq Vacant /\ \A v \in Vacant \ S, w \in S : w < v
          /\ live_thr_num' = live_thr_num + Cardinality(S)
          /\ wpc' = [w \in Slots |-> IF w \in S THEN "lock" ELSE wpc[w]]
          /\ UNCHANGED <<mpc, wload, grow>> /\ apc = "grow" /\ apc' = "shrink"
          /\ lock = NoOne
    BY <1>4 DEF AdjustGrow, Fillable
  <2>2. Vacant = Slots \ Created
    BY DEF Vacant, Created
  <2>3. Created' = Created \cup S /\ Created \cap S = {}
    BY <2>1, <2>2 DEF Created
  <2>4. Cardinality(Created') = Cardinality(Created) + Cardinality(S)
    <3>1. /\ IsFiniteSet(Created) /\ IsFiniteSet(S)
          /\ Cardinality(Created) \in Nat /\ Cardinality(S) \in Nat
      BY SlotsFinite DEF Created
    <3> QED BY <2>3, <3>1, DisjointUnion
  <2>5. Cardinality(Created) \in Nat /\ Cardinality(S) \in Nat
    BY SlotsFinite DEF Created
  <2>6. \A w \in Created' : \A v \in Slots : v < w => v \in Created'
    <3> SUFFICES ASSUME NEW w \in Created', NEW v \in Slots, v < w, v \notin Created'
                 PROVE  FALSE
      OBVIOUS
    <3>1. v \in Vacant \ S /\ w \in Slots
      BY <2>1, <2>2, <2>3 DEF Created
    <3>2. w \in Created => v \in Created
      BY DEF CreatedInv
    <3>3. w \in S => w < v
      BY <2>1, <3>1
    <3>4. ~(w < v)
      BY <3>1 DEF Slots
    <3> QED BY <2>3, <3>2, <3>3, <3>4
  <2>7. \A w \in Slots : wpc'[w] # "leaving"
    BY <2>1 DEF BrokenInv, TornWorker
  <2>8. grow'.i = 0 /\ \A v \in Slots : ~(v < 0)
    BY <2>1 DEF CreatedInv, Slots
  <2> QED BY <2>1, <2>4, <2>5, <2>6, <2>7, <2>8 DEF CreatedInv
<1>5. CASE CreateWorker
  <2>1. /\ mpc = "create" /\ mpc' = "create" /\ mi \in Slots
        /\ wpc' = [wpc EXCEPT ![mi] = "lock"]
        /\ \A w \in Slots : (wpc[w] = "none") <=> w >= mi
        /\ UNCHANGED <<apc, grow>> /\ apc = "none" /\ lock # Broken
    BY <1>5, SizeAssumption DEF CreateWorker, CreationInv, BrokenInv, Slots
  <2>2. \A w \in Slots : wpc'[w] # "leaving"
    BY <2>1 DEF BrokenInv, TornWorker
  <2>3. \A w \in Created' : \A v \in Slots : v < w => v \in Created'
    BY <2>1 DEF Created, Slots
  <2>4. grow'.i = 0 /\ \A v \in Slots : ~(v < 0)
    BY <2>1 DEF CreatedInv, Slots
  <2> QED BY <2>1, <2>2, <2>3, <2>4 DEF CreatedInv
<1>6. CASE CreateAdjuster
  <2>1. /\ mpc = "create" /\ live_thr_num = MinThr /\ mi = MinThr
        /\ \A w \in Slots : (wpc[w] = "none") <=> w >= MinThr
        /\ UNCHANGED <<wpc, live_thr_num, grow>> /\ apc = "none" /\ apc' = "loop"
        /\ lock # Broken
    BY <1>6 DEF CreateAdjuster, CreationInv, BrokenInv
  <2>2. Created = 0 .. MinThr - 1 /\ Created' = Created
    BY <2>1, SizeAssumption DEF Created, Slots
  <2>3. Cardinality(0 .. MinThr - 1) = MinThr
    BY FirstNumbers, SizeAssumption
  <2>4. \A w \in Slots : wpc'[w] # "leaving"
    BY <2>1 DEF BrokenInv, TornWorker
  <2> QED BY <2>1, <2>2, <2>3, <2>4, SizeAssumption DEF CreatedInv
<1>7. ASSUME Destroyer, ~CreateWorker, ~CreateAdjuster PROVE Same
  BY <1>7 DEF Destroyer, DestroyStart, DestroyJoinAdjuster, DestroyBroadcast,
              DestroyJoinWorker, DestroyFree, BroadcastNotEmpty, Created
<1>8. ASSUME SpuriousWake PROVE Same
  BY <1>8 DEF SpuriousWake, WaitingWorkers, Created
<1>9. ASSUME UNCHANGED vars PROVE Same
  BY <1>9 DEF Created
<1>10. ASSUME Same PROVE CreatedInv'
  <2>1. UNCHANGED Used
    BY <1>10
  <2> QED BY <1>10, <2>1 DEF CreatedInv
<1>11. ASSUME NEW w \in Slots, WorkerRetire(w) PROVE CreatedInv'
  <2>1. /\ UNCHANGED <<Created, mpc, apc, grow>> /\ live_thr_num' = live_thr_num - 1
        /\ Loads
    BY <1>11 DEF WorkerRetire, Created
  <2> QED BY <1>0, <2>1 DEF CreatedInv
<1>12. ASSUME NEW w \in Slots, WorkerTorn(w) PROVE CreatedInv'
  <2>1. UNCHANGED <<Created, mpc, apc, grow>> /\ mpc # "create"
    BY <1>12 DEF WorkerTorn, WorkerAsk, WorkerLoad, WorkerTestLive, WorkerStore,
                 Created, BrokenInv, TornWorker, CreationInv
  <2>2. live_thr_num <= Used
    BY <2>1 DEF CreatedInv
  <2>3. CASE WorkerAsk(w) \/ WorkerTestLive(w)
    BY <1>0, <2>1, <2>3 DEF CreatedInv, WorkerAsk, WorkerTestLive
  <2>4. CASE WorkerLoad(w)
    BY <1>0, <2>1, <2>2, <2>4 DEF CreatedInv, WorkerLoad
  <2>5. CASE WorkerStore(w)
    <3>1. \/ UNCHANGED live_thr_num
          \/ wpc[w] = "leaving" /\ live_thr_num' = wload[w] - 1
      BY <2>5 DEF WorkerStore
    <3>2. Loads
      BY <2>5 DEF WorkerStore
    <3> QED BY <1>0, <2>1, <2>2, <3>1, <3>2 DEF CreatedInv
  <2> QED BY <1>12, <2>3, <2>4, <2>5 DEF WorkerTorn
<1>13. ASSUME AdjusterTorn PROVE CreatedInv'
  <2>1. mpc # "create" /\ UNCHANGED <<mpc, wload>>
    BY <1>13 DEF AdjusterTorn, CreationInv, AdjustReadSize, AdjustReadLive,
                 AdjustEnterLoop, AdjustSlot, AdjustLoad, AdjustStore
  <2>2. live_thr_num <= Used
    BY <2>1 DEF CreatedInv
  <2>3. CASE AdjustReadSize \/ AdjustReadLive \/ AdjustEnterLoop
    <3>1. UNCHANGED <<Created, live_thr_num, wpc, grow>> /\ grow.i = 0
          /\ apc' \notin {"created", "counted"}
      BY <2>3 DEF AdjustReadSize, AdjustReadLive, AdjustEnterLoop, CreatedInv, Created
    <3> QED BY <2>1, <3>1 DEF CreatedInv
  <2>4. CASE AdjustSlot /\ UNCHANGED wpc
    <3>1. UNCHANGED <<Created, live_thr_num>> /\ apc' \notin {"created", "counted"}
      BY <2>4 DEF AdjustSlot, Created, Vacant
    <3>2. \/ grow' = NoGrow
          \/ apc' = "slot" /\ grow'.i = grow.i + 1 /\ grow.i \notin Vacant
             /\ grow.i \in Slots
      <4>1. CASE grow' = NoGrow
        BY <4>1
      <4>2. CASE /\ MoreSlots /\ grow.i \notin Vacant /\ UNCHANGED apc
                 /\ grow' = [grow EXCEPT !.i = grow.i + 1]
        BY <2>4, <4>2, SizeAssumption DEF AdjustSlot, MoreSlots, Slots
      <4> QED BY <2>4, <4>1, <4>2 DEF AdjustSlot, Vacant
    <3>3. \A v \in Slots : v < grow'.i => v \in Created
      BY <3>2 DEF CreatedInv, Created, Vacant, Slots, NoGrow
    <3>4. apc' \notin {"slot", "created", "counted"} => grow'.i = 0
      BY <2>4 DEF AdjustSlot, NoGrow
    <3> QED BY <2>1, <2>4, <3>1, <3>3, <3>4 DEF CreatedInv
  <2>5. CASE AdjustSlot /\ ~UNCHANGED wpc
    <3>1. /\ grow.i \in Slots \ Created /\ wpc' = [wpc EXCEPT ![grow.i] = "lock"]
          /\ apc' = "created" /\ UNCHANGED <<grow, live_thr_num>>
      BY <2>5 DEF AdjustSlot, Vacant, Created
    <3>2. Created' = Created \cup {grow.i}
      BY <3>1 DEF Created
    <3>3. Used' = Used + 1
      BY <3>1, <3>2, SlotsFinite, FS_AddElement DEF Created
    <3>4. \A w \in Created' : \A v \in Slots : v < w => v \in Created'
      BY <3>1, <3>2 DEF CreatedInv
    <3>5. \A w \in Slots : wpc'[w] = "leaving" => wpc[w] = "leaving"
      BY <3>1
    <3>6. Used' \in Nat /\ live_thr_num' < Used' /\ Used <= Used'
      BY <1>0, <2>2, <3>1, <3>3
    <3>7. \A w \in Slots : wpc'[w] = "leaving" => wload'[w] <= Used'
      BY <1>0, <2>1, <3>3, <3>5 DEF CreatedInv
    <3>8. \A v \in Slots : v < grow'.i => v \in Created'
      BY <3>1, <3>2 DEF CreatedInv
    <3>9. live_thr_num' <= Used' /\ grow'.i \in Created' /\ apc' # "counted"
      BY <1>0, <2>2, <3>1, <3>2, <3>3
    <3> HIDE DEF Used
    <3> QED BY <3>1, <3>4, <3>6, <3>7, <3>8, <3>9 DEF CreatedInv, Used
  <2>6. CASE AdjustLoad
    BY <1>0, <2>1, <2>6 DEF AdjustLoad, CreatedInv, Created
  <2>7. CASE AdjustStore
    <3>1. /\ UNCHANGED <<Created, wpc>> /\ live_thr_num' = grow.live + 1
          /\ grow'.i = grow.i + 1 /\ apc' = "slot" /\ grow.live < Used
          /\ grow.i \in Created
      BY <2>7 DEF AdjustStore, CreatedInv, Created
    <3>2. \A v \in Slots : v < grow'.i => v \in Created
      BY <3>1 DEF CreatedInv, Slots
    <3> QED BY <1>0, <2>1, <3>1, <3>2 DEF CreatedInv
  <2> QED BY <1>13, <2>3, <2>4, <2>5, <2>6, <2>7 DEF AdjusterTorn
<1> QED BY <1>1, <1>2, <1>3, <1>4, <1>5, <1>6, <1>7, <1>8, <1>9, <1>10, <1>11,
           <1>12, <1>13 DEF Next

(* Every slot destroy passes to pthread_join holds a thread that was        *)
(* created, where pthread_kill does not report exited threads as gone.      *)
THEOREM JoinTargetsExistAlways == Spec => []JoinTargetsExist
<1>1. CASE KillSeesExit
  <2>1. JoinTargetsExist
    BY <1>1 DEF JoinTargetsExist
  <2> QED BY <2>1, PTL
<1>2. CASE ~KillSeesExit
  <2>1. Init => SizeInv /\ CreatedInv
    BY SizeAssumption DEF Init, SizeInv, LiveBounds, CreatedInv, Created, NoGrow,
                          Slots
  <2>2. TypeInv /\ CreationInv /\ CreatedInv /\ [Next]_vars => CreatedInv'
    BY <1>2, CreatedInvNext
  <2>3. ASSUME TypeInv, SizeInv, CreatedInv PROVE JoinTargetsExist
    <3> SUFFICES ASSUME mpc = "join", NEW w \in 0 .. live_thr_num - 1, wpc[w] = "none"
                 PROVE  FALSE
      BY DEF JoinTargetsExist
    <3>1. w \in Slots /\ w \notin Created /\ w \in Nat
      BY <2>3, SizeAssumption DEF TypeInv, TypeOK, SizeInv, LiveBounds, Slots, Created
    <3>2. Created \subseteq 0 .. w - 1
      BY <2>3, <3>1 DEF CreatedInv, Created, Slots
    <3>3. IsFiniteSet(0 .. w - 1) /\ Cardinality(0 .. w - 1) = w
      BY <3>1, FirstNumbers
    <3>4. Cardinality(Created) <= w
      BY <3>2, <3>3, FS_Subset
    <3>5. Cardinality(Created) \in Nat
      BY SlotsFinite DEF Created
    <3> QED BY <2>3, <3>1, <3>4, <3>5 DEF CreatedInv, TypeInv, TypeOK
  <2> QED BY <2>1, <2>2, <2>3, TypeInvInit, TypeInvNext, SizeInvNext,
             CreationInvInit, CreationInvNext, PTL DEF Spec
<1> QED BY <1>1, <1>2
=============================================================================
