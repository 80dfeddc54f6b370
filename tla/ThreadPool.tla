----------------------------- MODULE ThreadPool -----------------------------
(***************************************************************************)
(* The pthread thread pool of threadpool.cpp: the workers, the client      *)
(* threads inside threadpool_add, the adjuster thread and the thread that  *)
(* creates and destroys the pool.                                          *)
(*                                                                         *)
(* A critical section under pool->lock is one step, except the one that    *)
(* ends in pthread_cond_wait: destroy stores shutdown without the lock, so *)
(* the instant between the loop condition and the wait is a state of its   *)
(* own ("towait") in which the worker owns the lock.  Sections under       *)
(* thread_counter hold one assignment and are one step each.  A worker is  *)
(* named by the index of its pthread_t in pool->threads.                   *)
(*                                                                         *)
(* An add that finds shutdown set unlocks, carries on, and unlocks again   *)
(* at its end, which frees the mutex under whoever owns it then, whose own *)
(* unlock frees it under the next.  Once such an add has let go of the     *)
(* lock the mutex is Broken and excludes nobody: the sections that access  *)
(* more than one variable that still changes are then taken apart into     *)
(* their reads and writes (WorkerTorn, AdjusterTorn), and any number of    *)
(* threads may be inside.  Shutdown is set by then, and so the rest of     *)
(* every other section reads and writes one thing and stays one step.      *)
(***************************************************************************)
EXTENDS Integers, FiniteSets

CONSTANTS
  MinThr, MaxThr,    (* min_thr_num, max_thr_num                            *)
  QueueMax,          (* queue_max_size                                      *)
  MinWaitTask,       (* MIN_WAIT_TASK_NUM                                   *)
  ThreadVary,        (* DEFAULT_THREAD_VARY                                 *)
  Clients,           (* threads that call threadpool_add                    *)
  Tasks,             (* the args passed to threadpool_add, each once        *)
  Null, Junk,        (* no arg; a non-null arg nobody stored                *)
  FreshArgs,         (* what malloc leaves in a slot's arg, a build outcome *)
  FreshWaitExit,     (* what new leaves in wait_exit_thr_num                *)
  KillSeesExit,      (* pthread_kill(tid, 0) gives ESRCH for an exited,     *)
                     (* unjoined thread: true of some C libraries           *)
  DestroyAfterAdds   (* threadpool_destroy follows the last threadpool_add, *)
                     (* as in main                                          *)

ASSUME SizeAssumption ==
  /\ MinThr \in Nat \ {0} /\ MaxThr \in Nat /\ MinThr <= MaxThr
  /\ QueueMax \in Nat \ {0}
  /\ MinWaitTask \in Nat /\ ThreadVary \in Nat \ {0}
ASSUME ValueAssumption ==
  /\ Null \notin Tasks /\ Junk \notin Tasks /\ Null # Junk
  /\ FreshArgs \subseteq {Null, Junk}
  /\ FreshWaitExit \subseteq Int
  /\ KillSeesExit \in BOOLEAN /\ DestroyAfterAdds \in BOOLEAN

Slots == 0 .. MaxThr - 1
QSlots == 0 .. QueueMax - 1
NoOne == -1          (* nobody owns pool->lock                              *)
Broken == -2         (* anybody may enter: a second unlock may come         *)

VARIABLES
  lock,                                   (* owner of pool->lock            *)
  task_queue, queue_front, queue_rear, queue_size,
  live_thr_num, busy_thr_num, wait_exit_thr_num,
  wload, grow,       (* with the lock broken: the counter a worker has      *)
                     (* loaded; the adjuster's i, add and loaded counter    *)
  shutdown,
  wpc, wtask,        (* per worker: where it is, the task in its hands      *)
  cpc, carg, cload,  (* per client: where it is, its arg, rear and size     *)
                     (* as loaded by an add that runs without the lock      *)
  apc, snap, asig,   (* adjuster: where it is, its reads, signals to send   *)
  mpc, mi,           (* creator/destroyer: where it is, its loop variable   *)
  aborted,           (* the process died in free()                          *)
  called, finished,  (* history: args passed to add, tasks run to the end   *)
  freed,             (* history: args the pool has freed                    *)
  late               (* history: workers between test and wait when         *)
                     (* shutdown was stored                                 *)

queueVars == <<task_queue, queue_front, queue_rear, queue_size>>
tornVars == <<wload, grow>>
countVars == <<live_thr_num, busy_thr_num, wait_exit_thr_num, tornVars>>
workerVars == <<wpc, wtask>>
clientVars == <<cpc, carg, cload>>
adjusterVars == <<apc, snap, asig>>
mainVars == <<mpc, mi, shutdown, late>>
histVars == <<aborted, called, finished, freed>>
vars == <<lock, queueVars, countVars, workerVars, clientVars, adjusterVars,
          mainVars, histVars>>

WorkerPC == {"none",     (* threads[w] == 0: never created                  *)
             "lock",     (* about to lock at the head of while(1)           *)
             "towait",   (* owns the lock, tested the condition, will wait  *)
             "waiting",  (* in pthread_cond_wait                            *)
             "woken",    (* signalled, re-acquiring the lock                *)
             "asked",    (* lock broken: found wait_exit_thr_num > 0        *)
             "counting", (* loaded it                                       *)
             "counted",  (* stored it, less one                             *)
             "retiring", (* found live_thr_num > min_thr_num                *)
             "leaving",  (* loaded it                                       *)
             "got",      (* has a task, not counted busy yet                *)
             "running",  (* in the task's function                          *)
             "exiting",  (* in pthread_exit, touches the pool no more       *)
             "dead"}     (* terminated, not replaced                        *)
ClientPC == {"idle", "blocked", "woken", "unlocked", "stored"}
AdjusterPC ==
  {"none", "loop", "sleep", "busy", "grow", "shrink", "signal", "done",
   "live",                        (* lock broken: between its two reads     *)
   "slot", "created", "counted"}  (* and at each point of the growth loop   *)
MainPC == {"create", "run", "joinAdjuster", "broadcast", "join", "freed"}

NoSnap == [queue_size |-> 0, live_thr_num |-> 0, busy_thr_num |-> 0]
NoGrow == [i |-> 0, add |-> 0, live |-> 0]

-----------------------------------------------------------------------------
(* The pool as threadpool_create leaves it before the first pthread_create. *)
(* wait_exit_thr_num and the slots of task_queue are never initialised.     *)
Init ==
  /\ lock = NoOne
  /\ task_queue \in [QSlots -> FreshArgs]
  /\ queue_front = 0 /\ queue_rear = 0 /\ queue_size = 0
  /\ live_thr_num = MinThr /\ busy_thr_num = 0
  /\ wait_exit_thr_num \in FreshWaitExit
  /\ wload = [w \in Slots |-> 0] /\ grow = NoGrow
  /\ shutdown = FALSE
  /\ wpc = [w \in Slots |-> "none"] /\ wtask = [w \in Slots |-> Null]
  /\ cpc = [c \in Clients |-> "idle"] /\ carg = [c \in Clients |-> Null]
  /\ cload = [c \in Clients |-> <<0, 0>>]
  /\ apc = "none" /\ snap = NoSnap /\ asig = 0
  /\ mpc = "create" /\ mi = 0
  /\ aborted = FALSE
  /\ called = {} /\ finished = {} /\ freed = {} /\ late = {}

(* No thread takes a step after free() has killed the process, and none     *)
(* after the pool is freed has a meaning.                                   *)
Alive == ~aborted /\ mpc # "freed"

(* pthread_mutex_lock returns.                                              *)
Free == lock \in {NoOne, Broken}

(* Condition variables.  A signal wakes one waiter if there is one.         *)
WaitingWorkers == {w \in Slots : wpc[w] = "waiting"}

(* Mutant: the signal is forgotten. *)
SignalNobody == UNCHANGED wpc

SignalNotEmpty ==
  \/ WaitingWorkers = {} /\ UNCHANGED wpc
  \/ \E w \in WaitingWorkers : wpc' = [wpc EXCEPT ![w] = "woken"]

BroadcastNotEmpty ==
  wpc' = [w \in Slots |-> IF wpc[w] = "waiting" THEN "woken" ELSE wpc[w]]

(* Mutant: a blocked add is never told of the room. *)
BroadcastNobody == UNCHANGED cpc

BroadcastNotFull ==
  cpc' = [c \in Clients |-> IF cpc[c] = "blocked" THEN "woken" ELSE cpc[c]]

NextIndex(i) == (i + 1) % QueueMax

(* Mutant: off by one. *)
QueueOverFull == queue_size > QueueMax

QueueFull == queue_size = QueueMax

-----------------------------------------------------------------------------
(* threadpool_create: start the minimum of workers, then the adjuster.      *)
CreateWorker ==
  /\ Alive
  /\ mpc = "create" /\ mi < MinThr
  /\ wpc' = [wpc EXCEPT ![mi] = "lock"]
  /\ mi' = mi + 1
  /\ UNCHANGED <<lock, queueVars, countVars, wtask, clientVars, adjusterVars,
                 mpc, shutdown, late, histVars>>

CreateAdjuster ==
  /\ Alive
  /\ mpc = "create" /\ mi = MinThr
  /\ apc' = "loop"
  /\ mpc' = "run" /\ mi' = 0
  /\ UNCHANGED <<lock, queueVars, countVars, workerVars, clientVars, snap,
                 asig, shutdown, late, histVars>>

-----------------------------------------------------------------------------
(* threadpool_add.  The slot at queue_rear still holds the arg of the task  *)
(* that used it a lap ago (or what malloc left there): that arg is freed.   *)
OldArg == task_queue[queue_rear]

StoreTask(t) ==
  /\ freed' = freed \cup ({OldArg} \cap Tasks)
  /\ task_queue' = [task_queue EXCEPT ![queue_rear] = t]

(* From the lock (or the return of pthread_cond_wait) to the unlock.        *)
AddUnderLock(c, t) ==
  /\ Free
  /\ \/ /\ QueueFull /\ ~shutdown      (* wait on queue_not_full *)
        /\ cpc' = [cpc EXCEPT ![c] = "blocked"]
        /\ carg' = [carg EXCEPT ![c] = t]
        /\ UNCHANGED <<lock, queueVars, wpc, aborted, freed>>
     \/ /\ shutdown                                (* unlock, and go on      *)
        /\ lock' = Broken
        /\ cpc' = [cpc EXCEPT ![c] = "unlocked"]
        /\ carg' = [carg EXCEPT ![c] = t]
        /\ UNCHANGED <<queueVars, wpc, aborted, freed>>
     \/ /\ ~QueueFull /\ ~shutdown
        /\ StoreTask(t)
        /\ aborted' = (OldArg = Junk)
        /\ queue_rear' = NextIndex(queue_rear)
        /\ queue_size' = queue_size + 1
        /\ SignalNotEmpty
        /\ cpc' = [cpc EXCEPT ![c] = "idle"]
        /\ carg' = [carg EXCEPT ![c] = Null]
        /\ UNCHANGED <<lock, queue_front>>
  /\ UNCHANGED <<countVars, wtask, cload, adjusterVars, mainVars,
                 finished>>

AddCall(c, t) ==
  /\ Alive
  /\ mpc # "create"
  /\ cpc[c] = "idle" /\ t \notin called
  /\ called' = called \cup {t}
  /\ AddUnderLock(c, t)

AddWake(c) ==
  /\ Alive
  /\ cpc[c] = "woken"
  /\ AddUnderLock(c, carg[c])
  /\ UNCHANGED called

(* An add that found shutdown set carries on with no lock: it stores the    *)
(* task, then updates rear and size from values it may have loaded earlier, *)
(* signals, and unlocks a mutex it does not own, under whoever has entered  *)
(* since.  Two such adds may find the same arg in the slot and both free it. *)
FreedTwice(c) ==
  OldArg # Null /\ \E d \in Clients \ {c} : cpc[d] = "unlocked"

UnlockedStore(c) ==
  /\ Alive
  /\ cpc[c] = "unlocked"
  /\ StoreTask(carg[c])
  /\ aborted' \in {OldArg = Junk, OldArg = Junk \/ FreedTwice(c)}
  /\ cload' = [cload EXCEPT ![c] = <<queue_rear, queue_size>>]
  /\ cpc' = [cpc EXCEPT ![c] = "stored"]
  /\ UNCHANGED <<lock, queue_front, queue_rear, queue_size, countVars,
                 workerVars, carg, adjusterVars, mainVars, called, finished>>

UnlockedPublish(c) ==
  /\ Alive
  /\ cpc[c] = "stored"
  /\ \E rear \in {queue_rear, cload[c][1]}, size \in {queue_size, cload[c][2]} :
       /\ queue_rear' = NextIndex(rear)
       /\ queue_size' = size + 1
  /\ SignalNotEmpty
  /\ lock' = Broken
  /\ cpc' = [cpc EXCEPT ![c] = "idle"]
  /\ carg' = [carg EXCEPT ![c] = Null]
  /\ cload' = [cload EXCEPT ![c] = <<0, 0>>]
  /\ UNCHANGED <<task_queue, queue_front, countVars, wtask, adjusterVars,
                 mainVars, histVars>>

-----------------------------------------------------------------------------
(* threadpool_thread.                                                       *)
(* Mutant: queue_front is not advanced. *)
TakeSameTask(w) ==
  /\ wtask' = [wtask EXCEPT ![w] = task_queue[queue_front]]
  /\ queue_size' = queue_size - 1
  /\ BroadcastNotFull
  /\ wpc' = [wpc EXCEPT ![w] = "got"]
  /\ UNCHANGED <<lock, task_queue, queue_front, queue_rear>>

TakeTask(w) ==
  /\ wtask' = [wtask EXCEPT ![w] = task_queue[queue_front]]
  /\ queue_front' = NextIndex(queue_front)
  /\ queue_size' = queue_size - 1
  /\ BroadcastNotFull
  /\ wpc' = [wpc EXCEPT ![w] = "got"]
  /\ UNCHANGED <<lock, task_queue, queue_rear>>

(* Mutant: the loop condition forgets shutdown. *)
MustWaitRegardless == queue_size = 0

MustWait == queue_size = 0 /\ ~shutdown

(* The while condition, and what follows it up to the unlock.               *)
TestQueue(w) ==
  \/ /\ MustWait
     /\ lock' = w
     /\ wpc' = [wpc EXCEPT ![w] = "towait"]
     /\ UNCHANGED <<queueVars, wtask, cpc>>
  \/ /\ ~MustWait /\ shutdown
     /\ wpc' = [wpc EXCEPT ![w] = "exiting"]
     /\ UNCHANGED <<lock, queueVars, wtask, cpc>>
  \/ /\ ~MustWait /\ ~shutdown
     /\ TakeTask(w)

WorkerLock(w) ==
  /\ Alive
  /\ wpc[w] = "lock" /\ Free
  /\ TestQueue(w)
  /\ UNCHANGED <<countVars, carg, cload, adjusterVars, mainVars, histVars>>

(* pthread_cond_wait: release the lock and start to wait, atomically.       *)
WorkerWait(w) ==
  /\ Alive
  /\ wpc[w] = "towait"
  /\ lock' = NoOne
  /\ wpc' = [wpc EXCEPT ![w] = "waiting"]
  /\ UNCHANGED <<queueVars, countVars, wtask, clientVars, adjusterVars,
                 mainVars, histVars>>

(* Mutant: the minimum is not checked. *)
MayRetireRegardless == wait_exit_thr_num > 0

MayRetire == wait_exit_thr_num > 0 /\ live_thr_num > MinThr

(* The return of pthread_cond_wait: retire if asked to and allowed to, or   *)
(* test the loop condition again.                                           *)
WorkerRetire(w) ==
  /\ Alive
  /\ wpc[w] = "woken" /\ lock = NoOne
  /\ MayRetire
  /\ wait_exit_thr_num' = wait_exit_thr_num - 1
  /\ live_thr_num' = live_thr_num - 1
  /\ wpc' = [wpc EXCEPT ![w] = "exiting"]
  /\ UNCHANGED <<lock, queueVars, busy_thr_num, tornVars, wtask, clientVars,
                 adjusterVars, mainVars, histVars>>

WorkerRetest(w) ==
  /\ Alive
  /\ wpc[w] = "woken" /\ lock = NoOne
  /\ ~MayRetire
  /\ wait_exit_thr_num' = IF wait_exit_thr_num > 0
                          THEN wait_exit_thr_num - 1 ELSE wait_exit_thr_num
  /\ TestQueue(w)
  /\ UNCHANGED <<live_thr_num, busy_thr_num, tornVars, carg, cload,
                 adjusterVars, mainVars, histVars>>

(* The same with the lock broken.  Another woken worker, or the adjuster,   *)
(* may come between any two of these, and the stores at the decrements may  *)
(* be of values loaded before.  The loop condition that follows finds       *)
(* shutdown set.                                                            *)
WorkerAsk(w) ==
  /\ wpc[w] = "woken" /\ lock = Broken
  /\ wpc' = [wpc EXCEPT ![w] = IF wait_exit_thr_num > 0 THEN "asked" ELSE "exiting"]
  /\ UNCHANGED countVars

WorkerLoad(w) ==
  \/ /\ wpc[w] = "asked"
     /\ wload' = [wload EXCEPT ![w] = wait_exit_thr_num]
     /\ wpc' = [wpc EXCEPT ![w] = "counting"]
     /\ UNCHANGED <<live_thr_num, busy_thr_num, wait_exit_thr_num, grow>>
  \/ /\ wpc[w] = "retiring"
     /\ wload' = [wload EXCEPT ![w] = live_thr_num]
     /\ wpc' = [wpc EXCEPT ![w] = "leaving"]
     /\ UNCHANGED <<live_thr_num, busy_thr_num, wait_exit_thr_num, grow>>

WorkerTestLive(w) ==
  /\ wpc[w] = "counted"
  /\ wpc' = [wpc EXCEPT ![w] = IF live_thr_num > MinThr THEN "retiring" ELSE "exiting"]
  /\ UNCHANGED countVars

WorkerStore(w) ==
  \/ /\ wpc[w] = "counting"
     /\ wait_exit_thr_num' = wload[w] - 1
     /\ wload' = [wload EXCEPT ![w] = 0]
     /\ wpc' = [wpc EXCEPT ![w] = "counted"]
     /\ UNCHANGED <<live_thr_num, busy_thr_num, grow>>
  \/ /\ wpc[w] = "leaving"
     /\ live_thr_num' = wload[w] - 1
     /\ wload' = [wload EXCEPT ![w] = 0]
     /\ wpc' = [wpc EXCEPT ![w] = "exiting"]
     /\ UNCHANGED <<wait_exit_thr_num, busy_thr_num, grow>>

WorkerTorn(w) ==
  /\ Alive
  /\ WorkerAsk(w) \/ WorkerLoad(w) \/ WorkerTestLive(w) \/ WorkerStore(w)
  /\ UNCHANGED <<lock, queueVars, wtask, clientVars, adjusterVars, mainVars,
                 histVars>>

WorkerStart(w) ==
  /\ Alive
  /\ wpc[w] = "got"
  /\ busy_thr_num' = busy_thr_num + 1
  /\ wpc' = [wpc EXCEPT ![w] = "running"]
  /\ UNCHANGED <<lock, queueVars, live_thr_num, wait_exit_thr_num, tornVars,
                 wtask, clientVars, adjusterVars, mainVars, histVars>>

WorkerFinish(w) ==
  /\ Alive
  /\ wpc[w] = "running"
  /\ busy_thr_num' = busy_thr_num - 1
  /\ finished' = finished \cup {wtask[w]}
  /\ wtask' = [wtask EXCEPT ![w] = Null]
  /\ wpc' = [wpc EXCEPT ![w] = "lock"]
  /\ UNCHANGED <<lock, queueVars, live_thr_num, wait_exit_thr_num, tornVars,
                 clientVars, adjusterVars, mainVars, aborted, called, freed>>

(* The thread's end, which pthread_join and pthread_kill observe.           *)
WorkerTerminate(w) ==
  /\ Alive
  /\ wpc[w] = "exiting"
  /\ wpc' = [wpc EXCEPT ![w] = "dead"]
  /\ UNCHANGED <<lock, queueVars, countVars, wtask, clientVars, adjusterVars,
                 mainVars, histVars>>

(* pthread_cond_wait may return without a signal.                           *)
SpuriousWake ==
  /\ Alive
  /\ \/ /\ \E w \in WaitingWorkers : wpc' = [wpc EXCEPT ![w] = "woken"]
        /\ UNCHANGED cpc
     \/ /\ \E c \in Clients : /\ cpc[c] = "blocked"
                              /\ cpc' = [cpc EXCEPT ![c] = "woken"]
        /\ UNCHANGED wpc
  /\ UNCHANGED <<lock, queueVars, countVars, wtask, carg, cload,
                 adjusterVars, mainVars, histVars>>

-----------------------------------------------------------------------------
(* adjust_thread.  Every decision is made on the values in snap, which were *)
(* read in two sections and may be stale when the decision is carried out.  *)
AdjustTest ==
  /\ Alive
  /\ apc = "loop"
  /\ apc' = IF shutdown THEN "done" ELSE "sleep"
  /\ UNCHANGED <<lock, queueVars, countVars, workerVars, clientVars, snap,
                 asig, mainVars, histVars>>

AdjustReadCounts ==
  /\ Alive
  /\ apc = "sleep" /\ lock = NoOne
  /\ snap' = [snap EXCEPT !.queue_size = queue_size,
                          !.live_thr_num = live_thr_num]
  /\ apc' = "busy"
  /\ UNCHANGED <<lock, queueVars, countVars, workerVars, clientVars, asig,
                 mainVars, histVars>>

AdjustReadBusy ==
  /\ Alive
  /\ apc = "busy"
  /\ snap' = [snap EXCEPT !.busy_thr_num = busy_thr_num]
  /\ apc' = "grow"
  /\ UNCHANGED <<lock, queueVars, countVars, workerVars, clientVars, asig,
                 mainVars, histVars>>

WantsGrow == snap.queue_size >= MinWaitTask /\ snap.live_thr_num < MaxThr
WantsShrink == /\ snap.busy_thr_num * 2 < snap.live_thr_num
               /\ snap.live_thr_num > MinThr

(* Mutant: is_thread_alive is not asked. *)
VacantUnchecked == Slots

(* The slots the for loop fills, lowest index first: never used, or holding *)
(* a thread that is_thread_alive reports gone.                              *)
Vacant == {w \in Slots : wpc[w] = "none" \/ (KillSeesExit /\ wpc[w] = "dead")}

(* Mutant: the slots are not filled from the lowest index. *)
FillableAnywhere(S) ==
  /\ S \subseteq Vacant
  /\ Cardinality(S) <= ThreadVary
  /\ live_thr_num + Cardinality(S) <= MaxThr

Fillable(S) ==
  /\ S \subseteq Vacant
  /\ \A v \in Vacant \ S, w \in S : w < v
  /\ Cardinality(S) <= ThreadVary
  /\ live_thr_num + Cardinality(S) <= MaxThr

AdjustGrow ==
  /\ Alive
  /\ apc = "grow" /\ WantsGrow /\ lock = NoOne
  /\ \E S \in SUBSET Slots :
       /\ Fillable(S)
       /\ \/ S = Vacant
          \/ Cardinality(S) = ThreadVary
          \/ live_thr_num + Cardinality(S) = MaxThr
       /\ wpc' = [w \in Slots |-> IF w \in S THEN "lock" ELSE wpc[w]]
       /\ live_thr_num' = live_thr_num + Cardinality(S)
  /\ apc' = "shrink"
  /\ UNCHANGED <<lock, queueVars, busy_thr_num, wait_exit_thr_num, tornVars,
                 wtask, clientVars, snap, asig, mainVars, histVars>>

AdjustSkipGrow ==
  /\ Alive
  /\ apc = "grow" /\ ~WantsGrow
  /\ apc' = "shrink"
  /\ UNCHANGED <<lock, queueVars, countVars, workerVars, clientVars, snap,
                 asig, mainVars, histVars>>

AdjustShrink ==
  /\ Alive
  /\ apc = "shrink" /\ WantsShrink /\ Free
  /\ wait_exit_thr_num' = ThreadVary
  /\ apc' = "signal" /\ asig' = ThreadVary
  /\ snap' = NoSnap
  /\ UNCHANGED <<lock, queueVars, live_thr_num, busy_thr_num, tornVars,
                 workerVars, clientVars, mainVars, histVars>>

AdjustSkipShrink ==
  /\ Alive
  /\ apc = "shrink" /\ ~WantsShrink
  /\ apc' = "loop"
  /\ snap' = NoSnap
  /\ UNCHANGED <<lock, queueVars, countVars, workerVars, clientVars, asig,
                 mainVars, histVars>>

(* The signals that follow are sent without the lock, one by one.           *)
AdjustSignal ==
  /\ Alive
  /\ apc = "signal"
  /\ SignalNotEmpty
  /\ asig' = asig - 1
  /\ apc' = IF asig = 1 THEN "loop" ELSE "signal"
  /\ UNCHANGED <<lock, queueVars, countVars, wtask, clientVars, snap,
                 mainVars, histVars>>

(* The reads of the counts and the growth loop with the lock broken.        *)
AdjustReadSize ==
  /\ apc = "sleep" /\ lock = Broken
  /\ snap' = [snap EXCEPT !.queue_size = queue_size]
  /\ apc' = "live"
  /\ UNCHANGED <<wpc, live_thr_num, grow>>

AdjustReadLive ==
  /\ apc = "live"
  /\ snap' = [snap EXCEPT !.live_thr_num = live_thr_num]
  /\ apc' = "busy"
  /\ UNCHANGED <<wpc, live_thr_num, grow>>

AdjustEnterLoop ==
  /\ apc = "grow" /\ WantsGrow /\ lock = Broken
  /\ apc' = "slot"
  /\ UNCHANGED <<wpc, live_thr_num, grow, snap>>

MoreSlots == grow.i < MaxThr /\ grow.add < ThreadVary /\ live_thr_num < MaxThr

AdjustSlot ==
  /\ apc = "slot"
  /\ \/ /\ MoreSlots /\ grow.i \in Vacant
        /\ wpc' = [wpc EXCEPT ![grow.i] = "lock"]
        /\ apc' = "created" /\ UNCHANGED grow
     \/ /\ MoreSlots /\ grow.i \notin Vacant
        /\ grow' = [grow EXCEPT !.i = grow.i + 1]
        /\ UNCHANGED <<apc, wpc>>
     \/ /\ ~MoreSlots
        /\ apc' = "shrink" /\ grow' = NoGrow
        /\ UNCHANGED wpc
  /\ UNCHANGED <<live_thr_num, snap>>

AdjustLoad ==
  /\ apc = "created"
  /\ grow' = [grow EXCEPT !.live = live_thr_num]
  /\ apc' = "counted"
  /\ UNCHANGED <<wpc, live_thr_num, snap>>

AdjustStore ==
  /\ apc = "counted"
  /\ live_thr_num' = grow.live + 1
  /\ grow' = [i |-> grow.i + 1, add |-> grow.add + 1, live |-> 0]
  /\ apc' = "slot"
  /\ UNCHANGED <<wpc, snap>>

AdjusterTorn ==
  /\ Alive
  /\ \/ AdjustReadSize \/ AdjustReadLive \/ AdjustEnterLoop
     \/ AdjustSlot \/ AdjustLoad \/ AdjustStore
  /\ UNCHANGED <<lock, queueVars, busy_thr_num, wait_exit_thr_num, wload,
                 wtask, clientVars, asig, mainVars, histVars>>

-----------------------------------------------------------------------------
(* The adds of the client have all returned; main adds, sleeps and then     *)
(* destroys the pool.                                                       *)
AddsOver == called = Tasks /\ \A c \in Clients : cpc[c] = "idle"

(* threadpool_destroy.  shutdown is stored without the lock; the loops read *)
(* live_thr_num without it, on every iteration.                             *)
DestroyStart ==
  /\ Alive
  /\ mpc = "run"
  /\ DestroyAfterAdds => AddsOver
  /\ shutdown' = TRUE
  /\ late' = {w \in Slots : wpc[w] = "towait"}
  /\ mpc' = "joinAdjuster"
  /\ UNCHANGED <<lock, queueVars, countVars, workerVars, clientVars,
                 adjusterVars, mi, histVars>>

DestroyJoinAdjuster ==
  /\ Alive
  /\ mpc = "joinAdjuster" /\ apc = "done"
  /\ mpc' = "broadcast"
  /\ UNCHANGED <<lock, queueVars, countVars, workerVars, clientVars,
                 adjusterVars, mi, shutdown, late, histVars>>

DestroyBroadcast ==
  /\ Alive
  /\ mpc = "broadcast"
  /\ \/ /\ mi < live_thr_num
        /\ BroadcastNotEmpty
        /\ mi' = mi + 1 /\ UNCHANGED mpc
     \/ /\ mi >= live_thr_num
        /\ mpc' = "join" /\ mi' = 0 /\ UNCHANGED wpc
  /\ UNCHANGED <<lock, queueVars, countVars, wtask, clientVars, adjusterVars,
                 shutdown, late, histVars>>

(* Mutant: the worker is not waited for. *)
DestroyPassWorker ==
  /\ Alive
  /\ mpc = "join" /\ mi < live_thr_num
  /\ mi' = mi + 1
  /\ UNCHANGED <<lock, queueVars, countVars, workerVars, clientVars,
                 adjusterVars, mpc, shutdown, late, histVars>>

DestroyJoinWorker ==
  /\ Alive
  /\ mpc = "join" /\ mi < live_thr_num
  /\ wpc[mi] = "dead"
  /\ mi' = mi + 1
  /\ UNCHANGED <<lock, queueVars, countVars, workerVars, clientVars,
                 adjusterVars, mpc, shutdown, late, histVars>>

(* threadpool_free: takes the lock, destroys it and frees the pool.         *)
DestroyFree ==
  /\ Alive
  /\ mpc = "join" /\ mi >= live_thr_num
  /\ Free
  /\ mpc' = "freed" /\ mi' = 0
  /\ UNCHANGED <<lock, queueVars, countVars, workerVars, clientVars,
                 adjusterVars, shutdown, late, histVars>>

-----------------------------------------------------------------------------
Worker(w) ==
  \/ WorkerLock(w)
  \/ WorkerWait(w)
  \/ WorkerRetire(w)
  \/ WorkerRetest(w)
  \/ WorkerTorn(w)
  \/ WorkerStart(w)
  \/ WorkerFinish(w)
  \/ WorkerTerminate(w)

Client(c) ==
  \/ \E t \in Tasks : AddCall(c, t)
  \/ AddWake(c)
  \/ UnlockedStore(c)
  \/ UnlockedPublish(c)

Adjuster ==
  \/ AdjustTest
  \/ AdjustReadCounts
  \/ AdjustReadBusy
  \/ AdjustGrow
  \/ AdjustSkipGrow
  \/ AdjustShrink
  \/ AdjustSkipShrink
  \/ AdjustSignal
  \/ AdjusterTorn

Destroyer ==
  \/ CreateWorker
  \/ CreateAdjuster
  \/ DestroyStart
  \/ DestroyJoinAdjuster
  \/ DestroyBroadcast
  \/ DestroyJoinWorker
  \/ DestroyFree

Next ==
  \/ \E w \in Slots : Worker(w)
  \/ \E c \in Clients : Client(c)
  \/ Adjuster
  \/ Destroyer
  \/ SpuriousWake

Spec == Init /\ [][Next]_vars

(* Every thread that can run keeps being scheduled, and spurious wake-ups,  *)
(* owed to nobody, do not go on for ever.                                   *)
Fairness ==
  /\ \A w \in Slots : WF_vars(Worker(w))
  /\ \A c \in Clients : WF_vars(Client(c))
  /\ WF_vars(Adjuster)
  /\ WF_vars(Destroyer)
  /\ <>[][~SpuriousWake]_vars

FairSpec == Spec /\ Fairness

-----------------------------------------------------------------------------
TypeOK ==
  /\ lock \in Slots \cup {NoOne, Broken}
  /\ task_queue \in [QSlots -> Tasks \cup {Null, Junk}]
  /\ queue_front \in QSlots /\ queue_rear \in QSlots /\ queue_size \in Int
  /\ live_thr_num \in Int /\ busy_thr_num \in Int /\ wait_exit_thr_num \in Int
  /\ wload \in [Slots -> Int] /\ grow \in [i : Nat, add : Nat, live : Int]
  /\ shutdown \in BOOLEAN /\ aborted \in BOOLEAN
  /\ wpc \in [Slots -> WorkerPC]
  /\ wtask \in [Slots -> Tasks \cup {Null, Junk}]
  /\ cpc \in [Clients -> ClientPC]
  /\ carg \in [Clients -> Tasks \cup {Null}]
  /\ cload \in [Clients -> QSlots \X Int]
  /\ apc \in AdjusterPC /\ asig \in Nat
  /\ snap \in [queue_size : Int, live_thr_num : Int, busy_thr_num : Int]
  /\ mpc \in MainPC /\ mi \in Nat
  /\ called \subseteq Tasks
  /\ finished \subseteq Tasks \cup {Null, Junk}
  /\ freed \subseteq Tasks
  /\ late \subseteq Slots

-----------------------------------------------------------------------------
(* Workers that are part of the pool: created, not on their way out.        *)
InPool == {w \in Slots : wpc[w] \notin {"none", "exiting", "dead"}}
NotYetCreated == IF mpc = "create" THEN MinThr - mi ELSE 0

(* Workers in pthread_cond_wait, or between it and the end of the section   *)
(* that follows it.                                                         *)
Sleepy == {w \in Slots : wpc[w] \in {"towait", "waiting", "woken", "asked",
                                     "counting", "counted", "retiring", "leaving"}}

(* The waiting tasks, oldest first.                                         *)
QueueContent ==
  [i \in 1 .. queue_size |-> task_queue[(queue_front + i - 1) % QueueMax]]

(* live_thr_num, which retirement, growth and the join loop rely on, counts *)
(* the workers in the pool although creation, growth and retirement update  *)
(* it apart from the threads' own steps; after shutdown, where leaving      *)
(* workers do not update it, it never falls below their number, as long as  *)
(* no add goes on without the lock.  With the lock broken updates are lost, *)
(* but not so that fewer are counted than sleep or are back from sleep.     *)
LiveCount ==
  LET n == Cardinality(InPool) + NotYetCreated
  IN IF ~shutdown THEN live_thr_num = n
     ELSE live_thr_num >= IF lock = Broken THEN Cardinality(Sleepy) ELSE n

(* Growth and retirement decide on stale reads, yet the size of the pool    *)
(* stays between min_thr_num and max_thr_num; below the minimum it comes    *)
(* only when an add has broken the lock and two workers retire at once, and *)
(* not even then does it exceed the maximum.                                *)
LiveBounds == /\ live_thr_num <= MaxThr
              /\ lock # Broken => MinThr <= live_thr_num

(* Every slot that threadpool_destroy passes to pthread_join, whatever      *)
(* growth and retirement did before, holds a thread that was created; not   *)
(* so where pthread_kill reports an exited thread as gone, because growth   *)
(* after shutdown then counts the same slot twice.                          *)
JoinTargetsExist ==
  (mpc = "join" /\ ~KillSeesExit)
    => \A w \in 0 .. live_thr_num - 1 : wpc[w] # "none"

(* Whatever malloc left in the slots, and although adds after shutdown      *)
(* write them without the lock, a worker only ever runs what somebody       *)
(* passed to threadpool_add, and nothing twice.                             *)
RunsOnlyAdded ==
  LET busy == {w \in Slots : wtask[w] # Null}
      held == {wtask[w] : w \in busy}
  IN /\ finished \cup held \subseteq called
     /\ finished \cap held = {} /\ Cardinality(held) = Cardinality(busy)

(* threadpool_free runs only when no worker will touch the pool again.      *)
NoUseAfterFree == mpc = "freed" => InPool = {}

(* A waiting task is never left to workers that all sleep.                  *)
NoStuckTask ==
  (~shutdown /\ mpc # "create" /\ queue_size > 0)
    => \E w \in InPool : wpc[w] # "waiting"

(* A worker that sleeps through destroy's broadcasts is one that had tested *)
(* the loop condition, and not begun to wait, when shutdown was stored.     *)
SleepsOnlyIfLate ==
  mpc = "join" => \A w \in Slots : wpc[w] = "waiting" => w \in late

(* threadpool_add frees the arg it finds in the slot it overwrites: only    *)
(* ever that of a task some worker has taken (who may still be running it). *)
FreedWereTaken == freed \subseteq finished \cup {wtask[w] : w \in Slots}

(* The pool is a bounded FIFO that starts each task at most once, in order, *)
(* and none after shutdown.                                                 *)
Abstract == INSTANCE TaskQueue WITH
  Capacity <- QueueMax,
  queue <- QueueContent,
  running <- {wtask[w] : w \in {v \in Slots : wtask[v] # Null}},
  closed <- shutdown
ImplementsTaskQueue == Abstract!Spec

(* Every task that is added is run to its end, unless the pool shuts down.  *)
EveryTaskServed ==
  \A t \in Tasks : (t \in called) ~> (t \in finished \/ shutdown)

(* A threadpool_add that waits for room in the queue gets it.               *)
BlockedAddReturns ==
  \A c \in Clients : (cpc[c] # "idle") ~> (cpc[c] = "idle")

(* threadpool_destroy returns.                                              *)
DestroyReturns == shutdown ~> (mpc = "freed")

(* It does if no worker was between its test and its wait when shutdown was *)
(* stored.                                                                  *)
DestroyReturnsUnlessLate == [](late = {}) => DestroyReturns
=============================================================================
