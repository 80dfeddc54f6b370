# A verification of FightingForOffer's concurrent programs

The repository collects study notes and the small C and C++ programs that go
with them. The programs are real: they run threads, fork processes, wait on
condition variables, semaphores and signals, and serve sockets. This directory
models them in TLA+ and checks the models with TLC on small instances. For every
value of the constants TLAPS proves every safety invariant that the passing runs
check, and the refinements.

Paths below are relative to `src/`; `net/` stands for `Linux/网络编程/code/` and
`sys/` for `Linux/系统编程/CODE/`.

## The system

| part | source | state | operations | what makes it correct |
|---|---|---|---|---|
| thread pool | `net/多路IO转接模型/threadpool/threadpool.cpp` | `threadpool_t`: lock, two condition variables, ring of tasks, counters of live, busy and surplus workers, `shutdown` | create, add, worker loop, adjuster loop, destroy/free | each task runs once, in order; nobody sleeps over work; the size stays in its bounds; destroy returns and frees only when nobody is left |
| epoll reactor | `net/多路IO转接模型/epoll/epoll_loop.cpp` | `g_efd`, `g_events[]` (fd, events, callback, status, buffer, last_active) | eventset, eventadd, eventdel, acceptconn, recvdata, senddata, timeout scan | the table agrees with the kernel; no descriptor is lost; events are about the connection they were reported for; each client gets its own data back |
| poll server | `net/多路IO转接模型/poll/server.c` | `client[]`, `maxi`, `nready` | accept, read/echo, close | every connection is watched; no call but `poll` waits for a client to send; echo |
| select server | `net/多路IO转接模型/select/server.c` | `client[]`, `allset`, `rset`, `maxfd`, `maxi`, `nready` | accept, read/echo, close | the same |
| thread-per-connection server | `net/多线程并发/server.c` | `ts[256]`, `i` | accept, `do_work` | a thread keeps to its connection; nothing leaks |
| process-per-connection server | `net/多进程并发/server.c` | children, SIGCHLD | accept, fork, `catch_child` | who holds a connection; children are reaped |
| wrappers | `wrap.c`, `wrap.cpp` in each server's directory | `my_read`'s static buffer | Accept, Read, Write, Readn, Writen, Readline | nothing lost or repeated under short counts and EINTR |
| producer/consumer | `sys/p_c_model.c` | a list, a mutex, a condition variable | producer, consumer | no node is lost or consumed twice; consumers do not sleep over a node |
| service hall | `sys/sem_pthread.c` | a semaphore of two windows, a number on `main`'s stack all threads read | create and join, customer | everybody is served and the program ends; nobody reads the number of an earlier customer |
| child reaper | `sys/catch_child.c` | children, signal mask, pending SIGCHLD | fork, install, unblock, handler | no child stays a zombie |
| String | `code/string.h` | `m_data`, the heap | constructor, copy, assignment, destructor | each object owns its buffer; nothing freed is used |
| complex | `code/complex.h` | two doubles | compound and binary operators, comparisons, `conj`, `norm` | the forms of an operator agree, for aliased arguments too |
| daemon | `sys/session.c` | session, file descriptors | `mydaemon` | not modelled |
| first client and server | `net/简单CS模型/` | one connection | echo | not modelled |
| Graph, MySQL client and schema, empty select client | `code/Graph.cpp`, `code/mysqltest/`, `MySQL/`, `net/多路IO转接模型/select/client.c` | | | not modelled |

The parts do not call each other: each program is linked alone with its own
copy of the wrappers. What interacts is inside a program: the threads of the
pool, the callbacks of the reactor with the kernel's table of registrations,
parent, children and signals, and the peers on the other side of a socket. The
hard behaviours are listed one by one, at their lines, under `hazards` in
`PROJECT.json`.

## The modules

| module | what it is | used by |
|---|---|---|
| `TaskQueue` | abstract: a bounded FIFO of tasks | `ThreadPool` implements it |
| `ThreadPool`, `MCThreadPool` | `threadpool.cpp` | |
| `ThreadPoolProofs` | theorems about `ThreadPool` | |
| `EpollLoopProofs` | theorems about `EpollLoop` | |
| `StreamClientsProofs` | lemmas about the calls and the clients | the proofs about the four servers extend it |
| `PollServerProofs`, `SelectServerProofs`, `ThreadServerProofs`, `ProcServerProofs` | theorems about the four servers | |
| `ExercisesProofs` | theorems about the five programs of `MCExercises`, and about `Wrap` as `MCWrap` runs it | |
| `EchoService` | abstract: an echo service per connection | the reactor and the poll, select and thread servers implement it |
| `EpollLoop`, `MCEpollLoop` | `epoll_loop.cpp`, the kernel's side of epoll, clients | |
| `StreamClients` | the calls of `wrap.c` on sockets, and clients | the four servers extend it |
| `PollServer`, `SelectServer`, `ThreadServer`, `ProcServer` and their `MC` modules | the four servers | |
| `Wrap`, `MCWrap` | `Writen`, `Readn`, `Readline`, `my_read` | |
| `PCModel`, `ServiceHall`, `CatchChild`, `StringObjects`, `ComplexNumbers` | `p_c_model.c`, `sem_pthread.c`, `catch_child.c`, `string.h`, `complex.h` | `MCExercises` |
| `MCExercises` | the five, each started alone | |

Mutants, operators whose comment begins with "Mutant:", are plausible mistakes in
the code. Each replaces the definition after it in a test of the properties;
no specification uses one.

## Thread pool

`TaskQueue` is the promise: a bounded FIFO whose tasks are started at most once,
in order, and not after it is closed. `ThreadPool` is the code.

| code | model |
|---|---|
| `pool->lock` | `lock`: the worker that owns it, `NoOne`, or `Broken` (below) |
| `task_queue[].arg`, `queue_front/rear/size` | the same names; the function pointer is left out |
| `live_thr_num`, `busy_thr_num`, `wait_exit_thr_num`, `shutdown` | the same names |
| `threads[i]` and that thread | slot `i`: `wpc[i]`, `wtask[i]` |
| a thread inside `threadpool_add` | a client: `cpc`, `carg`, `cload` |
| `adjust_thread`, its locals | `apc`, `snap`, `asig`, `grow` |
| a counter loaded, not yet stored | `wload`, `grow.live` |
| the thread in create/destroy | `mpc`, `mi` (the loop variable) |

As long as the lock is sound a critical section is one step, because nothing else
under the same lock can observe its middle, with one exception that the code makes
observable. A worker that has tested the loop condition and is about to call
`pthread_cond_wait` is in a state of its own (`towait`): `threadpool_destroy`
stores `shutdown` without the lock and can do so exactly there.

An add that finds `shutdown` set unlocks and *falls through* (lines 117-119): from
there it is modelled access by access (`UnlockedStore`, `UnlockedPublish`), with
stale loads of `queue_rear` and `queue_size`. Two such adds may load the same slot
and free the same old arg; `FreedTwice` is that case, and the allocator may then
end the process (`aborted`) or not. At its end such an add unlocks again (line 133),
and frees the mutex under whoever owns it, whose own unlock does the same to the
next. From the first such add on the mutex is `Broken` and excludes nobody. The
sections that touch more than one thing that still changes then come apart into
their reads and writes: lines 149-160 of a woken worker (`WorkerTorn`: the tests, and
a load and a store for each decrement), the adjuster's two reads and its growth
loop (`AdjusterTorn`: slot, thread, load, store). So two workers may both find one
worker to spare and both leave, and the adjuster's `live_thr_num++` may overwrite a
worker's `live_thr_num--`. The other sections read and write one thing once
`shutdown` is set, and stay one step. Waiting on a condition variable includes
spurious wake-ups. A signal wakes one waiter.

What the build decides is a constant or a choice: what `malloc` leaves in the
queue's slots (`FreshArgs`; a junk arg makes the first lap's `free` abort), what
`new` leaves in `wait_exit_thr_num` (`FreshWaitExit`: negative, zero or positive), and whether `pthread_kill`
reports an exited, unjoined thread as gone (`KillSeesExit`). `DestroyAfterAdds`
says that the caller, like `main`, destroys the pool only after its adds returned.
`main`'s sizes (3, 100, 100) and the constants `MIN_WAIT_TASK_NUM` and
`DEFAULT_THREAD_VARY` (10) are scaled down to 1..3 threads, a queue of one or
two, a threshold of 1 and a step of 1 or 2; the tasks wrap the queue, block the
adders and let the pool grow and shrink.

`CHECK_DEADLOCK FALSE` is set in these runs: a pool that was freed, a process
that died in `free()` and a destroy that hangs all stop, and the first is how the
program ends.

### Runs of the pool

| run | bounds | shows |
|---|---|---|
| `PoolEarly` | 1..2 workers, step 2, exited threads replaced, 2 clients, 3 tasks, queue of 2, any garbage in the slots, destroy at any moment | whatever `malloc` left in the slots, a worker runs only what was added, and nothing twice (`RunsOnlyAdded`); the size of the pool keeps to its bounds and its count is right, although the adjuster decides on stale counts; only the lost wake-up sleeps through destroy. With the lock broken, the size may fall below its minimum and `live_thr_num` below the number of workers, but the first does not exceed the maximum, nor the second fall below the number that sleep; the rest holds as it stands |
| `PoolOrderly` | 1..3 workers, step 1, exited threads not replaced, 2 clients, 3 tasks, queue of 2, destroy after the adds | every slot joined holds a thread, whatever holes retirement leaves and although the adjuster grows on stale counts, after `shutdown` too; no queued task loses its arg; the pool implements `TaskQueue` |
| `PoolLive` | 2 workers, 2 clients, 2 tasks, queue of 1 | no task stuck while all sleep; no worker uses a freed pool; every task is served, blocked adds return, destroy returns unless a worker was late |
| `PoolDestroyHang` | as `PoolLive` | violated: `threadpool_destroy` may not return |

Three tasks on a queue of two wrap the ring, so the `free` of a reused slot
happens; a queue of one blocks an adder; two clients are enough for one to break the
lock while the other is in the middle of its add, two workers to retire at once;
three slots with a step of one make the pool grow, shrink and leave a hole. More of
anything repeats these cases. In `PoolEarly` and `PoolOrderly` clients, and tasks, are
interchangeable and the runs use that symmetry.

The fairness of `PoolLive` is weak fairness of every worker, client, of the
adjuster and of the destroyer (the operating system runs a thread that can run),
and that spurious wake-ups do not go on for ever. No fairness is assumed of the
mutex: with finitely many tasks no thread contends for it indefinitely.

What does *not* hold, and so is stated only where it does: once an add has broken the
lock, `live_thr_num` may fall below `min_thr_num` and below the number of workers
(`LiveBounds` and `LiveCount` say what is left of them). In a pool that may
shrink, a retired worker may swallow the signal of a new task (`NoStuckTask`
needs `MinThr = MaxThr`), and destroy joins the slots below `live_thr_num`, not the
threads that live, so a worker in a higher slot may outlive the pool
(`NoUseAfterFree` likewise). Growth after shutdown may count a slot twice when
exited threads are seen as gone; `pthread_join` then receives a zero
`pthread_t` (`JoinTargetsExist` excludes that case by its premise). An add
blocked when destroy begins is never woken, so `BlockedAddReturns` is checked
with `DestroyAfterAdds`. The arg of a task that still runs may be freed by the
add that reuses its slot one lap later; `FreedWereTaken` says only that a task in
the queue keeps its arg.

The one violation is a disagreement of the code with its own test: `main` calls
`threadpool_destroy` and then returns, and the call may not come back, because
line 238 stores `shutdown` without the lock. `DestroyReturnsUnlessLate` and the
theorem `OnlyLateSleep` say that this is the only way.

### Proofs

`ThreadPoolProofs` proves, for all sizes, clients and tasks:

- `TypeCorrect`: `TypeOK`, strengthened by the fact that `asig` is positive while
  signals are left to send. (No run lists `TypeOK` among its properties: the theorem
  covers it.)
  It includes `BrokenInv`: the lock is broken only after shutdown, a worker about
  to wait owns it, and only with the lock broken is anybody in the middle of
  another section.
- `LiveBoundsAlways`: growth and retirement each test their bound in the section
  that changes the counter, so the stale counts of the adjuster do no harm. With the
  lock broken the maximum stays, because only the adjuster counts up, and whatever
  is loaded meanwhile is within it (`SizeInv`); the minimum does not.
- `OnlyLateSleep`: the invariant `SleepInv` says that after shutdown whoever is
  about to wait is in `late`, and that after the first broadcast whoever waits is.
  At least one broadcast happens while somebody waits, because `live_thr_num` is
  not below the number of those that sleep (`LiveCount`), broken lock or not.
- `FixedPoolNoStuckTask` (for `MinThr = MaxThr`): `FixedInv` says that before
  shutdown nobody leaves, a worker about to wait owns the lock and the queue is
  empty, and no add runs without the lock; hence a task cannot slip in while the
  last worker goes to sleep.
- `FixedPoolNoUseAfterFree` (for `MinThr = MaxThr`): `JoinInv` says that the
  adjuster is gone when the joins begin and every slot below the loop variable is
  dead.
- `RunsOnlyAddedAlways`: `TaskInv` says where a task can be: waiting in the ring, with
  a blocked add, run by a worker, or finished, and in one of these only. The ring
  holds `queue_size` tasks from `queue_front` on. The parts about the ring and the
  blocked adds end with `shutdown`, because adds then write the ring without the lock;
  a worker does not take a task after it, so the part about the workers stays.
- `FreedWereTakenAlways` (for `DestroyAfterAdds`): `SpentInv` says that outside of the
  places of the waiting tasks a slot holds only the arg of a task that was taken.
  That is what `threadpool_add` frees when it reuses the slot. Without the premise an
  add after shutdown may free anything.
- `PoolImplementsTaskQueue` (for `DestroyAfterAdds`): `TaskInv` makes the mapping of the
  ring to a sequence agree with each step: an add appends, a take removes the head,
  a broadcast or a spurious wake-up is a stutter.
- `LiveCountAlways`: a worker enters or leaves the set that is counted only in the
  step that changes `live_thr_num`, or leaves uncounted after shutdown (`Resizes`).
  With the lock broken, `CountInv` adds that a worker that will store a decrement has
  loaded a number that covers the sleepers, itself included (`LoadsCover`): nobody
  goes to sleep after shutdown, so this number only shrinks.
- `JoinTargetsExistAlways`: without `KillSeesExit`, `CreatedInv` says that the slots
  that were ever used have no gap and are at least `live_thr_num`, and at least what
  anybody has loaded of it. The theorem covers an early destroy with the broken
  lock too, which `PoolOrderly` leaves out because of its size.

`MinThr = MaxThr`, `DestroyAfterAdds` and `KillSeesExit` are constants of the model, and
what happens without the premise is told above. Apart from these the theorems
rest on the assumptions named in `ThreadPool` (sizes are positive, the minimum does
not exceed the maximum, the special values are no tasks).

## Epoll reactor

`EpollLoop` has one process, because the program has one thread: a callback is
one step. The clients and the clock move between the steps, in particular
between `epoll_wait` and the callbacks of the events it returned, which is where
an event could reach a slot that serves somebody else by then.

| code | model |
|---|---|
| `g_events[i].fd`, `.events`, `.call_back`, `.status`, `.len` | `fd`, `event`, `call_back`, `status`, `len` |
| `time(NULL) - last_active` | `idle`, which stops growing at `IdleMax + 1` |
| `checkpos` and the local `i` of the scan | `checkpos`, `Scanned` |
| `events[]` after `epoll_wait` | `batch` |
| the interest list, open descriptors, the listen queue | `reg`, `conn`, `backlog` |
| the bytes of `buf` | only their number: `unread`, `len`, `owed` |

`eventset` and `eventadd` always come together and are one operator (`Watch`).
`buf[len] = '\0'` after a full buffer writes into `len`, the member behind `buf`;
with the program's sizes this changes nothing (4096 is a multiple of 256, which
`SizeAssumption` states), and `Terminated` computes it.

| run | bounds | shows |
|---|---|---|
| `EpollTable` | 3 connections, 2 slots, 1 checked per pass, 3 descriptors, everything may time out at once, SIGPIPE | the table agrees with the kernel; a descriptor without an owner is one `acceptconn` found no slot for; events in the batch are never about another connection; the reactor implements `EchoService` if `send` takes all it is given |
| `EpollFull` | 2 connections, 1 descriptor, buffers of 2, `send` may be partial, clients may send for ever, SIGPIPE | what a client with a slot has sent is taken in and answered or dropped, though it may never read; with all descriptors in use the waiting client is accepted in the end, if the other stops sending; unless a signal ended the process |

The fairness is that of the loop (`epoll_wait` has a timeout of a second) and of
the clock. Traffic is endless: `InFlight` bounds how much of a client's data is on its way
at one time, not how often it sends. For `Answered` the clients owe the server
nothing. `BacklogServed` has a premise about them: every transfer renews `last_active`, so a
client that sends more often than every 60 seconds keeps its descriptor for ever, and
whoever waits for that descriptor is never accepted (without the premise TLC shows
this behaviour). Once the others send no more, the timeouts do the work, whether
or not anybody reads or closes.
A `send` that takes less than it is given loses the rest (`senddata` does not look
at how much was sent), which is why the refinement is checked without that case
and `Answered` with it. A connection accepted when the table is full keeps its
descriptor for ever (`lost`). A `send` to a client that reset its connection raises
SIGPIPE, which the program does not handle: `Terminate` ends the process with
every connection (`pc = "ended"`), and the liveness properties have that as an
alternative. Failures of `epoll_ctl` and an interrupted `epoll_wait` are left out.

### Proofs

`EpollLoopProofs` proves `EpollTypeCorrect`, `TableMatchesKernelAlways`,
`DescriptorsOwnedAlways` and `BatchFreshAlways` for every number of slots, descriptors
and connections, from one invariant, `EpollInv`:

- `Registered`: an active entry has its descriptor to itself, the kernel has it as
  the entry remembers, and no other descriptor is registered.
- `Listens`, `Serves`: entry by entry, the callback fits the event. Without this a
  dispatch could call `acceptconn` for a slot.
- `ConnsOnce`: a connection is behind one descriptor at most, one that waits to be
  accepted behind none, and the ones no slot serves are exactly those in `lost`.
- `Batch`: the events of a batch that main has not come to are of active entries, one
  event each, about the connection they were reported for. This is inductive
  because a callback changes no entry but its own and one that was free: `acceptconn`
  takes a slot with status 0, which no event is about. And the timeout scan runs
  before `epoll_wait`, never between it and the callbacks.

`EpollEchoes` is the refinement of `EchoService`, with the premise `~PartialSends`. It
needs `OwesSlot` besides: what a connection is owed is what the buffer of its slot holds,
and nothing while the slot reads. With partial sends the theorem is false, because
`senddata` drops the rest.

## The four servers

`StreamClients` holds what they share: the descriptors of the process, the
clients, and what the wrappers `Accept`, `Read`, `Write` and `Close` do to them. A
read of a connection that was reset fails once with ECONNRESET and returns 0
after that; a write to it fails or, with `SigPipe`, ends the process. A write
waits while the client's window is closed (`room`). The servers add their own
variables and say, operator by operator, what the code does with each result.
`client[0]` of the poll server and the listening socket of the others are folded
into the accept step. Which clients may reset is `Resets`; those send twice,
the others once. That is enough for a connection that is served, answered in
pieces, broken and replaced by another on the same descriptor and slot.

| run | bounds | shows |
|---|---|---|
| `PollThree` | 3 connections, 2 elements, 2 descriptors, buffer of 2, partial writes, one client may reset | an open connection is in one element that `poll` looks at; what the loop reads is ready, although `revents` of a new element is garbage (the count `nready` saves it); an echo service per connection; everybody is answered |
| `SelectThree` | the same with `select`'s sets | table, sets and open descriptors agree; nothing is read that is not ready; an echo service; a connection whose `Read` failed is closed in a later pass though no branch handles it |
| `ThreadThree` | 3 connections, 2 descriptors, `ts` of 2, any initial `i`, `pthread_create` may fail | a thread keeps to its connection though it looks its descriptor up in `main`'s array; only a failed creation leaves a descriptor behind; an echo service |
| `ProcThree` | 3 connections, one of which may reset, `fork` may fail, SIGPIPE | after `fork` only the child keeps the connection; every child is reaped, the first once another has ended or a signal is on its way |

Fairness: the server's threads or processes are scheduled. For `poll` and `select`
also the clients read (`WF` of `PeerRead`): the server writes with a blocking
`Writen`, and one client that never reads stops everybody. This is a limit of
the design, not an assumption the code guarantees, and `Answered` and
`EndedClosed` are properties of servers whose clients behave.

Every server stops on an `accept` without a descriptor (`perr_exit`), on SIGPIPE
or on a full table, so deadlock is not checked, and `down` is an alternative in
the liveness properties. The first child of the process server may stay a
zombie: the handler is installed after the first `fork`, and only the end of a
second child finds it, which `Reaped` says of it (`Noticed`).
`ts[]` is indexed by a variable that nothing initializes
or bounds; the model ends (`down`) at the write outside of the array. When
`pthread_create` failed, `main` detaches the thread that `tid` named before, detached
already and perhaps gone, which may end the process (`Detach`).

The mapping to `EchoService` maps a connection to "reading" or "replying" by the
place of the one that serves it. A step of a write that is not the last maps to
a stutter. `ProcServer` leaves the bytes to the thread server, whose loop is the
same, and keeps what is its own: the processes, who holds which descriptor, and
the signals.

### Proofs

`StreamClientsProofs` has the invariant of what the servers share, `NetInv`: a
connection is first not made, then in the listen queue, then behind one descriptor
at most, and never comes back. Its lemmas say which calls keep it. The others add
what is theirs, for every number of connections, descriptors and elements:

- `PollServerProofs` (`PollTypeCorrect`, `WatchedAllAlways`, `ReadsOnlyReadyAlways`,
  `PollServerEchoes`): in `PollInv`, `Table` says that the elements in use are the open
  descriptors, one each, at or below `maxi`. `Pass` is what makes a read not block:
  `nready` is the number of reported elements that main has not come to, counted
  only up to `maxi` as it was when `poll` filled in the table. So main is back in `poll`
  before it could look at the `revents` of an element it has just added.
- `SelectServerProofs` (`SelectTypeCorrect`, `WatchedAllAlways`, `ReadsOnlyReadyAlways`,
  `SelectServerEchoes`): the same for `fd_set`s. `Watched` says that `allset` is the
  listening socket and the open descriptors, none above `maxfd`. The new connection's
  descriptor is not in `rset`, because before the accept everything in `rset` is open.
- `ThreadServerProofs` (`ThreadTypeCorrect`, `OwnConnectionAlways`,
  `DescriptorsOwnedAlways`, `ThreadServerEchoes`): in `ServerInv`, `ElementsBelow` says that
  the element of `ts` a thread was given lies below `i`, or is `i` until main moves on.
  `accept` therefore never overwrites an element that a thread reads. `Owned` names
  the owner of every descriptor.
- `ProcServerProofs` (`ProcTypeCorrect`, `HeldByChildAlways`,
  `OnlyFirstForgottenAlways`): `ProcInv` says that the
  parent has one connection at most, between `accept` and `close`, and that otherwise a
  connection is held by its own child, as long as that lives. For
  `OnlyFirstForgottenAlways` (a zombie is being reaped or a signal pending, unless it is
  the first child), `NoticedFrom` adds that before the handler is installed
  nobody but the first child exists; from then on SIGCHLD is not discarded, and the
  handler returns only when it has taken every zombie.

In the refinements `OwesNow` and `OwesLast` say that a server owes a client exactly what
it is writing. All of this holds with partial writes, SIGPIPE and resets.

## Wrappers

`Wrap` has a writer that calls `Writen` and a reader that calls `Readn` or `Readline` on
one stream. Units are numbered, so that losing, repeating and reordering show.
`WrapStream` has two frames of three over a stream that holds two, newlines
anywhere, a read buffer of two and lines of at most four: frames and lines cross
the buffers' ends. Short counts, EINTR, errors and both ends giving up are
steps. Fairness: both ends are scheduled, and interrupts do not go on for ever.

`my_read` keeps its buffer in static variables, across calls and across
descriptors; `Lossless` is about one connection read by one of the two functions,
which is what the repository's callers could rely on. `CallsAsPromised` says what a
caller gets: each `Readn` the frame of one `Writen`, short only at the end of the
stream; each `Readline` one line with its newline, or what fits, or what the stream
ended with (the count is one too many for a line that did not fit). Mixing descriptors or
mixing `Readline` with `Readn` loses data; `Wrap` does neither.

### Proofs

The last part of `ExercisesProofs` proves `WrapTypeCorrect`, `LosslessAlways` and
`CallsAsPromisedAlways` for frames, streams, buffers and lines of any length, wherever the
newlines are. The assumption is `WrapAssumption`: the lengths are positive, and a line has
room for a character and the 0. The invariant `StreamInv` has these parts:

- `InOrder`: every unit is in one of the places it goes through (in the stream, in
  `my_read`'s buffer, with the call under way, with a call that returned, or not
  written yet), and each place holds consecutive units that begin where the next place
  ends. Each step moves a prefix from one place to the next, which is all that short
  counts, interrupts and the two kinds of reads do (`ReadnSomeMoves`, `OrderKept`). This
  is `Lossless`, made inductive.
- `FrameCalls`: within a `Readn`, `nleft` and what is stored add up to `N`, and between
  two calls the reader has whole frames, unless one came up short; then the stream is
  at its end.
- `LineCalls`: within a `Readline`, `n` counts the character to come, there is room for
  it, and none of those stored is a newline.

What the calls returned is joined by `FlattenSeq`, a fold over a sequence of any length,
which a proof about every sequence would treat by induction over data. The proof goes
along the behaviour instead: `FlattenSeq` is the value of a recursive function, and
`Joinable` says that the equation of that function has exactly one solution for the calls
made so far. It is true of no calls (`JoinableEmpty`), and one more call extends the
solution (`JoinOneMore`), so it is part of the invariant.

## The programs that stand alone

Five programs are small enough to share a run. `MCExercises` chooses one of them in
`program` at the start; only that one steps, the variables of the others stay as
they began, and the state space is the sum of the five, not their product. Each
fairness condition carries its `program = ...`, so nothing is assumed of a
program that does not run.

| program | bounds in `Exercises` | shows |
|---|---|---|
| `PCModel` | the three consumers of the code, 5 messages, spurious wake-ups | a node is in one place: the list, a consumer's hand, or consumed once; while the list is not empty consuming goes on, unless a consumer crashed |
| `ServiceHall` | 4 customers, 2 windows, `pthread_create` may fail | everybody is served and `main` returns; a thread never reads the number of a customer before it |
| `CatchChild` | the 5 children of the code, `fork` may fail | one delivery of SIGCHLD may stand for five ends, and no zombie stays |
| `StringObjects` | 3 objects, 4 addresses, texts of 0, 1 and 2 | in any order of the four operations, self-assignment included, each object owns its buffer and no other buffer is left |
| `ComplexNumbers` | 2 variables with members in -4..4, doubles -2, 0, 1 | compound assignment is the binary operator even for `v *= v`; the overloads for `double` agree with the conversion; comparisons, `conj` and `norm` agree |

`PCModel`: a critical section is a step; waiting and waking are separate. The
consumer tests the list with `if`, not `while` (line 48), so a consumer that is
woken may find the list empty and crash; the step sets `crashed`, it is reachable,
and `ConsumingGoesOn` has it as an alternative. `sleep` is left out. That every message is
consumed is not promised: the list is last in, first out, and under a producer that
never stops the oldest node may stay at its end for ever. `MsgMax` only bounds the
run, and nothing is said of what comes after the last message.

`ServiceHall`: `main` passes `&customer_id`, a local of the loop body. All threads
read one place on the stack; a thread that is late reads the number of a later
customer, and after the loop anything: `Unknown` stands for whatever later calls left
there. It is told apart from every number that was written, although the garbage may happen
to equal one, so `ServedInTurn` is about the numbers main wrote. A customer waits once, and
every service ends, so weak fairness of each is enough for the semaphore.

`CatchChild`: SIGCHLD is blocked before the first `fork` and unblocked after the
handler is installed, pending once however many children ended. The handler's
`waitpid` blocks while children run, so the handler lasts until there are none;
the parent's work in `while(1)` waits for it.

`StringObjects`: the heap is explicit, an address that was given back may be
given out again, and `new` may fail. `operator=` gives the old buffer back before it
asks for the new one: if `new` throws, the object keeps a pointer to nothing, and its
destructor frees it a second time. The model follows such a program (`failed`) up
to the use of the dangling pointer; `OwnBuffers` is a property of programs where
no `operator=` has run out of memory. Three objects and four addresses leave one
address free in every assignment, and reuse happens.

`ComplexNumbers`: integers stand for doubles, on which `+`, `-` and `*` of double are exact
and rounding is absent. The functions behind `+=`, `-=` and `*=` work through
pointers and are translated statement by statement; that is where `v *= v`
could read what it has just stored. Division and `polar` leave the integers, and
`operator/=` is declared and never defined.

All five stop when they are done, hence `CHECK_DEADLOCK FALSE`.

### Proofs

`ExercisesProofs` states its theorems about `ExercisesSpec`, the specification the run
checks, for every number of consumers, messages, customers, windows, children, objects, addresses
and texts and every set of integers for `Doubles`:

- `NodesPreservedAlways`: `PCInv` ties a consumer's place to what it holds, and says that
  list, hands and consumed nodes together are what was produced, as sets and in
  number. Both at once exclude that a node is in two places. The set of consumers
  may be infinite, but the consumers with a node are finitely many, which the counting
  needs and the invariant says.
- `OwnBuffersAlways`: `StringInv` says that the buffers on the heap are those of the
  objects, one each, with the objects' texts, while no `operator=` has failed. The
  proof of `operator=` goes through the heap between its two steps (`Owned` with the
  object left out).
- `ArithmeticConsistentAlways`: `ComplexInv` says that members are integers. The laws
  are then proved from the definitions; for the operators that work through pointers the
  member-by-member stores are shown to be one store of the binary operator's value
  (`StoredByMembers`), for `v *= v` as well.

- `SafelyServedAlways` (`main` returns only when all were served, and no number read is
  that of an earlier customer), `NobodyStuckAlways` (while `main` waits for a customer
  somebody can go on): `HallInv` says that the value of the
  semaphore and the number of customers being served add up to the windows; that the threads
  below `i` exist and those below `j` are done; and that the place on the stack holds the
  number of the last thread created or anything. When nobody is served every window is
  free, so a waiting customer can go on.
- `ZombiesNoticedAlways` (a zombie is being reaped or a signal pending): SIGCHLD is blocked or caught at every moment, so it is never
  discarded, and the handler returns only when there is no child left to take.

The assumption is `ExercisesAssumption`: `Nowhere` (a null pointer) is no address, texts
have a length, the doubles are integers, and there is a window.

## Limits

Checked only by TLC:

- All liveness properties: they need ENABLED, which is outside of the prover's reach.
  Some have a safe half that is proved: `OnlyLateSleep` for the pool's
  `DestroyReturnsUnlessLate`, `OnlyFirstForgotten` for `Reaped` (of all but the first child),
  `SafelyServed` and
  `NobodyStuck` for `ServedInTurn`, `ZombiesNoticed` for `AllReaped`. The runs list the
  liveness properties; of these halves but the first only the theorems speak.

`TypeOK` of each program with theorems is part of its inductive invariant; the
runs spend their properties elsewhere.
`FD_SET` beyond `FD_SETSIZE` in the select server cannot happen with the usual
limit on descriptors and is excluded by `FdMax < FdSetSize` (`SelectAssumption`). In all servers
failures that only end the process at start (socket, bind, listen) are left out,
and so is output to the terminal.

Not modelled:

- `mydaemon` (`sys/session.c`): a straight line of system calls, no state to explore.
- The first server does not compile (`SERV_PORTr`, `client_IPl`), and
  `if(lfd = -1)` would end it at once; its client alone is ten strictly
  alternating rounds of `write` and `read`.
- `Graph`: does not compile and is not finished (`DFSTraversal` is declared without its
  parameter, an arc is compared with an integer, `BFSTraversal` and the
  constructor have no body).
- The MySQL client and schema: one query, input and output. The select client: an empty
  file. The notes: their snippets are not programs.
- The failure paths of `threadpool_create`: see below.

Seen while modelling, and not the subject of a run:

- When an allocation in `threadpool_create` fails, `threadpool_free` works on a pool
  that is half made: it tests and frees `task_queue` before anything was stored in
  it (line 257), or locks and destroys mutexes never initialised (lines 262-265).
  The pool itself comes from `new` and goes back with `free` (line 269).
- `sem_pthread.c:38` warns of the address of the loop variable `i`; line 65 passes the
  address of `customer_id`, to which the same applies.
- `catch_child.c` prints `WIFEXITED` where it announces the exit status.
- `session.c:39-40` redirects stdout twice, where the comment speaks of stdout and
  stderr.

## Plan

Done: every program of the repository that compiles and keeps state is modelled.
The safety invariants of the runs are theorems, and so are the five
refinements: the pool's, the reactor's and those of the poll, select and thread
servers.

Left: liveness, which stays with TLC. `EchoService` promises nothing that must happen, so a
fair version of it, implemented by the reactor and the servers under their fairness,
would be the next thing to check.
