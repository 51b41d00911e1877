# DocetOS in TLA+

A verification project for DocetOS, a small preemptive operating system for the STM32F407 (one
Cortex-M4 core) in `src/DocetOS`. It holds TLA+ modules translated from the C and assembly
source, TLC configurations that check them on small instances, and theorems proved with TLAPS.
Line numbers in the modules' comments refer to the files named there, below `src/DocetOS`.

Contents: [the system](#the-system), [modules](#modules-and-how-they-correspond-to-the-code),
[runs](#runs), [fairness](#fairness), [proofs](#proofs),
[disagreements](#where-code-and-comments-disagree), [limits](#what-the-models-leave-out),
[plan](#plan).

## The system

One core runs task threads; the kernel runs in handlers. `SVC_Handler` (`os_asm.s`) dispatches
the supervisor calls a task makes, `SysTick_Handler` counts ticks, `PendSV_Handler` calls the
scheduler and switches tasks. All three have the same priority, so no handler interrupts
another: a handler is one atomic step as far as threads can see. Thread code can lose the CPU
between any two of its instructions. A failed `ASSERT` is a breakpoint and stops the core.

| Component | State it keeps | Operations | Interacts through | Correct when |
|---|---|---|---|---|
| Kernel: `os.c`, `os_asm.s` | `_currentTCB`, `_checkCode`, `_ticks`, exclusive monitor | SVC dispatch, wait, notify, yield, sleep, exit, add task, tick, task switch | callbacks into the scheduler and the channel manager | a wait that follows a notify does not park; an LDREX/STREX pair does not span a task switch |
| Scheduler: `stochasticScheduler.c` | two heaps, five hash tables, TCB flags, list of exited tasks, rollover flag | scheduler, addTask, taskExit, wait/notify/sleep callbacks | heap, hash table, memory cluster | no task lost or doubled, only runnable tasks resumed, exited tasks vanish, no early wakeup, PendSV ends, everybody gets CPU time |
| Mutex and priority inheritance: `mutex.c`, callbacks in `stochasticScheduler.c` | owner, counter, list of acquired mutexes, inherited priority | acquire, acquire_non_blocking, release, release_noYield | OS_wait, OS_notify, OS_notify_resource_aquired | exclusion, reentrance, no lost wakeup, heap keys follow the priorities, borrowed priority given back (it is not, see below) |
| Semaphore: `semaphore.c` | available tokens | acquire_token, release_token | OS_wait, OS_notify | atomic counter between 0 and its maximum, no lost wakeup |
| Queue: `queue.c` | ring memory, two pointers | write, read, peekAt | called under the channel's lock | bounded FIFO |
| Channel: `channel.c` | two semaphores, a mutex, a queue | init, write, read | semaphore, mutex, queue; set up by the channel manager | bounded FIFO for many tasks from one init to the next, readers and writers do not block each other |
| Channel manager: `channelManger.c` | two hash tables, free list through `channelID` | connect, checkAlive, disconnect | SVC; `channel_init` | one channel per ID while anybody is connected, none lost |
| Memory cluster: `memcluster.c` | pools, a lock for each, table of allocated blocks and its lock, in-use flag | init (the layout of the memory), allocate, deallocate | mutexes; the scheduler frees exited tasks through it from PendSV | no word to two owners, no block lost, no lock kept, PendSV never spins |
| Heap: `heap.c` | node array, index table | addNode, removeNode, removeNodeAt, indexOfContent | called in handlers | smallest first, index finds every content |
| Hash table: `hashtable.c` | cells, buckets, free list, valid flag | put (three duplicate modes), get, n-th value, remove, first of a bucket | called in handlers | a bounded multimap, each cell in one list |
| Serial, retargeting, hard fault; start-up code; demo; `lab5` | | | | not modelled |

What is hard here: preemption between the two halves of an exclusive access, between a check and
the wait that relies on it, and between freeing a mutex and the bookkeeping of that; one flag for
many callers of the memory cluster; a scheduler that mutates its heap while it walks it; a tick
counter that wraps during a sleep; copies (heap keys, index tables, mirror tables) that must follow
what they copy; free lists and heaps at their limits. `PROJECT.json` lists
these hazards line by line, with the properties that would catch them going wrong.

## Modules, and how they correspond to the code

Every module has one action per function, or per access to shared memory where a function can
be interrupted. "Composed of" says what a module uses.

| Module | Models | Composed of |
|---|---|---|
| `Kernel` | task switch, exclusive monitor, check code, wait and notify | |
| `Mutex` | `mutex.c` step by step; the lists, inherited priorities and heap keys behind it | EXTENDS `Kernel` |
| `CountingSemaphore` | what a semaphore promises: a counter, one atomic moment per call | |
| `Semaphore` | `semaphore.c` step by step | EXTENDS `Kernel`, implements `CountingSemaphore` |
| `FIFO` | what queue and channel promise: a bounded queue | |
| `RingQueue` | `queue.c`, a function per action | implements `FIFO` |
| `Channel` | `channel.c` with several tasks that come and go, the ring's functions taken apart | EXTENDS `RingQueue`, implements `FIFO` |
| `ChannelManager` | `channelManger.c` | |
| `MemoryLayout` | `memory_cluster_init`: how memory is cut into blocks, as operators | |
| `MemCluster` | the calls of `memcluster.c` and the scheduler's reclamation of exited tasks | EXTENDS `MemoryLayout` |
| `Multimap` | what a hash table promises | |
| `HashTable` | `hashtable.c`, a function per action | implements `Multimap` |
| `Heap` | the array operations of `heap.c` as operators | |
| `PriorityQueue` | what a heap promises | |
| `IndexedHeap` | a heap with its index table | EXTENDS `Heap`, implements `PriorityQueue` |
| `StochasticScheduler` | `stochasticScheduler.c` with the supervisor calls of `os.c` that reach it | EXTENDS `Heap` |
| `DataTheorems` | induction, recursive functions and the array of a heap, for the proofs | EXTENDS `Heap` |
| `MutexProofs`, `SemaphoreProofs`, `ChannelProofs` (with those of the ring), `ChannelManagerProofs` (with those of the hash table, which keeps the channels), `MemClusterProofs`, `IndexedHeapProofs`, `SchedulerProofs` | the theorems | EXTENDS the module proved about |
| `MC...` | constants of the instances checked | EXTENDS the module checked |

Notes on the correspondence:

- **Kernel.** `current` is `_currentTCB`; `exclusive` is the monitor that LDREX sets, STREX
  needs and clears and the task switch clears (`os_asm.s:92`). A task's local `checkCode`
  compared with `_checkCode` is all that matters of both counters, so `fresh` holds the tasks
  whose copy is current; a wrap of the 32-bit code back to an old value during one acquire is
  thereby left out. Which runnable task PendSV picks is any.
- **Mutex.** `pc` names the place in `mutex.c` between two accesses to shared memory. `depth` is
  the caller's own bookkeeping: tasks release what they hold, and nest different mutexes in one
  order. The mutexes are those from `OS_init_mutex`, whose SVC delegates are enabled; of the
  branches on `svcDelegatesEnabled` (mutex.c:47, 54, 100, 122) the other side is left out. It is
  taken by `hashtable_lock` of the memory cluster, which is static (memcluster.c:10) and has the
  flag at 0 until the first reclamation sets it (memcluster.c:270-275), so that tasks spin at it
  instead of waiting; and by the scheduler itself, in PendSV (`Reclaim` of `MemCluster`). When the
  owner read by `waitCallback` is NULL the inherited priority is left unchanged (the code then
  works on a TCB at address 0). A walk along a cyclic list never returns in the code; the model
  leaves that step out. `heapKey` is the value of a task's node in the scheduler heap, a copy of
  its priority, and 0 while it has none there: PendSV takes a waiting task out when it comes upon
  it, waking puts it back, and inheriting takes it out and puts it back with another value.
- **Semaphore.** Both functions wait for and notify the same reason, the semaphore.
- **RingQueue and Channel.** Words are model values, `Zero` what fresh memory holds. Under the
  lock each function of the queue is one step (`RingQueue`); `Channel` takes them apart, with
  the lock as the only protection, and takes the tokens and the lock as the atomic moments that
  `Semaphore` and `Mutex` justify. `Open` is `channel_init`, run by the first task to connect: it
  resets tokens and pointers and leaves the lock and the words as they are. Tasks disconnect
  outside of `channel_read` and `channel_write`, as channelManger.c:117-118 asks.
- **ChannelManager.** connect and disconnect are supervisor calls, one step each. The free list
  is followed as the code does, through `channelID` of the free channels. A task disconnects
  only what it connected. `Exhausted` is the call that finds no channel and moves the head of
  the list to whatever the word at address 0 + offset contains (`Beyond`).
- **MemoryLayout, MemCluster.** Addresses and sizes count words of four bytes from the start of
  the array. `Pass` is one pass of the loop of `memory_cluster_init`, `Loop` its iteration from
  `Begin`. `StackOf` says which block a task runs in; those stacks leave the free lists from the
  front, as allocate takes them. The write of a pool's list is a step of its own after the read;
  the table is read and written in one step under its lock. A lock's counter saturates at 2 (more
  only means that more releases are missing). Stack and TCB of a task are one block. `freeBlocks`,
  which allocate asks whether a pool has a block (memcluster.c:139), is taken to be the length of
  the list; in the code the two may differ after the scheduler has interfered, and that is left
  out. `hung` means PendSV spins on a lock nobody can give back. `overlapped`, `left` and
  `interfered` are history, read by properties only: whether two calls were in the cluster since
  it was last empty, which locks allocate has walked away from, and whether the scheduler has
  freed a stack while a call was inside.
- **HashTable.** A cell is its place in the array. A new table's last cell points anywhere
  (hashtable.c:53-61 writes the others only). The loops over a bucket appear as the list of its
  cells (`FirstCells`) and of those among them that have a key (`Select`); what the calls write is
  pointers. A lookup returns a value of the cell it finds; `answer` records what the last call
  returned, with the mode of a put, and `Multimap` sees it. `Multimap` leaves open whether a value
  under another key is a duplicate for mode 2.
- **Heap, IndexedHeap.** Node i of the model has index i - 1 in the code. Sifting is described by
  the path (`Ancestor`, `Descent`) and the number of swaps; the swaps of the index table are kept
  one by one (`Climb`, `Sink`), with their refusals (a full table, a key that is there) and
  assertions. Callers do not add a content that is in the heap: `tasksInSchedulerHeapHashTable`
  sees to it where tasks are notified, wake up or inherit. `OS_addTask` does not look at that
  table's answer, and leaves it to the program to add a TCB once; what happens otherwise is in
  `StochasticScheduler`.
- **StochasticScheduler.** Supervisor calls and ticks happen in `phase = "thread"`; PendSV then
  runs through its loops (`rollover`, `wake`, `select`), one iteration per step, with nothing in
  between. `sleeping` has the tasks of each bucket, `waiting` those under each key, newest first,
  as `OS_hashtable_put` links them. `data` and `data2` are the TCB's fields of that name; a TCB
  address may be allocated again after it was freed. Tables have room for 32 tasks and heaps for
  16 nodes (`OS_init`), so the tables are never full. `due` is history: the ticks until a
  requested sleep is over. `AddTask` is the whole of `stochasticScheduler_addTask`; `NewTask` calls
  it for a new TCB, `AddAgain` for one the scheduler has, with the second node that gives. The
  program does the latter to the tasks in `Readded` only, which do not exit. The core stops when
  a swap in the heap meets an index entry that a second node of the same task took along
  (heap.c:90-99); in a heap of equal keys nothing is swapped, so equal priorities are assumed
  where `Readded` is not empty. The sleep heap has other keys and no index table. The calls
  that fail the assertions of OS_addTask (NULL, priority 0, a task that has a flag set) are
  left out. `Roll` follows the list of
  a bucket as the code does: the cell of a task it wakes goes to the front of the table's free
  list, and the loop walks on from there (`FreeEntries`), through cells whose task is NULL.

## Runs

All passing runs end with the full state space explored. "Deadlock off" says that the run may
stop, and why.

| Run | Instance | What it shows |
|---|---|---|
| `mutex` | 2 tasks, 2 mutexes, 2 nested locks of each; FairSpec | the inductive invariant (exclusion, reentrance, monitor, check code), no lost wakeup, heap keys follow inherited priorities; a wanted mutex is locked by somebody |
| `mutex_inherits` | 3 tasks, 2 mutexes | violation: a task keeps a priority it has no right to |
| `semaphore` | 2 tasks, at most 2 tokens; FairSpec; deadlock off: all may wait to take | an atomic counting semaphore; no standoff; a call that can be served is served or its tokens go to others |
| `queue` | ring of 4 slots, 3 words, every capacity 1..3 | bounded FIFO, peek agrees with the reads to come |
| `channel` | 3 tasks, 2 words, every capacity 0..2, in a ring for 2; FairSpec; deadlock off: all may read an empty channel | bounded FIFO for many tasks from one `channel_init` to the next, tokens keep their promise, both sides move |
| `channel_manager` | 2 tasks, 3 channels, 4 IDs, 2 connections per task and ID; symmetry | the inductive invariant (one chain of free channels, handles and counts agree), rendezvous, no channel lost, in use while connected, capacity stands |
| `cluster` | 3 callers, 2 blocks of 1 word and 2 of 2 in 19 words of memory, 2 tasks that may exit; deadlock off: allocate may block for good | the inductive invariant (who owns which lock where in a call), no word with two owners, no block lost, locks come back; the scheduler interferes only after calls overlapped or a lock was left behind |
| `heap` | 6 nodes, 6 contents, 3 values; symmetry | a priority queue until a node is drawn from the middle; the index finds every content |
| `hashtable` | 3 cells, 2 buckets, 3 keys of which 2 collide, 2 values of which one is NULL | a bounded multimap; the inductive invariant (each cell in one place, buckets that end) |
| `sched_safe` | 3 tasks of two priorities, 2 reasons, sleeps of 2 and 4, 6 ticks without a wrap; deadlock off: the last tick | in a program that adds each TCB once every task is in one place, exited tasks vanish, only runnable tasks are resumed |
| `sched_fair` | 3 tasks in 2 buckets that sleep 2 ticks, the program may add one of them again at any time, the counter wraps every 3; FairSpec | nobody wakes early, no task added once is in the scheduler heap twice, the loops of PendSV end, a given ready task runs again and again |
| `sched_oversleep` | 3 tasks, sleeps of 3 ticks | violation: an overdue task stays below one that still sleeps |

Why these bounds are enough to meet the interesting cases:

- *Mutex.* Two tasks give every race on one mutex, two mutexes the lists of more than one entry,
  two nested locks the counter. What the invariants say of more tasks is proved. With three tasks
  the lists of two owners can be joined, which is what `mutex_inherits` shows; the liveness of
  three tasks is too large to explore.
- *Semaphore.* Capacity 2, from one token: 0 and 2 are both reached and both functions block,
  on the same reason. More tasks and tokens are covered by the proofs, except for
  `ServedOrDrained`.
- *Queue.* Four slots let each pointer lap the other; smaller capacities than the ring's come
  from `Reset`. All sizes are proved.
- *Channel.* Three tasks: two on one side and one on the other, hence contention for the last
  token, for the lock, and between the token and the lock. Capacities below the ring's leave it
  with more room than the channel, as for every channel with fewer than 16 words.
- *Channel manager.* One ID more than there are channels, so the list runs empty and somebody
  still asks; two connections per task and ID count up and down within one task and across two.
- *Memory cluster.* Two pools are the least that let allocate walk on, and three tasks with two
  free blocks leave somebody without. `t2` and `t3` run in the other two and may exit while the
  others are anywhere in their calls. `WordsApart` and `EveryBlockKnown` are claimed up to the
  moment when the scheduler interferes; `InterferesOnlyIf` says when that can be.
- *Hash table.* Two colliding keys and three cells give a bucket with a head, a middle and an end,
  a full table, and several values of one key; the third key has the other bucket.
- *Heap.* Six nodes make three levels, with one node that has one child only.
- *Scheduler.* Three nodes are a root and two children: the random walk has both choices, the
  removals under the walk fall back on remembered indices. `MaxTaskTime` 1 stands for 100 ticks.
  The task that `sched_fair` may add again is the one that must run again and again. It may take all
  three nodes, after which other tasks are refused; nothing is claimed of how often those run.
  `Modulus` stands for 2^32; sleeps are shorter than it, as in the code.

## Fairness

- **Mutex, Semaphore:** PendSV sooner or later picks each runnable task (weakly fair per task;
  the choice is random in the code), a task that is dispatched again and again completes its
  step (strongly fair, since it may lose the CPU before each), and so does its STREX (a time
  slice of a tick is long against the few instructions after an LDREX). A task that holds a mutex
  goes on to release something; nobody is obliged to call anything else.
- **Channel:** some task inside `channel.c` that can go on does. This is what the previous two
  guarantee: a token or a free lock goes to somebody, not to everybody.
- **Scheduler:** the system is started, ticks keep coming, PendSV runs on (it is a handler), and
  at each node with children the random choice takes each of its outcomes again and again.
- **MemCluster** (only for `AllocateResumes`, below): each task goes on whenever it can, and a
  lock that is free again and again is obtained.

## Proofs

For every value of the constants, under the `ASSUME`s of the modules (finite sets where a
cardinality is taken, NULL outside of the sets it is compared with, priorities and capacities
positive), TLAPS checks:

- **MutexProofs** (`TypeCorrect`, `Exclusion`, `NestingCounted`, `WakeupsKept`, `Reentrant`,
  `KeysFollow`, all from `Invariance`). The inductive invariant is `IInv`. `MutualExclusion` alone
  is not inductive: that a STREX succeeds only on what its LDREX saw is `MonitorGuards`; that
  whoever is between two accesses is the owner is `CriticalOwns`; `CounterIsDepth` and
  `ClearIsLast` say that the outermost release and no other frees the mutex. `NoLostWakeup` needs
  to know that a task about to wait with a current check code still has a release to come
  (`WaitJustified`), and what a parked task was doing (`ParkedInAcquire`). There is one lemma per
  action, with one step per conjunct. `NestingCounted` covers any nesting order and depth, any
  number of tasks and mutexes. `KeysFollow` needs nothing about the lists of mutexes: whatever
  priority a call works out, `InheritKeeps`, `WaitKeepsKeys`, `NotifyKeepsKeys` and
  `PendSVKeepsKeys` show that the key in the heap changes with it.
- **SemaphoreProofs** (`TokensInRange`, `WakeupsKept`, `NobodyStandsOff`, `Refinement`). `IInv`
  adds to the type: while the monitor is set, the local copy is the current value
  (`MonitorGuards`) and the call is possible on it (`SeenPossible`); a task about to wait with a
  current check code has reason to (`WaitJustified`). `Refinement` maps a successful STREX to the
  one atomic moment of `CountingSemaphore` and every other step to a call, a return or a stutter.
- **ChannelProofs** (`PointersInRing`, `PeekAgrees`, `RingRefinement`; `ChannelInvariance`,
  `Accounted`, `TokensKept`, `ChannelRefinement`). The type invariant of the ring is inductive;
  `WriteAppends` and `ReadTakesHead` describe how the words in the ring change across the wrap,
  for every capacity, and `RingRefinement` follows: `queue.c` implements `FIFO`. The channel's
  `IInv` says who is where (`LockHeld`, `InsideConnected`), that a word between its copy and the
  step of the pointer is in both places (`Staged`), and that words, tokens and tasks with a token
  make up the capacity (`TokensAccounted`, an equation between cardinalities, which is why each
  step has a lemma on the sets of tasks it moves). `TokenKeepsPromise` follows by counting: a task
  about to copy is itself one of those the equation counts. The step of the pointer maps to the
  read or write of `FIFO`, again with `WriteAppends` and `ReadTakesHead`.
- **ChannelManagerProofs** (`Meeting`, `UsedWhileConnected`, `CapacityKept`, `NothingLost`, from
  `Invariance`). `IInv` says that the free channels form a chain without a branch (`FreeChain`,
  which numbers them from the end of the list), that each ID in use has a channel of its own
  (`OwnChannel`), that a task's handle is the channel of the table (`HandlesAgree`), and that the
  status counts the connections (`Counted`, the cardinality of a set of pairs of a task and a
  number). `NothingLost` is about the walk along the list: by induction on the steps it meets the
  channels in the order of their numbers, hence every free one, once, and then ends. The same
  module proves the **hash table** (`CellsKept`, `TableImplements`, from `TableInvariance`), for
  any hash, keys, values, buckets and capacity. `EachCellOnce` alone is not inductive: it would
  let the list of a bucket turn back to a cell of its own, and a remove then frees that cell and
  leaves it in the bucket. `TableIInv` adds `ChainEnds`: the list of a bucket has no cycle and
  ends with NULL. The free list needs no end, its cells are counted. A list is followed by
  recursion; `FirstCellsLinked` and `LinkedIsFirst` say that it is the one sequence of cells whose
  pointers lead from each to the next. So it is enough to show what a put and a remove leave
  linked: the first free cell goes in front of a bucket (`PlacesPut`), and a cell at any place of
  its bucket goes in front of the free list (`PlacesRemove`, where the cell before is the only one
  to point to it). `TableImplements` maps the cells with a key, in the order of the bucket, to the
  values of that key: a put adds one in front for its own key (`SelectPushed`), a remove takes the
  first (`SelectFirst`), and neither changes what a key that collides holds (`SelectOthers`).
- **MemClusterProofs** (`LocksComeBack`, `InterferenceNeeds`, `BlocksKnown`, `NobodySharesWords`,
  from `Invariance`). The first half of `IInv` ties each lock to the place its owner is at
  (`OwnsWhatItHolds`, `HoldsWhatItOwns`, but for the locks in `left`) and the flag to the one call
  inside while calls do not overlap (`OneInside`). When the scheduler then finds the flag down
  nobody is inside, and every lock it needs is free or left behind. It frees only stacks, which
  `StacksFreed` shows. The second half says where each block is: in the free list of its pool, in
  the table, or with the one call that moves it. A call between its read and its write of a free
  list holds that pool's lock, so that what it read is still so; this stops being inductive
  when the scheduler frees a stack under a call, and both properties end there. `WordsApart` needs
  the layout as well: by induction over the passes of the loop, the blocks made so far lie
  inside the words used so far and do not overlap, whatever the sizes.
- **IndexedHeapProofs** (`HeapTypeCorrect`, `StaysOrdered`, `HeapIsPriorityQueue`, `PlacesFound`,
  from `HeapInvariance`). `IInv` is the type, that no content has two nodes, and `HeapProperty`.
  Both sifts move entries along a path of the tree by one place each and put one node at its
  end: nothing gets lost or doubled, whatever the number of swaps and however the heap is ordered
  (`AddsOne`, `RemovesOne`). If it was ordered it still is: every node passed goes to a place whose
  new parent is not larger. The smallest node is on top by induction along the ancestors
  (`TopIsLeast`). `HeapIsPriorityQueue` holds with and without the index table and for tables of
  any size. `PlacesFound` follows the table through the swaps: after n of them it says of the
  moving node that it is at the n-th place of the path and is right about all others. It has the
  hypothesis that there are no more contents than the table has room for. Without it entries of
  removed contents fill the table and `NeverHalts` is refuted (below). In DocetOS every task's
  TCB is a content and the table has the capacity of the heap, so this limits the tasks that may
  ever have been in it, not only those that are.
- **SchedulerProofs** (`SchedulerTypeCorrect`, `WakesNobodyEarly`, `ResumesOnlyRunnable`,
  `AddedTasksAreInHeap`, `NoTaskLost`, `AddedOnceIsInHeapOnce`, `AddedOnceIsInOneHeap`,
  `ExitedTasksVanish`, from `SchedulerInvariance`). `IInv`
  has two halves. `Tables` relates flags, tables, scheduler heap and time stamps: a task has one
  flag at most, whatever is in the lists of sleepers and waiters sleeps or waits and is there
  once, who does neither is in the table of the scheduler heap, and what is stored of a sleep
  leaves at least the ticks that are still due (`Dues`). `Walk` is about PendSV: the node it looks
  at has the last active node for a parent, whose task can run. Removing a node leaves all nodes
  before it where they were (`RemovedFacts`), so that the walk can fall back on that parent
  whatever it removed below. `WakesNobodyEarly` follows from `Dues`, for which a tick makes the
  time that seems to have passed at most one longer, on either side of a wrap (`TickElapses`).
  With a node for every task (`Roomy`) and a program that adds each TCB once (`AddsEachOnce`), a
  heap that holds no task twice has room for one more (`RoomForOneMore`, by counting), insertions
  are never refused, and `AddedTasksAreInHeap` and `ResumesOnlyRunnable` follow, across wraps too.
  Until the tick counter wraps (`NeverWraps`), for 2^32 ticks, the sleep heap holds only sleeping
  tasks that have left the scheduler heap, those added once once each (`SleepHeapMembers`), hence
  `ExitedTasksVanish` and `AddedOnceIsInOneHeap`, for any room and any program; with room for
  all in a program that adds each TCB once it holds all of them (`SleepersStored`), hence
  `NoTaskLost`. While tasks may be added again all keys are equal, so that an insertion moves no
  node (`AlikeNodes`, `InsertedBehind`): this keeps the walk at the node it was at. The
  hypotheses are needed: the loop after a wrap breaks `SleepHeapMembers`, and `ExitVanishes` and
  `InOnePlace` with it; with two nodes for three tasks `InOnePlace` and `DispatchesRunnable` fail
  where `AddedMeansInHeap` does; with a task added twice `InOnePlace` fails where `AddedOnlyOnce`
  does. See below, from where each of these is refuted.
- **DataTheorems** holds what several of these rest on. The induction theorems of the library take
  an operator as a parameter, which the installed provers cannot instantiate. `Induction` is stated
  about a set of numbers instead: what holds of 0 and, with n, of n + 1 holds of all, for the set
  of those n of which the claim is true. `Iteration` says that a recursive function exists and
  what its values are. It is proved from finite runs that agree (`RunExists`, `RunsAgree`). So no
  fact about a walk, a sift or a loop is assumed. What adding and removing a node do to the
  contents of a heap is proved here once, for `IndexedHeapProofs` and `SchedulerProofs`.

Every safety property of a passing run is a theorem. Only model-checked are the liveness
properties, since liveness under fairness and `ENABLED` are out of the prover's reach, and the two
properties that fail. No module uses a RECURSIVE operator; walks, sifts and
loops are functions on the naturals.

## Where code and comments disagree

Two runs show a disagreement each, and `PROJECT.json` quotes both sides (`findings`):

- `mutex_inherits`: `OS_mutex_release` frees the mutex (mutex.c:99) before `OS_notify` takes it out
  of the releaser's list (:101). A task that locks it in between pushes it on its own list through
  the one `nextAcquiredResource` field; the notify then leaves the rest of that list to the
  releaser, who inherits from a task that waits for a mutex the releaser does not hold, and keeps
  that priority after its last release.
- `sched_oversleep`: sleep times in the heap are counted from different ticks and only the top
  one is brought up to date, so a task can be overdue below a top node that is not.

The modules state further claims of the comments that the code does not keep. Each is refuted in
seconds by changing one configuration as given; no run of the project depends on them.

| Claim (module) | To see it fail | What happens |
|---|---|---|
| `OwnerInherits` (`Mutex`), stochasticScheduler.c:439-441 | `MutexInherits.cfg` | a waiter parked between the owner's STREX (mutex.c:43) and its SVC (:48) finds the mutex in nobody's list |
| `ListIsHeldSet` (`Mutex`), structs.h:75 | `MutexInherits.cfg` | through the window of `mutex_inherits` a task's list is not what it holds |
| `ListsEnd` (`Mutex`), stochasticScheduler.c:400 | `MutexInherits.cfg`, `Tasks = {t1, t2}`, `Reasons = {m1, m2, m3}` | through that window the next pointers form a cycle, and a loop in an SVC handler never ends |
| `WaitFindsOwner` (`Mutex`), mutex.c:53 | `MutexInherits.cfg`, as a PROPERTY | `waitCallback` (stochasticScheduler.c:345) passes on an owner that is NULL |
| `PeekIsStored` (`RingQueue`), queue.c:86-92 | `RingQueue.cfg`, as an INVARIANT | peekAt tests its index against the capacity, not the number of words |
| `AlwaysOrdered` (`IndexedHeap`), stochasticScheduler.c:553 | `Heap.cfg`, seven elements, `MaxNodes = 7` | heap.c:237 puts the last node in place of the removed one and only sifts it down |
| `NeverHalts` (`IndexedHeap`), heap.c:90-99 | `Heap.cfg`, four elements, `MaxNodes = 2` | removing the last node leaves its content in the index table (heap.c:218-220), which fills up until a swap fails its assertion |
| `ExitVanishes` (`StochasticScheduler`) with a wrap, stochasticScheduler.c:591-592 | `SchedulerOversleep.cfg`, `Modulus = 6`, `LastTick = 6`, `Durations = {2, 3, 4}`, `Exiting = {t1, t2, t3}` | the loop after a wrap (:159-166) wakes tasks and leaves their nodes in the sleep heap, where they outlive the task |
| `MirrorAgrees` (`StochasticScheduler`), stochasticScheduler.c:23-24 | `SchedulerOversleep.cfg`, `Reasons = {r}` | of two tasks in one bucket that wait for one reason only the first is entered in the second table (:336) |
| `AddedOnlyOnce` (`StochasticScheduler`), stochasticScheduler.c:286 | `SchedulerFair.cfg`, as an INVARIANT | both tables refuse a TCB the scheduler has, but OS_addTask does not look at their answers (:283-284) and gives it a second node (:285); it then gets CPU time through both, and when one of them is taken out the table forgets the other, so that each wakeup may add one more |
| `AddedMeansInHeap` (`StochasticScheduler`), stochasticScheduler.c:266 | `SchedulerOversleep.cfg`, `MaxNodes = 2` | a task refused by a full heap stays in two tables (:283) and never gets into the heap |
| `ConnectReturnsChannel` (`ChannelManager`), channelManger.c:65 | `ChannelManager.cfg`, `SPECIFICATION SpecBeyond` | connect reads through the NULL head (:92) before it tests it; the next call returns memory that is no channel |
| `FlagCoversCalls` (`MemCluster`), stochasticScheduler.c:596-597 | `Cluster.cfg` | the first of two overlapping calls to end clears the flag under the other (memcluster.c:166); the scheduler may then free a stack in the middle of that call, whose write of the pool's list loses the block |
| `AllocateResumes` (`MemCluster`), memcluster.c:102 | `Cluster.cfg`, `Tasks = {t1, t2}`, `Callers = {t1, t2}`, `MemorySize = 15`, `StackOf <- NoStacks`, `MaxHeld = 2`, `FairSpec`, as a PROPERTY | allocate leaves an empty pool with its lock held (:150) and never gives it back; the next task to ask for that size waits at the lock while a larger block is free |
| `HeadsAligned` (`MemoryLayout`), memcluster.c:33-34 | `Cluster.cfg` | the test (:35) binds as address + (12 % 8 # 0) and is always true; after the first block the size of a block and its description is odd for every size but 1, so that heads alternate |
| `NothingFits` (`MemoryLayout`), memcluster.c:56 | `Cluster.cfg`, `BlockSize <- OneAndEight`, `MemorySize = 28`, `StackOf <- NoStacks` | sizes skipped are counted over the whole loop (:64) and not in a row, so it stops too early |
| `RejectsOwnDuplicatesOnly` (`HashTable`), hashtable.c:79 | `HashTable.cfg` | mode 2 compares with the values of the whole bucket (:101) and refuses one stored under another key |

Two comments are wrong about what they describe and need no run: queue.c:42 calls the queue LIFO
(`IsFIFO` is proved), and channelManger.c:59-60 says that connect blocks while all channels are in
use (it returns, `Exhausted`).

## What the models leave out

- Sleeping tasks do not lend or inherit priority in `Mutex`; the code gives them their key when
  they are put back (stochasticScheduler.c:660-664). `StochasticScheduler` has fixed priorities.
- The tables of scheduler and channel manager are functions there; `HashTable` shows that a table
  is a multimap, and the users' modules keep capacity and order of a bucket where they matter.
- The flag `svcDelegatesEnabled` of a mutex, see the note on `Mutex`.
- Exit of a task that was added twice, whose second node would outlive its TCB.
- Use of a channel after disconnecting, which channelManger.c:117-118 excludes.
- What blocks of memory contain, and the clearing of them; registers and stack frames in TCBs;
  the wrap of the 32-bit check code within one call.
- `serial.c`, `retarget.c`, `hardfault.c`: device output without state others depend on. `RTE/`:
  vendor code. `main.c`: demonstration tasks; the models let tasks call services in any order.
  `lab5`: a separate, unfinished exercise.

## Plan

Done, in this order: `Kernel`, `Mutex`, `Semaphore`, `RingQueue` with their proofs; the heap; the
scheduler; the channel manager; the hash table and its multimap; the channel with set-up, users
that come and go, and its proofs; the layout of the memory cluster and its calls; heap keys under
priority inheritance, with their proof; proofs of the channel manager, of the cluster's locks and
blocks, of the heap with its index table, of the scheduler, and of the hash table.

Next, most important first:

1. Sleeping tasks in `Mutex`'s heap keys, or priorities that change in `StochasticScheduler`.
2. `svcDelegatesEnabled` as a variable of `Mutex`, for the table lock of the memory cluster: a
   release that read 0 just before it is switched to 1 notifies nobody.
3. `LockProgress` for three tasks, on an abstraction of `Mutex` without lists and priorities.
