------------------------------ MODULE MemCluster -----------------------------
(***************************************************************************)
(* The memory cluster of OS/memcluster.c: pools of free blocks (made by    *)
(* MemoryLayout), a table of the allocated ones, a mutex for each, and the *)
(* flag that says the cluster is in use. Tasks allocate and deallocate;    *)
(* the scheduler frees the stack of a task that has exited from inside     *)
(* PendSV, on the word of the flag alone (stochasticScheduler.c:126-143,   *)
(* 600-608); stack and TCB are one block here.                             *)
(*                                                                         *)
(* Mutex shows that locking is a single moment that excludes and blocks,   *)
(* and allows nesting; a read or a write of a pool's list is a step of its *)
(* own, and the table, used only with its lock, is read and written in     *)
(* one step.                                                               *)
(***************************************************************************)
EXTENDS MemoryLayout, FiniteSets

CONSTANTS Tasks, NULL,
          StackOf, \* the block a task's stack is in, or NULL for one elsewhere; such a task stays
          Callers, \* the tasks that call allocate and deallocate
          MaxHeld  \* bound: blocks one task has at a time

Pools == numberOfPools
Lockable == 0 .. Pools \* the pools and the table
Table == 0

ASSUME ClusterAssumption ==
  /\ NULL \notin Tasks \cup Blocks /\ Callers \subseteq Tasks
  /\ StackOf \in [Tasks -> Blocks \cup {NULL}]
  /\ \A t, u \in Tasks : StackOf[t] = StackOf[u] => t = u \/ StackOf[t] = NULL
  /\ MaxHeld \in Nat

VARIABLES free,      \* firstMemoryBlock and what follows it, for each pool
          allocated, \* the blocks in allocatedBlocksBuckets
          owner, nested,    \* the mutexes: tcbPointer, and counter as 0, 1 or more
          clusterInUseFLAG,
          pc, call, \* where each task is in memcluster.c, and in which function
          pool,     \* selectedPool, or the pool of the block given back
          smallest, \* initialSelectedIdx
          block,    \* the block a call takes or gives back
          list,     \* the list read from a pool and not yet written back
          held,     \* the blocks a task was given
          finished, \* tasks that have exited and whose stack is not yet freed
          hung,     \* PendSV spins on a lock that nobody can give up
          overlapped, left, interfered \* history, in no guard: two calls were in the cluster
                     \* since it was last empty; the locks allocate has walked away from;
                     \* the scheduler has freed a stack while a call was in the cluster

pools == <<free, allocated>>
locks == <<owner, nested>>
locals == <<call, pool, smallest, block, list>>
history == <<overlapped, left, interfered>>
vars == <<pools, locks, clusterInUseFLAG, pc, locals, held, finished, hung, history>>

Labels == {"user", "lockPool", "read", "write", "lockTable", "table",
           "unlockTable", "unlockPool", "leave", "exited"}

TypeOK ==
  /\ free \in [1 .. Pools -> Seq(Blocks)]
  /\ allocated \subseteq Blocks
  /\ owner \in [Lockable -> Tasks \cup {NULL}]
  /\ nested \in [Lockable -> 0 .. 2]
  /\ clusterInUseFLAG \in BOOLEAN
  /\ pc \in [Tasks -> Labels]
  /\ call \in [Tasks -> {"allocate", "deallocate"}]
  /\ pool \in [Tasks -> 1 .. Pools] /\ smallest \in [Tasks -> 1 .. Pools]
  /\ block \in [Tasks -> Blocks \cup {NULL}]
  /\ list \in [Tasks -> Seq(Blocks)]
  /\ held \in [Tasks -> SUBSET Blocks]
  /\ finished \subseteq Tasks
  /\ hung \in BOOLEAN
  /\ left \subseteq 1 .. Pools /\ overlapped \in BOOLEAN /\ interfered \in BOOLEAN

Stacks == {StackOf[t] : t \in Tasks} \ {NULL}

\* memory_cluster_init, then main allocates the stacks: the first blocks of each list.
Init ==
  /\ \E taken \in [1 .. Pools -> 0 .. MemorySize] :
       /\ \A p \in 1 .. Pools : taken[p] <= Len(FreeAtFirst[p])
       /\ free = [p \in 1 .. Pools |->
                    SubSeq(FreeAtFirst[p], taken[p] + 1, Len(FreeAtFirst[p]))]
       /\ Stacks = UNION {{FreeAtFirst[p][i] : i \in 1 .. taken[p]} : p \in 1 .. Pools}
  /\ allocated = Stacks
  /\ owner = [l \in Lockable |-> NULL] /\ nested = [l \in Lockable |-> 0]
  /\ clusterInUseFLAG = FALSE
  /\ pc = [t \in Tasks |-> "user"]
  /\ call = [t \in Tasks |-> "allocate"]
  /\ pool = [t \in Tasks |-> 1] /\ smallest = [t \in Tasks |-> 1]
  /\ block = [t \in Tasks |-> NULL] /\ list = [t \in Tasks |-> <<>>]
  /\ held = [t \in Tasks |-> {}]
  /\ finished = {} /\ hung = FALSE
  /\ overlapped = FALSE /\ left = {} /\ interfered = FALSE

-------------------------------------------------------------------------------
At(t, label) == pc[t] = label
Goto(t, label) == pc' = [pc EXCEPT ![t] = label]
Allocates(t) == call[t] = "allocate"

Inside(t) == pc[t] \notin {"user", "exited"}

\* A call comes in, and the flag goes up.
Enter(t, label) == /\ At(t, "user") /\ t \in Callers /\ Goto(t, label)
                   /\ clusterInUseFLAG' = TRUE
                   /\ overlapped' = (overlapped \/ \E u \in Tasks : Inside(u))
                   /\ UNCHANGED <<left, interfered>>

MayLock(t, l) == owner[l] \in {NULL, t}

\* A counter above 1 only says that one release more is missing than the caller makes.
Lock(t, l) == /\ MayLock(t, l)
              /\ owner' = [owner EXCEPT ![l] = t]
              /\ nested' = [nested EXCEPT ![l] = IF @ = 0 THEN 1 ELSE 2]

Unlock(l) == /\ nested' = [nested EXCEPT ![l] = @ - 1]
             /\ owner' = IF nested[l] = 1 THEN [owner EXCEPT ![l] = NULL] ELSE owner

\* allocate for a size that the pool p and larger ones fit.
CallAllocate(t, p) ==
  /\ Enter(t, "lockPool") /\ Cardinality(held[t]) < MaxHeld
  /\ call' = [call EXCEPT ![t] = "allocate"]
  /\ pool' = [pool EXCEPT ![t] = p] /\ smallest' = [smallest EXCEPT ![t] = p]
  /\ UNCHANGED <<pools, locks, block, list, held, finished, hung>>

\* allocate(0), or for a size that no pool fits.
CallRefused(t) ==
  /\ Enter(t, "leave")
  /\ call' = [call EXCEPT ![t] = "allocate"]
  /\ block' = [block EXCEPT ![t] = NULL]
  /\ UNCHANGED <<pools, locks, pool, smallest, list, held, finished, hung>>

\* deallocate of a block the task was given, or of a pointer that is none (NULL here).
CallDeallocate(t, b) ==
  /\ Enter(t, "lockTable") /\ b \in held[t] \cup {NULL}
  /\ call' = [call EXCEPT ![t] = "deallocate"]
  /\ block' = [block EXCEPT ![t] = b] /\ held' = [held EXCEPT ![t] = @ \ {b}]
  /\ UNCHANGED <<pools, locks, pool, smallest, list, finished, hung>>

LockPool(t) ==
  /\ At(t, "lockPool") /\ Lock(t, pool[t]) /\ Goto(t, "read")
  /\ UNCHANGED <<pools, clusterInUseFLAG, locals, held, finished, hung, history>>

NextPool(t) == IF pool[t] < Pools THEN pool[t] + 1 ELSE smallest[t]

\* The list of the pool is read. An empty one sends allocate to the next pool, with this
\* pool's lock still held.
Read(t) ==
  /\ At(t, "read")
  /\ LET blocks == free[pool[t]]
     IN  IF ~Allocates(t)
         THEN /\ Goto(t, "write") /\ list' = [list EXCEPT ![t] = <<block[t]>> \o blocks]
              /\ UNCHANGED <<block, pool, left>>
         ELSE IF blocks = <<>>
         THEN /\ Goto(t, "lockPool") /\ pool' = [pool EXCEPT ![t] = NextPool(t)]
              /\ left' = left \cup {pool[t]}
              /\ UNCHANGED <<block, list>>
         ELSE /\ Goto(t, "write") /\ block' = [block EXCEPT ![t] = Head(blocks)]
              /\ list' = [list EXCEPT ![t] = Tail(blocks)]
              /\ UNCHANGED <<pool, left>>
  /\ UNCHANGED <<pools, locks, clusterInUseFLAG, call, smallest, held, finished, hung,
                 overlapped, interfered>>

\* __removeBlockFromPool and __addBlockToPool, the write of firstMemoryBlock.
Write(t) ==
  /\ At(t, "write") /\ Goto(t, IF Allocates(t) THEN "lockTable" ELSE "unlockPool")
  /\ free' = [free EXCEPT ![pool[t]] = list[t]]
  /\ list' = [list EXCEPT ![t] = <<>>]
  /\ UNCHANGED <<allocated, locks, clusterInUseFLAG, call, pool, smallest, block, held,
                 finished, hung, history>>

LockTable(t) ==
  /\ At(t, "lockTable") /\ Lock(t, Table) /\ Goto(t, "table")
  /\ UNCHANGED <<pools, clusterInUseFLAG, locals, held, finished, hung, history>>

\* Mutant: a block stays in the table when it is given back.
UseTableKeeps(t) ==
  /\ At(t, "table") /\ Goto(t, "unlockTable")
  /\ allocated' = IF Allocates(t) THEN allocated \cup {block[t]} ELSE allocated
  /\ UNCHANGED <<free, locks, clusterInUseFLAG, locals, held, finished, hung, history>>

\* __placeBlockIntoBucket and __recoverBlockFromBucket.
UseTable(t) ==
  /\ At(t, "table") /\ Goto(t, "unlockTable")
  /\ allocated' = IF Allocates(t) THEN allocated \cup {block[t]} ELSE allocated \ {block[t]}
  /\ UNCHANGED <<free, locks, clusterInUseFLAG, locals, held, finished, hung, history>>

\* A pointer that was not found goes no further.
UnlockTable(t) ==
  /\ At(t, "unlockTable") /\ Unlock(Table)
  /\ IF Allocates(t) THEN Goto(t, "unlockPool") /\ UNCHANGED pool
     ELSE IF block[t] = NULL THEN Goto(t, "leave") /\ UNCHANGED pool
     ELSE Goto(t, "lockPool") /\ pool' = [pool EXCEPT ![t] = PoolOf[block[t]]]
  /\ UNCHANGED <<pools, clusterInUseFLAG, call, smallest, block, list, held, finished, hung,
                 history>>

\* Mutant: deallocate does not give the lock back.
UnlockPoolOfAllocate(t) ==
  /\ At(t, "unlockPool") /\ Goto(t, "leave")
  /\ IF Allocates(t) THEN Unlock(pool[t]) ELSE UNCHANGED locks
  /\ UNCHANGED <<pools, clusterInUseFLAG, locals, held, finished, hung, history>>

UnlockPool(t) ==
  /\ At(t, "unlockPool") /\ Unlock(pool[t]) /\ Goto(t, "leave")
  /\ UNCHANGED <<pools, clusterInUseFLAG, locals, held, finished, hung, history>>

\* The flag goes down, and allocate returns its block.
Leave(t) ==
  /\ At(t, "leave") /\ Goto(t, "user")
  /\ clusterInUseFLAG' = FALSE
  /\ held' = IF Allocates(t) THEN [held EXCEPT ![t] = @ \cup ({block[t]} \ {NULL})] ELSE held
  /\ block' = [block EXCEPT ![t] = NULL]
  /\ overlapped' = (overlapped /\ \E u \in Tasks \ {t} : Inside(u))
  /\ UNCHANGED <<pools, locks, call, pool, smallest, list, finished, hung, left,
                 interfered>>

Works(t) == \/ LockPool(t) \/ Read(t) \/ Write(t) \/ LockTable(t) \/ UseTable(t)
            \/ UnlockTable(t) \/ UnlockPool(t) \/ Leave(t)

(***************************************************************************)
(* The scheduler                                                           *)
(***************************************************************************)
\* SVC OS_task_exit; whatever the task has not given back stays allocated.
Exit(t) ==
  /\ At(t, "user") /\ StackOf[t] # NULL
  /\ Goto(t, "exited") /\ finished' = finished \cup {t}
  /\ UNCHANGED <<pools, locks, clusterInUseFLAG, locals, held, hung, history>>

\* Mutant: the scheduler does not ask whether the cluster is in use.
MayReclaimAlways(t) == t \in finished

MayReclaim(t) == t \in finished /\ ~clusterInUseFLAG

\* The scheduler frees the stack of t in PendSV, with the locks taken in the name of the
\* interrupted task (NULL for the idle task, which has no lock) and without SVCs: a lock that
\* another task has is waited for in a loop that no task can end.
Reclaim(t, interrupted) ==
  /\ MayReclaim(t)
  /\ IF MayLock(interrupted, Table) /\ MayLock(interrupted, PoolOf[StackOf[t]])
     THEN /\ free' = [free EXCEPT ![PoolOf[StackOf[t]]] = <<StackOf[t]>> \o @]
          /\ allocated' = allocated \ {StackOf[t]}
          /\ finished' = finished \ {t}
          /\ UNCHANGED hung
     ELSE hung' = TRUE /\ UNCHANGED <<pools, finished>>
  /\ interfered' = (interfered \/ \E u \in Tasks : Inside(u))
  /\ UNCHANGED <<locks, clusterInUseFLAG, pc, locals, held, overlapped, left>>

Calls(t) == \/ \E p \in 1 .. Pools : CallAllocate(t, p)
            \/ CallRefused(t)
            \/ \E b \in Blocks \cup {NULL} : CallDeallocate(t, b)
            \/ Exit(t)

Next == /\ ~hung
        /\ \E t \in Tasks : \/ Calls(t) \/ Works(t)
                            \/ \E interrupted \in Tasks \cup {NULL} : Reclaim(t, interrupted)

Spec == Init /\ [][Next]_vars

\* Every task goes on while it can, and gets a lock that is free again and again.
FairSpec == Spec /\ \A t \in Tasks : SF_vars(~hung /\ Works(t))

-------------------------------------------------------------------------------
\* What a task was given is its own, word by word (memcluster.c:56-85, 157, 174-191), as long
\* as the scheduler does not interfere: it is in the table of allocated blocks and in the
\* cluster's memory, no other task has any of it, and no block is described there.
WordsApart ==
  ~interfered => \A t \in Tasks : \A b \in held[t] :
    /\ b \in allocated
    /\ UserWords(b) \subseteq 0 .. MemorySize - 1
    /\ \A c \in Blocks : UserWords(b) \cap StructWords(c) = {}
    /\ \A u \in Tasks : \A c \in held[u] :
         t # u \/ b # c => UserWords(b) \cap UserWords(c) = {}

\* Every block is free, in the table or on its way between the two, and there only once:
\* none is lost and none comes twice, whatever order the calls, the exits and the freeing of
\* stacks come in, as long as the scheduler does not interfere. Between the write of a pool's
\* list and that of the table only the call knows the block.
OnItsWay(t) == Inside(t) /\ block[t] # NULL /\
  pc[t] \in IF Allocates(t) THEN {"lockTable", "table"}
            ELSE {"unlockTable", "lockPool", "read", "write"}
Places(b) ==
  (UNION {{<<"pool", p, i>> : i \in {j \in DOMAIN free[p] : free[p][j] = b}} : p \in 1 .. Pools})
  \cup {<<"table", c>> : c \in allocated \cap {b}}
  \cup {<<"task", t>> : t \in {u \in Tasks : OnItsWay(u) /\ block[u] = b}}
EveryBlockKnown == ~interfered => \A b \in Blocks : Cardinality(Places(b)) = 1

\* Every call gives back all the locks it takes but those it walks away from when it finds
\* their pools empty (memcluster.c:139-158, 190): nothing else leaves a lock with a task that
\* is not in the cluster.
LocksReturned == \A l \in Lockable : owner[l] # NULL => Inside(owner[l]) \/ l \in left

\* The scheduler frees a stack in the middle of somebody's call, or spins on a lock so that
\* PendSV never ends, only when calls overlap, of which the first to leave takes the flag
\* down, or when allocate has walked away from a lock (memcluster.c:106, 152, 166, 193;
\* stochasticScheduler.c:600-608): one call at a time and memory to spare are safe.
InterferesOnlyIf ==
  [][(hung' \/ interfered') /\ ~(hung \/ interfered) => overlapped \/ left # {}]_vars

\* The inductive invariant behind the last two (memcluster.c:106-195); MemClusterProofs
\* proves it. Tasks own the locks they hold by the place they are at, and no others but those
\* allocate has walked away from; without overlapping calls one task at most is inside, and
\* the flag tells whether there is one.
TypesOfLocks ==
  /\ owner \in [Lockable -> Tasks \cup {NULL}] /\ nested \in [Lockable -> 0 .. 2]
  /\ pc \in [Tasks -> Labels] /\ call \in [Tasks -> {"allocate", "deallocate"}]
  /\ pool \in [Tasks -> 1 .. Pools] /\ smallest \in [Tasks -> 1 .. Pools]
  /\ DOMAIN block = Tasks /\ \A t \in Tasks : Allocates(t) \/ block[t] \in Blocks \cup {NULL}
  /\ left \subseteq 1 .. Pools
Holds(t, l) ==
  \/ l = Table /\ pc[t] \in {"table", "unlockTable"}
  \/ l = pool[t] /\ pc[t] \in {"read", "write", "unlockPool"}
  \/ l = pool[t] /\ Allocates(t) /\ pc[t] \in {"lockTable", "table", "unlockTable"}
OwnsWhatItHolds == \A t \in Tasks, l \in Lockable : Holds(t, l) => owner[l] = t /\ nested[l] > 0
HoldsWhatItOwns ==
  /\ \A l \in Lockable : owner[l] = NULL => nested[l] = 0
  /\ \A t \in Tasks, l \in Lockable \ left : owner[l] = t => nested[l] = 1 /\ Holds(t, l)
OneInside ==
  ~overlapped => /\ \A t, u \in Tasks : Inside(t) /\ Inside(u) => t = u
                 /\ clusterInUseFLAG = \E t \in Tasks : Inside(t)

LocksInv == TypesOfLocks /\ OwnsWhatItHolds /\ HoldsWhatItOwns /\ OneInside

\* And behind the first two: a call that works on a block knows it. As long as the scheduler
\* does not interfere, a list read from a pool stays what it was until it is written back,
\* each block is in one place, and each allocated block is one task's, as memory it was
\* given, as the block its call hands out or takes back, or as its stack.
KnowsBlock(t) ==
  /\ block[t] = NULL => pc[t] \notin IF Allocates(t) THEN {"write", "lockTable", "table"}
                                     ELSE {"lockPool", "read", "write"}
  /\ t \in finished => pc[t] = "exited" /\ StackOf[t] # NULL
ListCurrent(t) ==
  /\ At(t, "write") => free[pool[t]] = IF Allocates(t) THEN <<block[t]>> \o list[t]
                                      ELSE Tail(list[t])
  /\ At(t, "write") /\ ~Allocates(t) => list[t] # <<>> /\ Head(list[t]) = block[t]
  /\ pc[t] \in {"lockPool", "read", "write"} /\ ~Allocates(t) => PoolOf[block[t]] = pool[t]
OnTheWay(t, b) == OnItsWay(t) /\ block[t] = b
FreeOnce ==
  \A p \in 1 .. Pools : \A i \in 1 .. Len(free[p]) :
    /\ PoolOf[free[p][i]] = p /\ free[p][i] \notin allocated
    /\ \A j \in 1 .. Len(free[p]) : free[p][j] = free[p][i] => i = j
    /\ \A t \in Tasks : ~OnTheWay(t, free[p][i])
OnTheWayOnce ==
  \A t \in Tasks, b \in Blocks : OnTheWay(t, b) =>
    b \notin allocated /\ \A u \in Tasks : OnTheWay(u, b) => t = u
Somewhere ==
  \A b \in Blocks : \/ b \in allocated
                    \/ \E t \in Tasks : OnTheWay(t, b)
                    \/ \E p \in 1 .. Pools : \E i \in 1 .. Len(free[p]) : free[p][i] = b
Promised(t) == pc[t] \in IF Allocates(t) THEN {"unlockTable", "unlockPool", "leave"}
                         ELSE {"lockTable", "table"}
Claim(as, t, b) ==
  \/ as = "memory" /\ b \in held[t]
  \/ as = "call" /\ Promised(t) /\ b = block[t]
  \/ as = "stack" /\ (pc[t] # "exited" \/ t \in finished) /\ b = StackOf[t]
Ways == {"memory", "call", "stack"}
OneUser ==
  \A b \in Blocks, as \in Ways, t \in Tasks : Claim(as, t, b) =>
    b \in allocated /\ \A is \in Ways, u \in Tasks : Claim(is, u, b) => as = is /\ t = u
BlocksInv == /\ TypeOK /\ \A t \in Tasks : KnowsBlock(t)
             /\ ~interfered => /\ \A t \in Tasks : ListCurrent(t)
                               /\ FreeOnce /\ OnTheWayOnce /\ Somewhere /\ OneUser

IInv == LocksInv /\ BlocksInv

\* Comment, which the code does not keep (see the README): the scheduler "Cannot go ahead
\* unless no other task was using the memcluster when the scheduler interrupt was called,
\* since this operation could interfere severly" (stochasticScheduler.c:596-597): the flag
\* it asks is up while anybody is in a call.
FlagCoversCalls == (\E t \in Tasks : Inside(t)) => clusterInUseFLAG

\* Comment, which the code does not keep (see the README): allocate "will block if no memory
\* blocks of specified size (or larger) are available, and will resume as soon as this
\* changes" (memcluster.c:102).
Waits(t) == Inside(t) /\ Allocates(t) /\ block[t] = NULL /\ pc[t] # "leave"
Fits(t) == \E p \in smallest[t] .. Pools : free[p] # <<>>
AllocateResumes == \A t \in Tasks : (Waits(t) /\ Fits(t)) ~> (~Waits(t) \/ ~Fits(t))
===============================================================================
