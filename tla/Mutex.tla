-------------------------------- MODULE Mutex --------------------------------
(***************************************************************************)
(* The reentrant mutex of DataStructures/mutex.c over the kernel's wait    *)
(* and notify, together with the kernel's bookkeeping for priority         *)
(* inheritance: the linked list of mutexes a task has acquired and the     *)
(* priority it inherits from the tasks that wait for them.                 *)
(*                                                                         *)
(* A task calls acquire, acquire_non_blocking, release or release_noYield  *)
(* in any order its own bookkeeping (depth) allows; each call is run       *)
(* through step by step, one step per access to shared memory or SVC, and  *)
(* may lose the CPU between any two of them.                               *)
(*                                                                         *)
(* The mutexes here were made by OS_init_mutex, hence svcDelegatesEnabled. *)
(* The branches without it are left out: PendSV takes the locks of the     *)
(* memory cluster that way (MemCluster), and that cluster's static         *)
(* hashtable_lock (memcluster.c:10) starts so: until the first reclamation *)
(* switches it over, its waiters spin and its releases notify nobody.      *)
(***************************************************************************)
EXTENDS Kernel, Naturals, FiniteSets

CONSTANTS Priority, \* priority given to OS_addTask; a smaller value is more urgent
          Rank,     \* the order in which the tasks agree to nest different mutexes
          MaxDepth  \* bound: how often one task locks one mutex before releasing it

Mutexes == Reasons

ASSUME MutexAssumption == /\ Priority \in [Tasks -> Nat \ {0}]
                          /\ Rank \in [Mutexes -> Nat]
                          /\ MaxDepth \in Nat \ {0}
                          /\ IsFiniteSet(Mutexes)

VARIABLES tcbPointer, counter, nextAcquiredResource, \* OS_mutex_t
          acquiredResources, inheritedPriority,      \* OS_TCB_t
          heapKey,    \* the key of each task in schedulerHeap, 0 when it is not there
          pc, mutex,  \* where each task is in mutex.c, and its argument _mutex
          depth       \* the calls of acquire a task has not yet matched by release

piVars    == <<nextAcquiredResource, acquiredResources, inheritedPriority, heapKey>>
mutexVars == <<tcbPointer, counter>>
taskVars  == <<pc, mutex, depth>>
vars == <<kernelVars, mutexVars, piVars, taskVars>>

Labels == {"user", "check", "load", "store", "wait", "acquired", "count",
           "tryLoad", "tryStore", "uncount", "clear", "notify", "yield"}

TypeOK ==
  /\ KernelTypeOK
  /\ tcbPointer \in [Mutexes -> Tasks \cup {NULL}]
  /\ counter \in [Mutexes -> Nat]
  /\ nextAcquiredResource \in [Mutexes -> Mutexes \cup {NULL}]
  /\ acquiredResources \in [Tasks -> Mutexes \cup {NULL}]
  /\ inheritedPriority \in [Tasks -> Nat] /\ heapKey \in [Tasks -> Nat]
  /\ pc \in [Tasks -> Labels]
  /\ mutex \in [Tasks -> Mutexes]
  /\ depth \in [Tasks -> [Mutexes -> Nat]]

Init ==
  /\ KernelInit
  /\ tcbPointer = [m \in Mutexes |-> NULL]
  /\ counter = [m \in Mutexes |-> 0]
  /\ nextAcquiredResource = [m \in Mutexes |-> NULL]
  /\ acquiredResources = [t \in Tasks |-> NULL]
  /\ inheritedPriority = [t \in Tasks |-> 0]
  /\ heapKey = Priority \* OS_addTask
  /\ pc = [t \in Tasks |-> "user"]
  /\ mutex \in [Tasks -> Mutexes]
  /\ depth = [t \in Tasks |-> [m \in Mutexes |-> 0]]

(***************************************************************************)
(* The linked list of acquired mutexes, and the priority inherited along   *)
(* it. A walk of the list that has not met NULL after visiting as many     *)
(* cells as there are mutexes never ends.                                  *)
(***************************************************************************)
Walk(head, next) ==
  LET cell[i \in Nat] == IF i = 0 THEN head
                         ELSE IF cell[i - 1] = NULL THEN NULL ELSE next[cell[i - 1]]
  IN  cell

Acquired(head, next) ==
  {Walk(head, next)[i] : i \in 0 .. Cardinality(Mutexes)} \ {NULL}

\* The loops over a list end. A step whose loop does not is left out: the handler would
\* keep the core for ever, and that the others go on here only adds behaviours.
WalkEnds(head, next) == Walk(head, next)[Cardinality(Mutexes)] = NULL

Effective(t) == IF inheritedPriority[t] # 0 THEN inheritedPriority[t] ELSE Priority[t]

\* __updatePriorityInheritance(t) with t's list starting at head: the priority to inherit.
Inherited(t, head, next, waiting) ==
  LET waiters == {w \in Tasks : waiting[w] \in Acquired(head, next)}
      urgent == {Effective(w) : w \in waiters} \cup {Priority[t]}
      best == CHOOSE p \in urgent : \A q \in urgent : p <= q
  IN  IF best < Priority[t] THEN best ELSE 0

\* Mutant: the key is not set back when the inheritance ends.
InheritKeepsKey(t, priority, keys) ==
  /\ inheritedPriority' = [inheritedPriority EXCEPT ![t] = priority]
  /\ heapKey' = IF keys[t] = 0 \/ priority \in {0, inheritedPriority[t]} THEN keys
                ELSE [keys EXCEPT ![t] = priority]

\* Its second half: t inherits the priority, and is taken out of the heap and added with
\* another key when it is there and the priority is not the one it had.
Inherit(t, priority, keys) ==
  /\ inheritedPriority' = [inheritedPriority EXCEPT ![t] = priority]
  /\ heapKey' = IF keys[t] = 0 \/ priority = inheritedPriority[t] THEN keys
                ELSE [keys EXCEPT ![t] = IF priority = 0 THEN Priority[t] ELSE priority]

-------------------------------------------------------------------------------
At(t, label) == Executing(t) /\ pc[t] = label
Goto(t, label) == pc' = [pc EXCEPT ![t] = label]
Mine(t) == tcbPointer[mutex[t]] = t
Free(t) == tcbPointer[mutex[t]] = NULL
Owns(t, m) == depth[t][m] > 0

\* The calls a well-behaved task makes: different mutexes are nested in the agreed
\* order, and only a mutex the task holds is released.
MayNest(t, m) == /\ depth[t][m] < MaxDepth
                 /\ \A n \in Mutexes \ {m} : Owns(t, n) => Rank[n] <= Rank[m]

Acquire(t, m) ==
  /\ At(t, "user") /\ MayNest(t, m)
  /\ Goto(t, "check")
  /\ mutex' = [mutex EXCEPT ![t] = m]
  /\ UNCHANGED <<kernelVars, mutexVars, piVars, depth>>

AcquireNonBlocking(t, m) ==
  /\ At(t, "user") /\ MayNest(t, m)
  /\ Goto(t, "tryLoad")
  /\ mutex' = [mutex EXCEPT ![t] = m]
  /\ UNCHANGED <<kernelVars, mutexVars, piVars, depth>>

\* Both kinds of release; the owner check succeeds for a task that holds the mutex
\* (mutex.c:91, 110) and is kept as the guard Mine of the next step.
Release(t, m) ==
  /\ At(t, "user") /\ Owns(t, m)
  /\ Goto(t, "uncount")
  /\ mutex' = [mutex EXCEPT ![t] = m]
  /\ depth' = [depth EXCEPT ![t][m] = @ - 1]
  /\ UNCHANGED <<kernelVars, mutexVars, piVars>>

(***************************************************************************)
(* OS_mutex_acquire                                                        *)
(***************************************************************************)
Check(t) ==
  /\ At(t, "check") /\ Goto(t, "load")
  /\ ReadCheckCode(t)
  /\ UNCHANGED <<current, exclusive, waitingFor, mutexVars, piVars, mutex, depth>>

Load(t) ==
  /\ At(t, "load") /\ LoadExclusive
  /\ IF Free(t) \/ Mine(t) THEN Goto(t, "store") ELSE Goto(t, "wait")
  /\ UNCHANGED <<current, fresh, waitingFor, mutexVars, piVars, mutex, depth>>

Store(t) ==
  /\ At(t, "store") /\ StoreExclusive /\ Goto(t, "acquired")
  /\ tcbPointer' = [tcbPointer EXCEPT ![mutex[t]] = t]
  /\ UNCHANGED <<current, fresh, waitingFor, counter, piVars, mutex, depth>>

StoreRetry(t) ==
  /\ At(t, "store") /\ StoreExclusiveFails /\ Goto(t, "check")
  /\ UNCHANGED <<current, fresh, waitingFor, mutexVars, piVars, mutex, depth>>

\* OS_wait(_mutex, checkCode, 1). The callback parks the task, then lets the owner the
\* mutex has NOW inherit. Without an owner it works on the TCB at address 0, which is
\* no task's: nothing in this model changes.
Wait(t) ==
  /\ At(t, "wait") /\ Goto(t, "check")
  /\ WaitCallback(t, mutex[t])
  /\ LET owner == tcbPointer[mutex[t]]
         head == acquiredResources[owner]
     IN  IF WaitParks(t) /\ owner # NULL
         THEN /\ WalkEnds(head, nextAcquiredResource)
              /\ Inherit(owner, Inherited(owner, head, nextAcquiredResource, waitingFor'), heapKey)
         ELSE UNCHANGED <<inheritedPriority, heapKey>>
  /\ UNCHANGED <<current, exclusive, fresh, mutexVars, nextAcquiredResource,
                 acquiredResources, mutex, depth>>

\* OS_notify_resource_aquired(_mutex): pushed on the list of the current task unless the
\* mutex is already counted or already the first of the list.
ResourceAcquired(t) ==
  /\ At(t, "acquired") /\ Goto(t, "count")
  /\ IF counter[mutex[t]] # 0 \/ acquiredResources[t] = mutex[t]
     THEN UNCHANGED <<nextAcquiredResource, acquiredResources>>
     ELSE /\ nextAcquiredResource' =
               [nextAcquiredResource EXCEPT ![mutex[t]] = acquiredResources[t]]
          /\ acquiredResources' = [acquiredResources EXCEPT ![t] = mutex[t]]
  /\ UNCHANGED <<kernelVars, mutexVars, inheritedPriority, heapKey, mutex, depth>>

\* counter++, and the call returns.
Count(t) ==
  /\ At(t, "count") /\ Goto(t, "user")
  /\ counter' = [counter EXCEPT ![mutex[t]] = @ + 1]
  /\ depth' = [depth EXCEPT ![t][mutex[t]] = @ + 1]
  /\ UNCHANGED <<kernelVars, tcbPointer, piVars, mutex>>

(***************************************************************************)
(* OS_mutex_acquire_non_blocking: one attempt, and no reentrance.          *)
(***************************************************************************)
TryLoad(t) ==
  /\ At(t, "tryLoad") /\ LoadExclusive
  /\ IF Free(t) THEN Goto(t, "tryStore") ELSE Goto(t, "user")
  /\ UNCHANGED <<current, fresh, waitingFor, mutexVars, piVars, mutex, depth>>

TryStore(t) ==
  /\ At(t, "tryStore") /\ StoreExclusive /\ Goto(t, "acquired")
  /\ tcbPointer' = [tcbPointer EXCEPT ![mutex[t]] = t]
  /\ UNCHANGED <<current, fresh, waitingFor, counter, piVars, mutex, depth>>

TryStoreFails(t) ==
  /\ At(t, "tryStore") /\ StoreExclusiveFails /\ Goto(t, "user")
  /\ UNCHANGED <<current, fresh, waitingFor, mutexVars, piVars, mutex, depth>>

(***************************************************************************)
(* OS_mutex_release and OS_mutex_release_noYield, which skips the yield.   *)
(***************************************************************************)
Uncount(t) ==
  /\ At(t, "uncount") /\ Mine(t)
  /\ counter' = [counter EXCEPT ![mutex[t]] = @ - 1]
  /\ IF counter[mutex[t]] = 1 THEN Goto(t, "clear") ELSE Goto(t, "user")
  /\ UNCHANGED <<kernelVars, tcbPointer, piVars, mutex, depth>>

Clear(t) ==
  /\ At(t, "clear") /\ Goto(t, "notify")
  /\ tcbPointer' = [tcbPointer EXCEPT ![mutex[t]] = NULL]
  /\ UNCHANGED <<kernelVars, counter, piVars, mutex, depth>>

\* notifyCallback adds the tasks it wakes to the heap, unless they never left it.
WokenKeys(m) ==
  [t \in Tasks |-> IF waitingFor[t] = m /\ heapKey[t] = 0 THEN Effective(t) ELSE heapKey[t]]

\* The tail of notifyCallback: the mutex leaves the list of the current task, if the list
\* holds it, and what the task inherits is computed anew over the shorter list.
Unlink(t, m, keys) ==
  LET head == acquiredResources[t]
      cell == Walk(head, nextAcquiredResource)
      at == CHOOSE i \in 0 .. Cardinality(Mutexes) :
              cell[i] = m /\ \A j \in 0 .. i - 1 : cell[j] # m
      newHead == IF at = 0 THEN nextAcquiredResource[m] ELSE head
      bypassed == IF at = 0 THEN nextAcquiredResource
                  ELSE [nextAcquiredResource EXCEPT ![cell[at - 1]] = nextAcquiredResource[m]]
      unlinked == [bypassed EXCEPT ![m] = NULL]
  IN  IF m \in Acquired(head, nextAcquiredResource)
      THEN /\ nextAcquiredResource' = unlinked
           /\ acquiredResources' = [acquiredResources EXCEPT ![t] = newHead]
           /\ WalkEnds(newHead, unlinked)
           /\ Inherit(t, Inherited(t, newHead, unlinked, waitingFor'), keys)
      ELSE /\ WalkEnds(head, nextAcquiredResource)
           /\ heapKey' = keys
           /\ UNCHANGED <<nextAcquiredResource, acquiredResources, inheritedPriority>>

Notify(t) ==
  /\ At(t, "notify") /\ (Goto(t, "yield") \/ Goto(t, "user"))
  /\ NotifyCallback(mutex[t])
  /\ Unlink(t, mutex[t], WokenKeys(mutex[t]))
  /\ UNCHANGED <<current, mutexVars, mutex, depth>>

\* OS_yield marks the task and pends PendSV, which may pick the task again.
Yield(t) ==
  /\ At(t, "yield") /\ Goto(t, "user")
  /\ UNCHANGED <<kernelVars, mutexVars, piVars, mutex, depth>>

-------------------------------------------------------------------------------
\* PendSV: the scheduler takes the waiting tasks it meets out of the heap (__removeIfWaiting),
\* which are all of them when it comes out with the idle task.
PendSV ==
  /\ LET waiting == {t \in Tasks : ~Runnable(t) /\ heapKey[t] # 0}
     IN  \E met \in SUBSET waiting :
           /\ Schedule \/ (KeepTask /\ met # {})
           /\ current' = Idle => met = waiting
           /\ heapKey' = [t \in Tasks |-> IF t \in met THEN 0 ELSE heapKey[t]]
  /\ UNCHANGED <<nextAcquiredResource, acquiredResources, inheritedPriority, mutexVars, taskVars>>

Call(t) == \E m \in Mutexes : Acquire(t, m) \/ AcquireNonBlocking(t, m) \/ Release(t, m)

InAcquire(t) == Check(t) \/ Load(t) \/ Store(t) \/ StoreRetry(t) \/ Wait(t)
InTry(t) == TryLoad(t) \/ TryStore(t) \/ TryStoreFails(t)
Entering(t) == ResourceAcquired(t) \/ Count(t)
InRelease(t) == Uncount(t) \/ Clear(t) \/ Notify(t) \/ Yield(t)

Next == \/ PendSV
        \/ \E t \in Tasks : Call(t) \/ InAcquire(t) \/ InTry(t) \/ Entering(t) \/ InRelease(t)

Spec == Init /\ [][Next]_vars

(***************************************************************************)
(* Fairness. The scheduler's random choice reaches every runnable task     *)
(* sooner or later, and a dispatched task runs for a good part of a tick:  *)
(* it does not lose the CPU before every one of its steps, nor between     *)
(* every LDREX and its STREX. A task that holds a mutex releases it.       *)
(***************************************************************************)
Works(t) == \/ \E m \in Mutexes : Release(t, m)
            \/ InAcquire(t) \/ InTry(t) \/ Entering(t) \/ InRelease(t)

Fairness == \A t \in Tasks : /\ WF_vars(PendSV /\ current # t /\ current' = t)
                             /\ SF_vars(Works(t))
                             /\ SF_vars(Store(t))

FairSpec == Spec /\ Fairness

-------------------------------------------------------------------------------
\* t may touch the fields of m: it is between the STREX that took m and the store that
\* gives m up.
InCritical(t, m) == \/ Owns(t, m)
                    \/ mutex[t] = m /\ pc[t] \in {"acquired", "count", "uncount", "clear"}

\* The mutex does its job over LDREX/STREX, preemption and reentrance: two tasks are never
\* both between taking a mutex and giving it up (mutex.c:33-105).
MutualExclusion == \A m \in Mutexes : \A t, u \in Tasks :
                     InCritical(t, m) /\ InCritical(u, m) => t = u

\* The lock counter, changed by plain loads and stores, always says how often its owner
\* has locked the mutex, and a free mutex starts again from 0 (mutex.c:63, 96-99): the
\* outermost release and no other frees the mutex.
CounterIsDepth ==
  \A m \in Mutexes :
    IF tcbPointer[m] = NULL THEN counter[m] = 0
    ELSE LET o == tcbPointer[m]
         IN  counter[m] = depth[o][m]
               + IF pc[o] = "uncount" /\ mutex[o] = m THEN 1 ELSE 0

\* No lost wakeup: a task is parked on a mutex only while somebody owns it or is about to
\* notify. This is what the check code is for (mutex.c:38-57, os.c:182-188,
\* stochasticScheduler.c:315-317).
ReleasePending(m) == \/ tcbPointer[m] # NULL
                     \/ \E u \in Tasks : pc[u] = "notify" /\ mutex[u] = m
NoLostWakeup == \A t \in Tasks : waitingFor[t] # NULL => ReleasePending(waitingFor[t])

\* A task never waits for a mutex it holds itself: nesting does not deadlock a task
\* with itself (mutex.c:40).
NoSelfWait == \A m \in Mutexes : \A t \in Waiters(m) : ~Owns(t, m)

\* The inductive invariant behind the four properties above; MutexProofs proves it.
\* Whoever is in a critical section is the owner, and the owner's STREX can only succeed
\* on what its LDREX has seen.
CriticalOwns == \A t \in Tasks : \A m \in Mutexes : InCritical(t, m) => tcbPointer[m] = t
MonitorGuards ==
  \A t \in Tasks : current = t /\ exclusive =>
    /\ pc[t] = "store" => tcbPointer[mutex[t]] \in {NULL, t}
    /\ pc[t] = "tryStore" => tcbPointer[mutex[t]] = NULL
ClearIsLast == \A t \in Tasks : pc[t] = "clear" => counter[mutex[t]] = 0
WaitJustified == \A t \in Tasks : pc[t] = "wait" =>
                   /\ ~Owns(t, mutex[t])
                   /\ t \in fresh => ReleasePending(mutex[t])
ParkedInAcquire == \A t \in Tasks : waitingFor[t] # NULL =>
                     /\ pc[t] = "check" /\ mutex[t] = waitingFor[t]
                     /\ ~Owns(t, waitingFor[t])
                     /\ ReleasePending(waitingFor[t])

IInv == /\ TypeOK /\ CriticalOwns /\ MonitorGuards /\ CounterIsDepth
        /\ ClearIsLast /\ WaitJustified /\ ParkedInAcquire

\* The scheduler always sees how urgent a task is now: a task it can pick is in the heap,
\* and the key of a task there is what the task inherits, or else its own priority, even if
\* the task waits, left the heap or came back while that changed
\* (stochasticScheduler.c:369-384, 461-493, 556-570).
HeapKeyIsUrgency == \A t \in Tasks : IF heapKey[t] = 0 THEN ~Runnable(t)
                                     ELSE heapKey[t] = Effective(t)

\* A mutex that tasks are trying to lock is locked by one of them eventually: the retry
\* loop and the waits cannot keep everybody out (mutex.c:37-61).
Trying(t, m) == mutex[t] = m /\ pc[t] \in {"check", "load", "store", "wait"}
LockProgress == \A m \in Mutexes :
                  (\E t \in Tasks : Trying(t, m)) ~> (\E t \in Tasks : Owns(t, m))

(***************************************************************************)
(* What the comments say and the code does not do. A run refutes           *)
(* InheritanceEnds; the README says how to see the others fail.            *)
(***************************************************************************)

\* "... as long as it holds the resource" (stochasticScheduler.c:441): a task runs with an
\* inherited priority only while it holds a mutex, or has freed one and not yet notified.
InheritanceEnds == \A t \in Tasks : inheritedPriority[t] # 0 =>
                     \E m \in Mutexes : InCritical(t, m) \/ (pc[t] = "notify" /\ mutex[t] = m)

\* "The task will use the highest priority [of the tasks waiting on resources acquired by
\* this task] as its own priority as long as it holds the resource"
\* (stochasticScheduler.c:439-441).
OwnerInherits == \A m \in Mutexes : \A o, w \in Tasks :
                   Owns(o, m) /\ waitingFor[w] = m => Effective(o) <= Effective(w)

\* "acquiredResourcesLinkedList ... linked list of acquired resources"
\* (stochasticScheduler.c:388, 504; structs.h:75, 86): a task that is not inside a call has
\* exactly the mutexes it holds in its list.
ListIsHeldSet == \A t \in Tasks : pc[t] = "user" =>
                   Acquired(acquiredResources[t], nextAcquiredResource)
                     = {m \in Mutexes : Owns(t, m)}

\* "reset to avoid infinite loop" (stochasticScheduler.c:400): the walks over a list of
\* acquired mutexes, made inside SVC handlers, come to an end.
ListsEnd == \A t \in Tasks : WalkEnds(acquiredResources[t], nextAcquiredResource)

\* "somebody else holds the lock, wait for its release" (mutex.c:53): the callback that
\* parks the task finds an owner to hand its priority to (stochasticScheduler.c:343-347).
WaitFindsOwner == [][\A t \in Tasks :
                       Wait(t) /\ WaitParks(t) => tcbPointer[mutex[t]] # NULL]_vars
===============================================================================
