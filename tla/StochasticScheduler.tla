------------------------- MODULE StochasticScheduler -------------------------
(***************************************************************************)
(* The scheduler of OS/stochasticScheduler.c: its hash tables, the two     *)
(* heaps, the state flags of the TCBs, and the walk PendSV makes through   *)
(* them. Supervisor calls and ticks happen in thread mode; PendSV then     *)
(* runs to its end, in the steps of its loops, before anything else does.  *)
(*                                                                         *)
(* The tables have room for 32 tasks, twice the heap, and are never full   *)
(* here. Priority inheritance is the subject of Mutex; here a task has one *)
(* priority. The random choice of a node is any choice.                    *)
(*                                                                         *)
(* A program should hand a TCB to OS_addTask once. OS_addTask does not see *)
(* to that: it takes a TCB again, and it gets one more node. Readded names *)
(* the tasks a program does that to. The index table of a heap keeps one   *)
(* entry for all nodes of a task, and a swap that misses it stops the core *)
(* (heap.c:90-99). This never happens in a heap of equal keys, hence the   *)
(* assumption on Priority; in the sleep heap the core may stop where this  *)
(* model goes on. The core also stops (ASSERT) when OS_addTask is given    *)
(* NULL, priority 0 or a task with a flag set: no such call is made here.  *)
(***************************************************************************)
EXTENDS Heap, FiniteSets

CONSTANTS Tasks,       \* addresses of TCBs
          Idle,        \* OS_idleTCB_p
          Reasons, NULL,
          Priority,    \* the priority a task is added with
          Bucket,      \* the bucket a TCB's address hashes to
          Buckets,     \* numberOfBuckets
          TableCapacity, \* entries a hash table has room for
          MaxNodes,    \* capacity of both heaps
          MaxTaskTime, \* MAX_TASK_TIME_IN_SYSTICKS
          Modulus,     \* the tick counter wraps: UINT32_MAX + 1
          Durations,   \* what tasks ask OS_sleep for
          LastTick,    \* bound: no tick after this one, Modulus for none
          Exiting,     \* the tasks whose function returns
          Readded,     \* the tasks the program may add again
          Wanted       \* the task whose progress FairSpec is about

ASSUME SchedulerAssumption ==
  /\ Idle \notin Tasks /\ NULL \notin Reasons \cup Tasks
  /\ IsFiniteSet(Tasks) /\ TableCapacity \in Nat /\ Cardinality(Tasks) <= TableCapacity
  /\ Buckets \in Nat \ {0} /\ Bucket \in [Tasks -> 1 .. Buckets]
  /\ Priority \in [Tasks -> Nat \ {0}]
  /\ {MaxNodes, MaxTaskTime, Modulus} \subseteq Nat \ {0}
  /\ Durations \subseteq 1 .. Modulus - 1 /\ LastTick \in 0 .. Modulus
  /\ Exiting \subseteq Tasks /\ Wanted \in Tasks /\ Readded \subseteq Tasks \ Exiting
  /\ Readded # {} => \A t, u \in Tasks : Priority[t] = Priority[u]

VARIABLES
  current,       \* _currentTCB
  ticks,         \* _ticks
  allocated,     \* TCBs that OS_alloc handed out and OS_free did not take back
  state,         \* tcb->state, the set of its flags
  data, data2,   \* tcb->data, tcb->data2 of a sleeping task: last update, remaining ticks
  active,        \* activeTasksHashTable
  tasksInHeap,   \* tasksInSchedulerHeapHashTable
  sleeping,      \* sleepingTasksHashTable: the tasks in each bucket, the newest first
  waiting,       \* waitingTasksHashTable_reasonAsKey: the tasks under each key, newest first
  mirror,        \* waitingTasksHashTable_tcbAsKey
  schedulerHeap, sleepHeap,
  completed,     \* comletedTasksLinkedList
  rollover,      \* systick_rollover_detected_FLAG
  taskTicks,     \* ticksSinceLastTaskSwitch
  phase,         \* what the core is in: boot, thread code, or a loop of PendSV
  unvisited,     \* what the rollover loop has still to visit of each bucket of sleeping
  node, lastActiveNode, maxValidNode, \* nodeIndex, lastActiveNodeIndex, maxValidHeapIdx, 1-based
  due            \* history: ticks until the end of the sleep a task asked for

tcbVars == <<allocated, state, data, data2>>
waitVars == <<waiting, mirror>>
nodeVars == <<node, lastActiveNode, maxValidNode>>
walkVars == <<unvisited, nodeVars>>
tableVars == <<active, tasksInHeap, sleeping>>
vars == <<current, ticks, tcbVars, tableVars, waitVars, schedulerHeap, sleepHeap,
          completed, rollover, taskTicks, phase, walkVars, due>>

Flags == {"yield", "sleep", "wait", "exit"}
Phases == {"boot", "thread", "pended", "rollover", "wake", "select"}
HeapNodes == [content : Tasks, value : Nat \ {0}]
IsHeap(heap) == heap \in Seq(HeapNodes) /\ Len(heap) <= MaxNodes

TypeOK ==
  /\ current \in Tasks \cup {Idle} /\ ticks \in 0 .. Modulus - 1
  /\ allocated \subseteq Tasks /\ active \subseteq Tasks /\ tasksInHeap \subseteq Tasks
  /\ state \in [Tasks -> SUBSET Flags]
  /\ data \in [Tasks -> 0 .. Modulus - 1] /\ data2 \in [Tasks -> 0 .. Modulus - 1]
  /\ sleeping \in [1 .. Buckets -> Seq(Tasks)]
  /\ unvisited \in [1 .. Buckets -> Seq(Tasks \cup {NULL})]
  /\ waiting \in [Reasons -> Seq(Tasks)]
  /\ mirror \in [Tasks -> Reasons \cup {NULL}]
  /\ IsHeap(schedulerHeap) /\ IsHeap(sleepHeap)
  /\ completed \subseteq Tasks /\ rollover \in BOOLEAN
  /\ taskTicks \in 0 .. MaxTaskTime /\ phase \in Phases
  /\ {node, lastActiveNode} \subseteq 1 .. MaxNodes /\ maxValidNode \in 0 .. MaxNodes
  /\ due \in [Tasks -> 0 .. Modulus - 1]

NoEntries == [b \in 1 .. Buckets |-> <<>>]

\* initialize_scheduler; main then adds tasks and calls OS_start.
Init ==
  /\ current = Idle /\ ticks = 0 /\ phase = "boot"
  /\ allocated = {} /\ active = {} /\ tasksInHeap = {} /\ completed = {}
  /\ state = [t \in Tasks |-> {}]
  /\ data = [t \in Tasks |-> 0] /\ data2 = data /\ due = data
  /\ mirror = [t \in Tasks |-> NULL]
  /\ sleeping = NoEntries /\ unvisited = NoEntries /\ waiting = [r \in Reasons |-> <<>>]
  /\ schedulerHeap = <<>> /\ sleepHeap = <<>>
  /\ rollover = FALSE /\ taskTicks = 0
  /\ node = 1 /\ lastActiveNode = 1 /\ maxValidNode = 0

-------------------------------------------------------------------------------
\* OS_heap_addNode: a full heap refuses the node, and no caller looks at the answer.
Inserted(heap, t, value) == IF Len(heap) < MaxNodes THEN AddNode(heap, t, value) ELSE heap

\* Mutant: the node is added whether or not the task is in the heap already.
ReturnedAlways(heap, t) == Inserted(heap, t, Priority[t])

\* A task becomes active again: it is added to the heap if the table of the tasks in the
\* heap accepts it, that is if the task has not stayed there.
Returned(heap, t) == IF t \in tasksInHeap THEN heap ELSE Inserted(heap, t, Priority[t])

\* The tasks a table holds.
Listed(table) == UNION {{table[key][i] : i \in DOMAIN table[key]} : key \in DOMAIN table}

\* The bucket of a table after OS_hashtable_remove, which takes the first entry it finds.
Without(list, t) ==
  LET IsFirst(at) == list[at] = t /\ \A i \in 1 .. at - 1 : list[i] # t
      first == CHOOSE at \in DOMAIN list : IsFirst(at)
  IN  IF \A i \in DOMAIN list : list[i] # t THEN list
      ELSE [i \in 1 .. Len(list) - 1 |-> IF i < first THEN list[i] ELSE list[i + 1]]

-------------------------------------------------------------------------------
(***************************************************************************)
(* Supervisor calls, by main before the start and by the current task.     *)
(***************************************************************************)
Executing == phase = "thread" /\ current \in Tasks

\* OS_addTask. Both tables refuse a task they hold; their answers are not looked at, and
\* the heap takes it in any case.
AddTask(t) ==
  /\ phase = "boot" \/ Executing
  /\ active' = active \cup {t}
  /\ tasksInHeap' = tasksInHeap \cup {t}
  /\ schedulerHeap' = Inserted(schedulerHeap, t, Priority[t])
  /\ UNCHANGED <<current, ticks, data, data2, sleeping, waitVars, sleepHeap, completed,
                 rollover, taskTicks, phase, walkVars, due>>

\* OS_alloc of a TCB, OS_initialiseTCB and OS_addTask.
NewTask(t) ==
  /\ t \notin allocated
  /\ allocated' = allocated \cup {t}
  /\ state' = [state EXCEPT ![t] = {}]
  /\ AddTask(t)

\* OS_addTask of a TCB the scheduler has, which passes if no flag of it is set.
AddAgain(t) ==
  /\ t \in allocated /\ state[t] = {}
  /\ AddTask(t)
  /\ UNCHANGED <<allocated, state>>

\* OS_start: the idle task enables the tick and calls OS_schedule.
Start ==
  /\ phase = "boot" /\ allocated # {} /\ phase' = "pended"
  /\ UNCHANGED <<current, ticks, tcbVars, tableVars, waitVars, schedulerHeap, sleepHeap,
                 completed, rollover, taskTicks, walkVars, due>>

\* The task's function returns into _OS_task_end.
Exit ==
  /\ Executing /\ current \in Exiting /\ phase' = "pended"
  /\ state' = [state EXCEPT ![current] = @ \cup {"exit"}]
  /\ data' = [data EXCEPT ![current] = 0]
  /\ UNCHANGED <<current, ticks, allocated, data2, tableVars, waitVars, schedulerHeap,
                 sleepHeap, completed, rollover, taskTicks, walkVars, due>>

Yield ==
  /\ Executing /\ phase' = "pended"
  /\ state' = [state EXCEPT ![current] = @ \cup {"yield"}]
  /\ UNCHANGED <<current, ticks, allocated, data, data2, tableVars, waitVars, schedulerHeap,
                 sleepHeap, completed, rollover, taskTicks, walkVars, due>>

\* A supervisor call that only sets PendSV pending: a wait with an old check code, a sleep
\* of 0 ticks.
Pend ==
  /\ Executing /\ phase' = "pended"
  /\ UNCHANGED <<current, ticks, tcbVars, tableVars, waitVars, schedulerHeap, sleepHeap,
                 completed, rollover, taskTicks, walkVars, due>>

\* OS_wait with a fresh check code. The second table refuses a reason that is already in
\* the bucket of the task's address; its answer is not looked at.
Wait(r) ==
  /\ Executing /\ phase' = "pended"
  /\ active' = active \ {current}
  /\ waiting' = [waiting EXCEPT ![r] = <<current>> \o @]
  /\ mirror' = IF \E t \in Tasks : mirror[t] = r /\ Bucket[t] = Bucket[current]
               THEN mirror ELSE [mirror EXCEPT ![current] = r]
  /\ state' = [state EXCEPT ![current] = @ \cup {"wait"}]
  /\ UNCHANGED <<current, ticks, allocated, data, data2, tasksInHeap, sleeping, schedulerHeap,
                 sleepHeap, completed, rollover, taskTicks, walkVars, due>>

\* OS_notify: every task that waits for the reason becomes active, the newest first.
Notify(r) ==
  LET woken == {waiting[r][i] : i \in DOMAIN waiting[r]}
      heap[n \in 0 .. Len(waiting[r])] ==
        IF n = 0 THEN schedulerHeap ELSE Returned(heap[n - 1], waiting[r][n])
  IN  /\ Executing
      /\ active' = active \cup woken
      /\ tasksInHeap' = tasksInHeap \cup woken
      /\ waiting' = [waiting EXCEPT ![r] = <<>>]
      /\ mirror' = [t \in Tasks |-> IF t \in woken THEN NULL ELSE mirror[t]]
      /\ state' = [t \in Tasks |-> IF t \in woken THEN state[t] \ {"wait"} ELSE state[t]]
      /\ schedulerHeap' = heap[Len(waiting[r])]
      /\ UNCHANGED <<current, ticks, allocated, data, data2, sleeping, sleepHeap, completed,
                     rollover, taskTicks, phase, walkVars, due>>

\* OS_sleep for more than 0 ticks.
Sleep(d) ==
  /\ Executing /\ phase' = "pended"
  /\ active' = active \ {current}
  /\ sleeping' = [sleeping EXCEPT ![Bucket[current]] = <<current>> \o @]
  /\ state' = [state EXCEPT ![current] = @ \cup {"sleep"}]
  /\ data' = [data EXCEPT ![current] = ticks]
  /\ data2' = [data2 EXCEPT ![current] = d]
  /\ due' = [due EXCEPT ![current] = d]
  /\ UNCHANGED <<current, ticks, allocated, tasksInHeap, waitVars, schedulerHeap, sleepHeap,
                 completed, rollover, taskTicks, walkVars>>

SysTick ==
  /\ phase = "thread" /\ ticks # LastTick /\ phase' = "pended"
  /\ ticks' = (ticks + 1) % Modulus
  /\ due' = [t \in Tasks |-> IF due[t] = 0 THEN 0 ELSE due[t] - 1]
  /\ UNCHANGED <<current, tcbVars, tableVars, waitVars, schedulerHeap, sleepHeap, completed,
                 rollover, taskTicks, walkVars>>

-------------------------------------------------------------------------------
(***************************************************************************)
(* __updateSleepState. It compares clock readings that may lie on both     *)
(* sides of a wrap, and then counts one tick too few.                      *)
(***************************************************************************)
Wrapped(t) == data[t] > ticks

\* Mutant: the two ends of the wrap are both counted.
ElapsedTooLong(t) == IF Wrapped(t) THEN ticks + (Modulus + 1 - data[t]) ELSE ticks - data[t]

Elapsed(t) == IF Wrapped(t) THEN ticks + (Modulus - 1 - data[t]) ELSE ticks - data[t]

IsSleeping(t) == "sleep" \in state[t]
StaysAsleep(t) == IsSleeping(t) /\ data2[t] > Elapsed(t)
WakesUp(t) == IsSleeping(t) /\ data2[t] <= Elapsed(t)

DetectRollover(t) == rollover' = (rollover \/ Wrapped(t))

KeepAsleep(t) ==
  /\ DetectRollover(t)
  /\ data' = [data EXCEPT ![t] = ticks]
  /\ data2' = [data2 EXCEPT ![t] = @ - Elapsed(t)]
  /\ UNCHANGED <<state, active, sleeping>>

\* The time stamp of a task that is awake is never read; it is 0 here.
WakeUp(t) ==
  /\ DetectRollover(t)
  /\ data' = [data EXCEPT ![t] = 0]
  /\ data2' = [data2 EXCEPT ![t] = 0]
  /\ state' = [state EXCEPT ![t] = @ \ {"sleep"}]
  /\ sleeping' = [sleeping EXCEPT ![Bucket[t]] = Without(@, t)]
  /\ active' = active \cup {t}
  /\ tasksInHeap' = tasksInHeap \cup {t}
  /\ schedulerHeap' = Returned(schedulerHeap, t)

LeaveAwake == UNCHANGED <<rollover, data, data2, state, tableVars, schedulerHeap>>

-------------------------------------------------------------------------------
(***************************************************************************)
(* PendSV.                                                                 *)
(***************************************************************************)
\* Mutant: a task may run one tick longer.
MayContinueLonger == current # Idle /\ state[current] = {} /\ taskTicks <= MaxTaskTime

MayContinue == current # Idle /\ state[current] = {} /\ taskTicks < MaxTaskTime

Continue ==
  /\ phase = "pended" /\ MayContinue
  /\ phase' = "thread"
  /\ taskTicks' = taskTicks + 1
  /\ UNCHANGED <<current, ticks, tcbVars, tableVars, waitVars, schedulerHeap, sleepHeap,
                 completed, rollover, walkVars, due>>

\* Mutant: reclaimed TCBs stay on the list.
ReclaimKeepsList == allocated' = allocated \ completed /\ UNCHANGED completed

\* OS_free of the stack and the TCB of every task on the list.
Reclaim == allocated' = allocated \ completed /\ completed' = {}

\* The tasks that exited are reclaimed unless a task is inside the memory cluster.
Preempt ==
  /\ phase = "pended" /\ ~MayContinue
  /\ Reclaim \/ (completed # {} /\ UNCHANGED <<allocated, completed>>)
  /\ state' = IF current = Idle THEN state ELSE [state EXCEPT ![current] = @ \ {"yield"}]
  /\ taskTicks' = 0
  /\ phase' = IF rollover THEN "rollover" ELSE "wake"
  /\ unvisited' = IF rollover THEN sleeping ELSE NoEntries
  /\ UNCHANGED <<current, ticks, data, data2, tableVars, waitVars, schedulerHeap, sleepHeap,
                 rollover, nodeVars, due>>

\* The free list of the table of sleeping tasks: entries with null pointers.
FreeEntries == [i \in 1 .. TableCapacity - Cardinality(Listed(sleeping)) |-> NULL]

\* Mutant: the free list ends in an entry that is linked to itself.
FollowItself(b) ==
  unvisited' = IF unvisited[b] = <<NULL>> THEN unvisited ELSE [unvisited EXCEPT ![b] = Tail(@)]

\* The rollover loop goes on with the next entry.
Follow(b) == unvisited' = [unvisited EXCEPT ![b] = Tail(@)]

\* One entry of the rollover loop, which goes through the buckets in order. The entry of a
\* task that wakes up becomes the first of the table's free list, and the loop follows it
\* there: it misses the rest of the bucket and visits every entry that was free before. The
\* state it reads through their null pointers is a word of the vector table in which the
\* flag of a sleeping task is not set.
Roll ==
  /\ phase = "rollover"
  /\ \E b \in 1 .. Buckets :
       /\ unvisited[b] # <<>> /\ \A c \in 1 .. b - 1 : unvisited[c] = <<>>
       /\ LET t == Head(unvisited[b])
          IN  \/ /\ t = NULL /\ LeaveAwake /\ Follow(b)
              \/ /\ t # NULL /\ StaysAsleep(t) /\ KeepAsleep(t) /\ Follow(b)
                 /\ UNCHANGED <<tasksInHeap, schedulerHeap>>
              \/ /\ t # NULL /\ WakesUp(t) /\ WakeUp(t)
                 /\ unvisited' = [unvisited EXCEPT ![b] = FreeEntries]
  /\ UNCHANGED <<current, ticks, allocated, waitVars, sleepHeap, completed, taskTicks, phase,
                 nodeVars, due>>

RollEnd ==
  /\ phase = "rollover" /\ unvisited = NoEntries
  /\ rollover' = FALSE /\ phase' = "wake"
  /\ UNCHANGED <<current, ticks, tcbVars, tableVars, waitVars, schedulerHeap, sleepHeap,
                 completed, taskTicks, walkVars, due>>

EnterSelect ==
  phase' = "select" /\ node' = 1 /\ lastActiveNode' = 1 /\ maxValidNode' = Len(schedulerHeap)

\* One round of the loop that wakes tasks from the top of the sleep heap. It drops a task
\* that wakes up, or is awake already, and ends with one that is asleep.
WakeTop ==
  /\ phase = "wake" /\ sleepHeap # <<>>
  /\ LET t == sleepHeap[1].content
         rest == RemoveNode(sleepHeap)
     IN  \/ /\ StaysAsleep(t) /\ KeepAsleep(t) /\ UNCHANGED <<tasksInHeap, schedulerHeap>>
            /\ sleepHeap' = AddNode(rest, t, data2'[t])
            /\ EnterSelect
         \/ /\ WakesUp(t) /\ WakeUp(t)
            /\ sleepHeap' = rest
            /\ UNCHANGED <<phase, nodeVars>>
         \/ /\ ~IsSleeping(t) /\ LeaveAwake
            /\ sleepHeap' = rest
            /\ UNCHANGED <<phase, nodeVars>>
  /\ UNCHANGED <<current, ticks, allocated, waitVars, completed, taskTicks, unvisited, due>>

WakeEnd ==
  /\ phase = "wake" /\ sleepHeap = <<>> /\ EnterSelect
  /\ UNCHANGED <<current, ticks, tcbVars, tableVars, waitVars, schedulerHeap, sleepHeap,
                 completed, rollover, taskTicks, unvisited, due>>

-------------------------------------------------------------------------------
\* The walk down the scheduler heap. It ends with a task, and its variables with it.
Dispatch(t) ==
  /\ current' = t /\ phase' = "thread"
  /\ node' = 1 /\ lastActiveNode' = 1 /\ maxValidNode' = 0

\* Mutant: after a removal the walk goes on below.
AfterRemovalSkips ==
  IF schedulerHeap' = <<>> THEN Dispatch(Idle) ELSE Dispatch(schedulerHeap'[lastActiveNode].content)

\* After a removal the walk ends with the idle task or the last active node it saw when
\* there is no node at its index any more, and looks at the new node otherwise.
AfterRemoval ==
  IF schedulerHeap' = <<>> THEN Dispatch(Idle)
  ELSE IF node > Len(schedulerHeap') THEN Dispatch(schedulerHeap'[lastActiveNode].content)
  ELSE maxValidNode' = Len(schedulerHeap') /\ UNCHANGED <<current, phase, node, lastActiveNode>>

Selected == schedulerHeap[node].content

AtNode == phase = "select" /\ schedulerHeap # <<>>

\* An empty heap leaves the idle task.
SelectIdle ==
  /\ phase = "select" /\ schedulerHeap = <<>> /\ Dispatch(Idle)
  /\ UNCHANGED <<ticks, tcbVars, tableVars, waitVars, schedulerHeap, sleepHeap, completed,
                 rollover, taskTicks, unvisited, due>>

RemoveSelected == /\ schedulerHeap' = RemoveNodeAt(schedulerHeap, node)
                  /\ tasksInHeap' = tasksInHeap \ {Selected}

\* __removeIfExit: the task is freed, or kept on the list while the memory cluster is in
\* use.
RemoveIfExit ==
  /\ AtNode /\ "exit" \in state[Selected]
  /\ RemoveSelected
  /\ active' = active \ {Selected}
  /\ \/ allocated' = allocated \ {Selected} /\ UNCHANGED completed
     \/ completed' = completed \cup {Selected} /\ UNCHANGED allocated
  /\ AfterRemoval
  /\ UNCHANGED <<ticks, state, data, data2, sleeping, waitVars, sleepHeap, rollover, taskTicks,
                 unvisited, due>>

RemoveIfWaiting ==
  /\ AtNode /\ "wait" \in state[Selected]
  /\ RemoveSelected
  /\ AfterRemoval
  /\ UNCHANGED <<ticks, tcbVars, active, sleeping, waitVars, sleepHeap, completed, rollover,
                 taskTicks, unvisited, due>>

RemoveIfSleeping ==
  /\ AtNode /\ StaysAsleep(Selected)
  /\ KeepAsleep(Selected)
  /\ RemoveSelected
  /\ sleepHeap' = Inserted(sleepHeap, Selected, data2'[Selected])
  /\ AfterRemoval
  /\ UNCHANGED <<ticks, allocated, waitVars, completed, taskTicks, unvisited, due>>

\* A node that may run, perhaps because its sleep is over: it is selected, or the walk
\* goes on with one of its children. If it wakes up and is not listed as being in the heap,
\* it gets a node that the walk does not see.
Selectable == AtNode /\ state[Selected] \cap {"exit", "wait"} = {} /\ ~StaysAsleep(Selected)

Select(Choice) ==
  /\ Selectable
  /\ IF IsSleeping(Selected) THEN WakeUp(Selected) ELSE LeaveAwake
  /\ Choice
  /\ UNCHANGED <<ticks, allocated, waitVars, sleepHeap, completed, taskTicks, unvisited, due>>

Take == Select(Dispatch(schedulerHeap'[node].content))

Descend(child) ==
  /\ child <= maxValidNode
  /\ Select(node' = child /\ lastActiveNode' = node /\ UNCHANGED <<current, phase, maxValidNode>>)

\* Mutant: the right child is never chosen.
SelectStepLeft == \/ SelectIdle \/ RemoveIfExit \/ RemoveIfWaiting \/ RemoveIfSleeping
                  \/ Take \/ Descend(FirstChild(node))

SelectStep == \/ SelectIdle \/ RemoveIfExit \/ RemoveIfWaiting \/ RemoveIfSleeping
              \/ Take \/ Descend(FirstChild(node)) \/ Descend(SecondChild(node))

PendSV == Continue \/ Preempt \/ Roll \/ RollEnd \/ WakeTop \/ WakeEnd \/ SelectStep

Calls == \/ \E t \in Tasks : NewTask(t)
         \/ \E t \in Readded : AddAgain(t)
         \/ Start \/ Exit \/ Yield \/ Pend
         \/ \E r \in Reasons : Wait(r) \/ Notify(r)
         \/ \E d \in Durations : Sleep(d)

Next == PendSV \/ SysTick \/ Calls

Spec == Init /\ [][Next]_vars

\* The step of the walk that leads towards the node of the wanted task.
TowardsWanted ==
  Selectable /\ \E i \in DOMAIN schedulerHeap :
    /\ schedulerHeap[i].content = Wanted
    /\ \/ i = node /\ Take
       \/ \E child \in {FirstChild(node), SecondChild(node)} :
            (\E n \in 0 .. Len(schedulerHeap) : Ancestor(i, n) = child) /\ Descend(child)

\* The system starts, the tick keeps coming, nothing keeps the handler PendSV from running
\* on, and at every node that can have a child the random choice falls on each of its
\* outcomes again and again, whatever the wanted task.
FairSpec == /\ Spec /\ WF_vars(Start) /\ WF_vars(PendSV) /\ WF_vars(SysTick)
            /\ \A n \in 1 .. MaxNodes \div 2 : SF_vars(node = n /\ TowardsWanted /\ SelectStep)

-------------------------------------------------------------------------------
Occurrences(heap, t) == Cardinality({i \in DOMAIN heap : heap[i].content = t})
Exists(t) == t \in allocated \ completed

\* However calls, ticks and walks interleave, no task of a program that adds each TCB once
\* is lost or scheduled twice: the table of tasks in the heap tells the truth, a task that
\* sleeps is in one of the heaps, and one that neither sleeps nor waits is in the scheduler
\* heap (stochasticScheduler.c:13-38, 170-177).
InOnePlace ==
  \A t \in Tasks :
    LET scheduled == Occurrences(schedulerHeap, t)
        asleep == Occurrences(sleepHeap, t)
    IN  /\ scheduled = IF t \in tasksInHeap THEN 1 ELSE 0
        /\ Exists(t) => asleep = IF IsSleeping(t) THEN 1 - scheduled ELSE 0
        /\ Exists(t) /\ state[t] \cap {"sleep", "wait"} = {} => t \in active /\ scheduled = 1

\* Whatever else the program adds again and again, and although a task that is in the heap
\* twice wakes up and sleeps with one of its nodes at a time, a task it adds once is never in
\* the scheduler heap twice, also across wraps (stochasticScheduler.c:283-289, 657-664).
OnlyReaddedDoubled ==
  \A t \in Tasks \ Readded : Occurrences(schedulerHeap, t) <= 1

\* A task that exited vanishes: once it is freed, or on the list to be freed, no table and
\* no heap holds its TCB (stochasticScheduler.c:591-592).
ExitVanishes ==
  \A t \in Tasks : ~Exists(t) =>
    /\ t \notin active \cup tasksInHeap \cup Contents(schedulerHeap) \cup Contents(sleepHeap)
    /\ t \notin Listed(sleeping) \cup Listed(waiting)

\* PendSV resumes a task that asked for nothing else, and the idle task only when there is
\* no task it could resume (stochasticScheduler.c:103-105, 194-221).
DispatchesRunnable ==
  phase = "thread" =>
    IF current = Idle THEN \A t \in allocated : state[t] # {}
    ELSE Exists(current) /\ state[current] = {}

\* "Sleep just guarantees that the task wont be executed for at least
\* min_requested_sleep_duration ticks" (os.c:201-203), also when the tick counter wraps.
NeverEarly == \A t \in Tasks : due[t] > 0 => IsSleeping(t)

\* The loops of PendSV end (stochasticScheduler.c:159-166, 179-191, 205-249).
SchedulerReturns == []<>(phase \in {"boot", "thread"})

\* "tasks with a low priority (low down in the heap) will have a small but non-zero chance
\* of getting cpu time" (stochasticScheduler.c:104-105).
Ready(t) == t \in allocated /\ state[t] \subseteq {"yield"}
WantedRuns == []<>(current = Wanted \/ ~Ready(Wanted))

\* "if the top node is not awake then no other node will be awake either"
\* (stochasticScheduler.c:172-173).
NobodyOversleeps ==
  phase = "select" => \A i \in DOMAIN sleepHeap : due[sleepHeap[i].content] > 0

\* "HASHTABLE_REJECT_MULTIPLE_VALUES_PER_KEY prevent the same task (TCB=key) being added
\* multiple times to the scheduler" (stochasticScheduler.c:286).
AddedOnlyOnce == \A t \in Tasks : Occurrences(schedulerHeap, t) <= 1

\* "both waitingTasksHashTable_tcbAsKey and waitingTasksHashTable_reasonAsKey are identical
\* in terms of the tcb pointers they contain" (stochasticScheduler.c:23-24).
MirrorAgrees == {t \in Tasks : mirror[t] # NULL} = Listed(waiting)

\* "Schould there be no space on the heap the task is not added"
\* (stochasticScheduler.c:266).
AddedMeansInHeap == tasksInHeap = Contents(schedulerHeap)
===============================================================================
