--------------------------- MODULE SchedulerProofs ---------------------------
(***************************************************************************)
(* For any tasks, reasons, priorities, tables and clock: the scheduler of  *)
(* stochasticScheduler.c wakes nobody early. In a program that adds each   *)
(* task once and has heaps with room for all, it resumes only tasks that   *)
(* can run, and as long as the tick counter does not wrap it loses and     *)
(* doubles none. Without a wrap it also lets no trace of a task that       *)
(* exited behind. A task that was added once is never in the scheduler     *)
(* heap twice, whatever other tasks the program adds again.                *)
(***************************************************************************)
EXTENDS StochasticScheduler, DataTheorems, FiniteSetTheorems

LEMMA Numbers ==
  /\ MaxNodes \in Nat \ {0} /\ MaxTaskTime \in Nat \ {0} /\ Modulus \in Nat \ {0}
  /\ Buckets \in Nat \ {0} /\ Idle \notin Tasks /\ NULL \notin Reasons \cup Tasks
  /\ Bucket \in [Tasks -> 1 .. Buckets] /\ Priority \in [Tasks -> Nat \ {0}]
  /\ Durations \subseteq 1 .. Modulus - 1 /\ LastTick \in 0 .. Modulus
  /\ IsFiniteSet(Tasks) /\ TableCapacity \in Nat /\ Cardinality(Tasks) <= TableCapacity
  /\ Readded \subseteq Tasks \ Exiting
  /\ Readded # {} => \A t, u \in Tasks : Priority[t] = Priority[u]
BY SchedulerAssumption

(***************************************************************************)
(* The invariant, in two halves: what the tables and flags say about each  *)
(* other, and what the place PendSV is at says about the tasks.            *)
(***************************************************************************)
Blocked(t) == state[t] \cap {"sleep", "wait"} # {}

\* A task asks for one thing at a time.
OneFlag == \A t \in Tasks : \A f, g \in state[t] : f = g

Exited == /\ completed \subseteq allocated /\ \A t \in completed : "exit" \in state[t]
          /\ \A t \in Readded : "exit" \notin state[t]

BlockedExist == \A t \in Tasks : Blocked(t) => t \in allocated

\* The tasks that are added once.
Single == Tasks \ Readded

\* While tasks may be added again all nodes have the same key.
AlikeNodes == {n \in HeapNodes : Readded # {} => \A t \in Tasks : n.value = Priority[t]}

\* A heap that holds no task twice that is added once, and of those none that is not in the
\* set.
Known(heap, S) == /\ OnceIn(heap, Single) /\ heap \in Seq(AlikeNodes)
                  /\ Contents(heap) \subseteq S \cup (Readded \cap allocated)

HeapMembers == Known(schedulerHeap, tasksInHeap) /\ \A t \in tasksInHeap : Exists(t)

ActiveTasks ==
  /\ \A t \in active : Exists(t)
  /\ \A t \in Tasks : Exists(t) /\ ~Blocked(t) => t \in active /\ t \in tasksInHeap

SleepTable ==
  \A b \in 1 .. Buckets : \A i \in DOMAIN sleeping[b] :
    /\ Bucket[sleeping[b][i]] = b /\ IsSleeping(sleeping[b][i])
    /\ \A j \in DOMAIN sleeping[b] : sleeping[b][i] = sleeping[b][j] => i = j

WaitTable ==
  \A r \in Reasons : \A i \in DOMAIN waiting[r] :
    /\ "wait" \in state[waiting[r][i]]
    /\ \A q \in Reasons : \A j \in DOMAIN waiting[q] :
         waiting[r][i] = waiting[q][j] => r = q /\ i = j

\* The stored sleep and the time since it was stored leave at least what is still due.
Dues == \A t \in Tasks : due[t] > 0 => IsSleeping(t) /\ data2[t] >= Elapsed(t) + due[t]

Tables == /\ OneFlag /\ Exited /\ BlockedExist /\ HeapMembers /\ ActiveTasks
          /\ SleepTable /\ WaitTable /\ Dues

YieldsAtOnce == \A t \in Tasks : "yield" \in state[t] => t = current /\ phase = "pended"

CurrentThere ==
  /\ phase = "boot" => current = Idle
  /\ current \in Tasks /\ phase \in {"thread", "pended"} => Exists(current)
  /\ current \in Tasks /\ phase = "thread" => state[current] = {}

\* The walk is at a node whose parent, if it has one, is the last node that can run.
Walk ==
  phase = "select" =>
    \/ schedulerHeap = <<>>
    \/ /\ node \in DOMAIN schedulerHeap /\ maxValidNode <= Len(schedulerHeap)
       /\ node > 1 => /\ lastActiveNode = Parent(node)
                      /\ state[schedulerHeap[lastActiveNode].content] = {}

IInv == TypeOK /\ Tables /\ YieldsAtOnce /\ CurrentThere /\ Walk

-------------------------------------------------------------------------------
(* What the calls of heap.c do to the two heaps. *)

LEMMA HeapFacts ==
  ASSUME NEW heap, IsHeap(heap)
  PROVE  /\ heap \in Seq(HeapNodes) /\ Len(heap) \in Nat /\ Len(heap) <= MaxNodes
         /\ DOMAIN heap = 1 .. Len(heap) /\ (heap = <<>> <=> Len(heap) = 0)
         /\ \A i \in 1 .. Len(heap) : heap[i] \in HeapNodes /\ heap[i].content \in Tasks
         /\ Contents(heap) \subseteq Tasks
<1>1. heap \in Seq(HeapNodes) /\ Len(heap) <= MaxNodes
  BY DEF IsHeap
<1>2. /\ Len(heap) \in Nat /\ DOMAIN heap = 1 .. Len(heap) /\ (heap = <<>> <=> Len(heap) = 0)
      /\ \A i \in 1 .. Len(heap) : heap[i] \in HeapNodes
  BY <1>1
<1>3. \A i \in 1 .. Len(heap) : heap[i].content \in Tasks
  BY <1>2 DEF HeapNodes
<1> QED BY <1>1, <1>2, <1>3 DEF Contents

LEMMA NodeValues == \A n \in HeapNodes : n.value \in Nat
BY DEF HeapNodes

LEMMA InsertedFacts ==
  ASSUME NEW heap, IsHeap(heap), NEW t \in Tasks, NEW value \in Nat \ {0},
         NEW new, new = Inserted(heap, t, value), NEW C
  PROVE  /\ IsHeap(new) /\ Contents(new) \subseteq Contents(heap) \cup {t}
         /\ Len(heap) < MaxNodes => Contents(new) = Contents(heap) \cup {t}
         /\ OnceIn(heap, C) /\ (t \in C => t \notin Contents(heap)) => OnceIn(new, C)
<1>1. CASE Len(heap) < MaxNodes
  <2>1. new = AddNode(heap, t, value) /\ Node(t, value) \in HeapNodes
    BY <1>1 DEF Inserted, Node, HeapNodes
  <2>2. heap \in Seq(HeapNodes) /\ Len(heap) \in Nat
    BY HeapFacts
  <2>3. new \in Seq(HeapNodes) /\ Len(new) = Len(heap) + 1
    BY <2>1, <2>2, AddNodeTyped
  <2>4. IsHeap(new)
    BY <1>1, <2>2, <2>3, Numbers DEF IsHeap
  <2>5. ASSUME NEW D, OnceIn(heap, D), t \in D => t \notin Contents(heap)
        PROVE  OnceIn(new, D) /\ Contents(new) = Contents(heap) \cup {t}
    BY <2>1, <2>2, <2>5, AddNodeOnce
  <2>6. OnceIn(heap, {})
    BY DEF OnceIn
  <2>7. Contents(new) = Contents(heap) \cup {t}
    BY <2>5, <2>6
  <2> QED BY <2>4, <2>5, <2>7
<1>2. CASE ~(Len(heap) < MaxNodes)
  BY <1>2 DEF Inserted
<1> QED BY <1>1, <1>2

\* A node with the key all nodes have stays behind them.
LEMMA InsertedBehind ==
  ASSUME NEW heap, IsHeap(heap), heap \in Seq(AlikeNodes), NEW t \in Tasks,
         NEW new, new = Inserted(heap, t, Priority[t])
  PROVE  /\ new \in Seq(AlikeNodes)
         /\ Readded # {} => \A i \in DOMAIN heap : i \in DOMAIN new /\ new[i] = heap[i]
<1>1. CASE Len(heap) < MaxNodes
  <2>1. new = AddNode(heap, t, Priority[t])
    BY <1>1 DEF Inserted
  <2>2. Node(t, Priority[t]) \in AlikeNodes /\ Priority[t] \in Nat
    BY Numbers DEF Node, HeapNodes, AlikeNodes
  <2>3. new \in Seq(AlikeNodes)
    BY <2>1, <2>2, AddNodeTyped
  <2>4. DOMAIN heap = 1 .. Len(heap)
    BY HeapFacts
  <2>5. ASSUME Readded # {}
        PROVE  \A i \in DOMAIN heap : i \in DOMAIN new /\ new[i] = heap[i]
    <3>1. \A i \in 1 .. Len(heap) : heap[i].value = Priority[t]
      <4>1. \A i \in 1 .. Len(heap) : heap[i] \in AlikeNodes
        OBVIOUS
      <4> QED BY <2>5, <4>1 DEF AlikeNodes
    <3> QED BY <2>1, <2>2, <2>4, <3>1, AddNodeBehind
  <2> QED BY <2>3, <2>5
<1>2. CASE ~(Len(heap) < MaxNodes)
  BY <1>2 DEF Inserted
<1> QED BY <1>1, <1>2

LEMMA RemovedFacts ==
  ASSUME NEW heap, IsHeap(heap), NEW at \in DOMAIN heap, NEW new, new = RemoveNodeAt(heap, at),
         NEW C
  PROVE  /\ IsHeap(new) /\ Len(new) = Len(heap) - 1
         /\ heap \in Seq(AlikeNodes) => new \in Seq(AlikeNodes)
         /\ Contents(new) \subseteq Contents(heap)
         /\ Contents(heap) \ {heap[at].content} \subseteq Contents(new)
         /\ OnceIn(heap, C) =>
              OnceIn(new, C) /\ (heap[at].content \in C => heap[at].content \notin Contents(new))
         /\ \A i \in 1 .. at - 1 : i \in DOMAIN new /\ new[i] = heap[i]
<1>1. heap \in Seq(HeapNodes) /\ Len(heap) \in Nat /\ Len(heap) <= MaxNodes /\ at \in 1 .. Len(heap)
  BY HeapFacts
<1>2. new \in Seq(HeapNodes) /\ Len(new) = Len(heap) - 1
  BY <1>1, NodeValues, RemoveNodeAtTyped
<1>3. IsHeap(new)
  BY <1>1, <1>2, Numbers DEF IsHeap
<1>4. ASSUME NEW D, OnceIn(heap, D)
      PROVE  /\ OnceIn(new, D) /\ (heap[at].content \in D => heap[at].content \notin Contents(new))
             /\ Contents(new) \subseteq Contents(heap)
             /\ Contents(heap) \ {heap[at].content} \subseteq Contents(new)
             /\ \A i \in 1 .. at - 1 : i \in DOMAIN new /\ new[i] = heap[i]
  BY <1>1, <1>4, NodeValues, RemoveNodeAtOnce
<1>5. OnceIn(heap, {})
  BY DEF OnceIn
<1>6. heap \in Seq(AlikeNodes) => new \in Seq(AlikeNodes)
  <2>1. \A n \in AlikeNodes : n.value \in Nat
    BY NodeValues DEF AlikeNodes
  <2> QED BY <1>1, <2>1, RemoveNodeAtTyped
<1> QED BY <1>2, <1>3, <1>4, <1>5, <1>6

\* Both heaps have a node for every task.
Roomy == Cardinality(Tasks) <= MaxNodes

LEMMA RoomForOneMore ==
  ASSUME Roomy, NEW heap, IsHeap(heap), OnceIn(heap, Tasks),
         NEW t \in Tasks, t \notin Contents(heap)
  PROVE  Len(heap) < MaxNodes
<1>1. PICK n \in Nat : Len(heap) = n /\ DOMAIN heap = 1 .. n
  BY HeapFacts
<1> DEFINE f == [i \in 1 .. n |-> heap[i].content]
<1>2. f \in Injection(1 .. n, Tasks \ {t})
  <2>1. \A i \in 1 .. n : heap[i].content \in Tasks \ {t}
    BY <1>1, HeapFacts DEF Contents
  <2>2. \A i, j \in 1 .. n : heap[i].content = heap[j].content => i = j
    BY <1>1, HeapFacts DEF OnceIn
  <2> QED BY <2>1, <2>2 DEF Injection, IsInjective
<1>3. /\ IsFiniteSet(Tasks \ {t}) /\ Cardinality(Tasks \ {t}) = Cardinality(Tasks) - 1
      /\ Cardinality(Tasks) \in Nat
  BY Numbers, FS_RemoveElement, FS_CardinalityType
<1>4. Cardinality(1 .. n) <= Cardinality(Tasks \ {t})
  <2> HIDE DEF f
  <2> QED BY <1>2, <1>3, FS_Injection
<1>5. Cardinality(1 .. n) = n
  <2>1. Cardinality(1 .. n) = IF 1 > n THEN 0 ELSE n - 1 + 1
    BY FS_Interval
  <2> QED BY <2>1
<1> QED BY <1>1, <1>3, <1>4, <1>5, Numbers DEF Roomy

\* A heap that holds exactly the tasks in the set, each once.
Holding(heap, S) == OnceIn(heap, Tasks) /\ Contents(heap) = S

LEMMA ReturnedFacts ==
  ASSUME NEW heap, IsHeap(heap), NEW t \in Tasks, NEW new, new = Returned(heap, t),
         NEW S, tasksInHeap \subseteq S, t \in S => t \in tasksInHeap
  PROVE  /\ IsHeap(new) /\ (t \in tasksInHeap => new = heap)
         /\ Known(heap, S) => Known(new, S \cup {t})
         /\ Roomy /\ Holding(heap, S) => Holding(new, S \cup {t})
<1>1. CASE t \in tasksInHeap
  BY <1>1 DEF Returned, Known, Holding
<1>2. CASE t \notin tasksInHeap
  <2>1. new = Inserted(heap, t, Priority[t]) /\ Priority[t] \in Nat \ {0}
    BY <1>2, Numbers DEF Returned
  <2>2. /\ IsHeap(new) /\ Contents(new) \subseteq Contents(heap) \cup {t}
        /\ Len(heap) < MaxNodes => Contents(new) = Contents(heap) \cup {t}
        /\ \A C : OnceIn(heap, C) /\ (t \in C => t \notin Contents(heap)) => OnceIn(new, C)
    BY <2>1, InsertedFacts
  <2>3. ASSUME Known(heap, S)
        PROVE  Known(new, S \cup {t})
    <3>1. OnceIn(new, Single)
      BY <1>2, <2>2, <2>3 DEF Known, Single
    <3>2. new \in Seq(AlikeNodes)
      BY <2>1, <2>3, InsertedBehind DEF Known
    <3> QED BY <2>2, <2>3, <3>1, <3>2 DEF Known
  <2>4. ASSUME Roomy, Holding(heap, S)
        PROVE  Holding(new, S \cup {t})
    <3>1. OnceIn(heap, Tasks) /\ t \notin Contents(heap)
      BY <1>2, <2>4 DEF Holding
    <3>2. Len(heap) < MaxNodes
      BY <2>4, <3>1, RoomForOneMore
    <3> QED BY <2>2, <2>4, <3>1, <3>2 DEF Holding
  <2> QED BY <1>2, <2>2, <2>3, <2>4
<1> QED BY <1>1, <1>2

\* A task that becomes active again moves no node while tasks may be added again.
LEMMA ReturnedBehind ==
  ASSUME NEW heap, IsHeap(heap), heap \in Seq(AlikeNodes), NEW t \in Tasks, Readded # {}
  PROVE  \A i \in DOMAIN heap :
           i \in DOMAIN Returned(heap, t) /\ Returned(heap, t)[i] = heap[i]
<1>1. CASE t \in tasksInHeap
  BY <1>1 DEF Returned
<1>2. CASE t \notin tasksInHeap
  <2>1. PICK new : new = Inserted(heap, t, Priority[t])
    OBVIOUS
  <2>2. \A i \in DOMAIN heap : i \in DOMAIN new /\ new[i] = heap[i]
    BY <2>1, InsertedBehind
  <2> QED BY <1>2, <2>1, <2>2 DEF Returned
<1> QED BY <1>1, <1>2

\* The heap after n of the tasks in a list have been returned to it.
Returning(h, list) ==
  h = [n \in 0 .. Len(list) |->
         IF n = 0 THEN schedulerHeap ELSE Returned(h[n - 1], list[n])]
Some(list, n) == {list[i] : i \in 1 .. n}

LEMMA ReturningFacts ==
  ASSUME IsHeap(schedulerHeap), tasksInHeap \subseteq Tasks, NEW list \in Seq(Tasks),
         \A i, j \in 1 .. Len(list) : list[i] = list[j] => i = j,
         NEW new, new = (CHOOSE h : Returning(h, list))[Len(list)]
  PROVE  /\ IsHeap(new)
         /\ Known(schedulerHeap, tasksInHeap) =>
              Known(new, tasksInHeap \cup Some(list, Len(list)))
         /\ Roomy /\ Holding(schedulerHeap, tasksInHeap) =>
              Holding(new, tasksInHeap \cup Some(list, Len(list)))
<1> DEFINE Heaps == {h \in Seq(HeapNodes) : IsHeap(h)}
           Step == [n \in Nat |-> [h \in Heaps |->
                      IF n \in 1 .. Len(list) THEN Returned(h, list[n]) ELSE h]]
<1>1. PICK l \in Nat : Len(list) = l /\ \A i \in 1 .. l : list[i] \in Tasks
  OBVIOUS
<1>2. \A h : h \in Heaps <=> IsHeap(h)
  BY DEF IsHeap
<1> HIDE DEF Heaps
<1>3. ASSUME NEW h \in Heaps, NEW t \in Tasks
      PROVE  Returned(h, t) \in Heaps
  <2>1. t \in tasksInHeap => t \in tasksInHeap
    OBVIOUS
  <2> QED BY <1>2, <2>1, ReturnedFacts
<1>4. Step \in [Nat -> [Heaps -> Heaps]]
  BY <1>1, <1>3
<1>5. \A n \in 1 .. l, h \in Heaps : Step[n][h] = Returned(h, list[n])
  BY <1>1
<1> HIDE DEF Step
<1>6. PICK g \in [0 .. l -> Heaps] : Runs(g, l, schedulerHeap, Step)
  BY <1>2, <1>4, RunExists
<1>7. Returning(g, list)
  <2>1. \A n \in 0 .. l : n # 0 => n \in 1 .. l /\ n - 1 \in 0 .. l
    BY <1>1
  <2>2. \A n \in 0 .. l : g[n] = IF n = 0 THEN schedulerHeap ELSE Returned(g[n - 1], list[n])
    BY <1>5, <1>6, <2>1 DEF Runs
  <2>3. g = [n \in 0 .. l |-> g[n]]
    BY <1>6
  <2> QED BY <1>1, <2>2, <2>3 DEF Returning
<1>8. PICK h : Returning(h, list) /\ new = h[l]
  BY <1>1, <1>7
<1>9. h[0] = schedulerHeap /\ \A n \in 0 .. l - 1 : h[n + 1] = Returned(h[n], list[n + 1])
  <2>1. 0 \in 0 .. l
    BY <1>1
  <2>2. ASSUME NEW n \in 0 .. l - 1
        PROVE  n + 1 \in 0 .. l /\ n + 1 # 0 /\ n + 1 - 1 = n
    BY <1>1
  <2> QED BY <1>1, <1>8, <2>1, <2>2 DEF Returning
<1> DEFINE With(n) == tasksInHeap \cup Some(list, n)
           Good == {n \in Nat : n <= l =>
             /\ IsHeap(h[n])
             /\ Known(schedulerHeap, tasksInHeap) => Known(h[n], With(n))
             /\ Roomy /\ Holding(schedulerHeap, tasksInHeap) => Holding(h[n], With(n))}
<1>10. 0 \in Good
  <2>1. With(0) = tasksInHeap
    BY DEF Some
  <2> QED BY <1>9, <2>1
<1>11. ASSUME NEW n \in Nat, n \in Good, n + 1 <= l
       PROVE  n + 1 \in Good
  <2>1. n + 1 \in 1 .. l /\ n \in 0 .. l - 1 /\ n <= l
    BY <1>1, <1>11
  <2>2. h[n + 1] = Returned(h[n], list[n + 1]) /\ list[n + 1] \in Tasks
    BY <1>1, <1>9, <2>1
  <2>3. With(n + 1) = With(n) \cup {list[n + 1]}
    <3>1. 1 .. n + 1 = (1 .. n) \cup {n + 1}
      OBVIOUS
    <3> QED BY <3>1 DEF Some
  <2>4. list[n + 1] \in With(n) => list[n + 1] \in tasksInHeap
    <3>1. \A i \in 1 .. n : i \in 1 .. l /\ i # n + 1
      BY <1>1, <2>1
    <3> QED BY <1>1, <2>1, <3>1 DEF Some
  <2>5. tasksInHeap \subseteq With(n) /\ IsHeap(h[n])
    BY <1>11, <2>1
  <2>6. /\ Known(schedulerHeap, tasksInHeap) => Known(h[n], With(n))
        /\ Roomy /\ Holding(schedulerHeap, tasksInHeap) => Holding(h[n], With(n))
    BY <1>11, <2>1
  <2>7. ASSUME NEW S, S = With(n), NEW old, old = h[n], NEW grown, grown = h[n + 1]
        PROVE  /\ IsHeap(grown)
               /\ Known(old, S) => Known(grown, S \cup {list[n + 1]})
               /\ Roomy /\ Holding(old, S) => Holding(grown, S \cup {list[n + 1]})
    <3>1. /\ grown = Returned(old, list[n + 1]) /\ list[n + 1] \in Tasks /\ IsHeap(old)
          /\ tasksInHeap \subseteq S /\ (list[n + 1] \in S => list[n + 1] \in tasksInHeap)
      BY <2>2, <2>4, <2>5, <2>7
    <3> QED BY ONLY <3>1, ReturnedFacts
  <2>8. /\ IsHeap(h[n + 1])
        /\ Known(schedulerHeap, tasksInHeap) => Known(h[n + 1], With(n + 1))
        /\ Roomy /\ Holding(schedulerHeap, tasksInHeap) => Holding(h[n + 1], With(n + 1))
    <3> HIDE DEF With, Good
    <3> QED BY <2>3, <2>6, <2>7
  <2> QED BY <2>8
<1>12. l \in Good
  <2> DEFINE All == {n \in Nat : n <= l => n \in Good}
  <2>1. 0 \in All
    BY <1>10
  <2>2. ASSUME NEW n \in Nat, n \in All
        PROVE  n + 1 \in All
    <3>1. CASE n + 1 <= l
      <4>1. n <= l
        BY <1>1, <3>1
      <4> QED BY <1>11, <2>2, <3>1, <4>1
    <3>2. CASE ~(n + 1 <= l)
      BY <3>2
    <3> QED BY <3>1, <3>2
  <2>3. l \in All
    <3> HIDE DEF All
    <3> QED BY <2>1, <2>2, Induction
  <2> QED BY <1>1, <2>3
<1> QED BY <1>1, <1>8, <1>12

-------------------------------------------------------------------------------
(* The lists of a table. *)

Once(list) == \A i, j \in DOMAIN list : list[i] = list[j] => i = j

LEMMA ListFacts ==
  ASSUME NEW list \in Seq(Tasks)
  PROVE  /\ Len(list) \in Nat /\ DOMAIN list = 1 .. Len(list)
         /\ \A i \in DOMAIN list : list[i] \in Tasks
OBVIOUS

LEMMA WithoutFacts ==
  ASSUME NEW list \in Seq(Tasks), Once(list), NEW t, NEW new, new = Without(list, t)
  PROVE  /\ new \in Seq(Tasks) /\ Once(new)
         /\ \A i \in DOMAIN new : new[i] # t /\ \E k \in DOMAIN list : new[i] = list[k]
<1>1. PICK l \in Nat : Len(list) = l /\ DOMAIN list = 1 .. l /\ \A i \in 1 .. l : list[i] \in Tasks
  BY ListFacts
<1>2. CASE \A i \in DOMAIN list : list[i] # t
  BY <1>2 DEF Without
<1>3. ASSUME NEW at \in 1 .. l, list[at] = t
      PROVE  /\ new \in Seq(Tasks) /\ Once(new)
             /\ \A i \in DOMAIN new : new[i] # t /\ \E k \in DOMAIN list : new[i] = list[k]
  <2> DEFINE IsFirst(k) == list[k] = t /\ \A i \in 1 .. k - 1 : list[i] # t
             first == CHOOSE k \in DOMAIN list : IsFirst(k)
  <2>1. IsFirst(at)
    <3>1. \A i \in 1 .. at - 1 : i \in 1 .. l /\ i # at
      BY <1>1
    <3> QED BY <1>1, <1>3, <3>1 DEF Once
  <2>2. first \in 1 .. l /\ list[first] = t
    BY <1>1, <2>1
  <2>3. first = at
    BY <1>1, <1>3, <2>2 DEF Once
  <2>4. new = [i \in 1 .. l - 1 |-> IF i < first THEN list[i] ELSE list[i + 1]]
    BY <1>1, <1>3 DEF Without
  <2> HIDE DEF first
  <2> DEFINE from(i) == IF i < at THEN i ELSE i + 1
  <2>5. \A i \in 1 .. l - 1 : from(i) \in 1 .. l /\ from(i) # at
    BY <1>1
  <2>6. \A i, j \in 1 .. l - 1 : from(i) = from(j) => i = j
    BY <1>1
  <2>7. \A i \in 1 .. l - 1 : new[i] = list[from(i)]
    BY <2>3, <2>4
  <2>8. DOMAIN new = 1 .. l - 1
    BY <2>4
  <2> HIDE DEF from
  <2>9. new \in Seq(Tasks)
    <3>1. l - 1 \in Nat
      BY <1>1
    <3>2. new = [i \in 1 .. l - 1 |-> new[i]]
      BY <2>4
    <3>3. new \in [1 .. l - 1 -> Tasks]
      BY <1>1, <2>5, <2>7, <3>2
    <3> QED BY <3>1, <3>3, FunctionIsSequence
  <2>10. Once(new)
    BY <1>1, <2>5, <2>6, <2>7, <2>8 DEF Once
  <2>11. \A i \in DOMAIN new : new[i] # t /\ \E k \in DOMAIN list : new[i] = list[k]
    <3>1. \A k \in 1 .. l : list[k] = t => k = at
      BY <1>1, <1>3 DEF Once
    <3> QED BY <1>1, <2>5, <2>7, <2>8, <3>1
  <2> QED BY <2>9, <2>10, <2>11
<1> QED BY <1>1, <1>2, <1>3

LEMMA PushFacts ==
  ASSUME NEW list \in Seq(Tasks), NEW t \in Tasks, NEW new, new = <<t>> \o list
  PROVE  /\ new \in Seq(Tasks) /\ new[1] = t /\ 1 \in DOMAIN new
         /\ \A i \in DOMAIN new : i = 1 \/ (i - 1 \in DOMAIN list /\ new[i] = list[i - 1])
         /\ \A i \in DOMAIN new, j \in DOMAIN new : i # 1 /\ j # 1 /\ i - 1 = j - 1 => i = j
OBVIOUS

-------------------------------------------------------------------------------
(* The clock. *)

LEMMA ElapsedFacts ==
  ASSUME TypeOK, NEW t \in Tasks
  PROVE  /\ ticks \in Nat /\ data[t] \in Nat /\ data2[t] \in Nat /\ due[t] \in Nat
         /\ Elapsed(t) \in Nat /\ Elapsed(t) < Modulus
<1>1. /\ ticks \in 0 .. Modulus - 1 /\ data[t] \in 0 .. Modulus - 1
      /\ data2[t] \in 0 .. Modulus - 1 /\ due[t] \in 0 .. Modulus - 1 /\ Modulus \in Nat \ {0}
  BY Numbers DEF TypeOK
<1> QED BY <1>1 DEF Elapsed, Wrapped

\* A tick makes the time that seems to have passed at most one longer, wrap or no wrap.
LEMMA TickElapses ==
  ASSUME TypeOK, NEW t \in Tasks, ticks' = (ticks + 1) % Modulus, data' = data
  PROVE  Elapsed(t)' \in Nat /\ Elapsed(t)' <= Elapsed(t) + 1
<1>1. /\ ticks \in 0 .. Modulus - 1 /\ data[t] \in 0 .. Modulus - 1 /\ Modulus \in Nat \ {0}
      /\ data'[t] = data[t]
  BY Numbers DEF TypeOK
<1>2. CASE ticks + 1 < Modulus
  <2>1. ticks' = ticks + 1
    BY <1>1, <1>2
  <2> QED BY <1>1, <1>2, <2>1 DEF Elapsed, Wrapped
<1>3. CASE ticks + 1 = Modulus
  <2>1. ticks' = 0
    BY <1>1, <1>3
  <2> QED BY <1>1, <1>3, <2>1 DEF Elapsed, Wrapped
<1> QED BY <1>1, <1>2, <1>3

-------------------------------------------------------------------------------
(* The steps that change no table, flag or time stamp. *)

LEMMA TablesKept ==
  ASSUME Tables, UNCHANGED <<ticks, tcbVars, tableVars, waiting, schedulerHeap, completed, due>>
  PROVE  Tables'
<1> USE DEF tcbVars, tableVars
<1>1. OneFlag' /\ BlockedExist'
  BY DEF Tables, OneFlag, BlockedExist, Blocked
<1>2. Exited' /\ HeapMembers'
  BY DEF Tables, Exited, HeapMembers, Known, Exists
<1>3. ActiveTasks'
  BY DEF Tables, ActiveTasks, Exists, Blocked
<1>4. SleepTable' /\ WaitTable'
  BY DEF Tables, SleepTable, WaitTable, IsSleeping
<1>5. Dues'
  BY DEF Tables, Dues, IsSleeping, Elapsed, Wrapped
<1> QED BY <1>1, <1>2, <1>3, <1>4, <1>5 DEF Tables

LEMMA StartSafe == ASSUME IInv, Start PROVE IInv'
<1> USE DEF IInv, Start, tcbVars, tableVars, waitVars, walkVars, nodeVars
<1>1. TypeOK'
  BY DEF TypeOK, Phases
<1>2. Tables'
  BY TablesKept
<1>3. YieldsAtOnce' /\ CurrentThere' /\ Walk'
  BY Numbers DEF YieldsAtOnce, CurrentThere, Walk
<1> QED BY <1>1, <1>2, <1>3

LEMMA PendSafe == ASSUME IInv, Pend PROVE IInv'
<1> USE DEF IInv, Pend, tcbVars, tableVars, waitVars, walkVars, nodeVars
<1>1. TypeOK'
  BY DEF TypeOK, Phases
<1>2. Tables'
  BY TablesKept
<1>3. YieldsAtOnce' /\ CurrentThere' /\ Walk'
  BY DEF Executing, YieldsAtOnce, CurrentThere, Walk, Exists
<1> QED BY <1>1, <1>2, <1>3

LEMMA ContinueSafe == ASSUME IInv, Continue PROVE IInv'
<1> USE DEF IInv, Continue, MayContinue, tcbVars, tableVars, waitVars, walkVars, nodeVars
<1>1. TypeOK'
  <2>1. taskTicks' \in 0 .. MaxTaskTime /\ phase' \in Phases
    BY Numbers DEF TypeOK, Phases
  <2> QED BY <2>1 DEF TypeOK
<1>2. Tables'
  BY TablesKept
<1>3. YieldsAtOnce' /\ CurrentThere' /\ Walk'
  BY DEF YieldsAtOnce, CurrentThere, Walk, Exists
<1> QED BY <1>1, <1>2, <1>3

LEMMA RollEndSafe == ASSUME IInv, RollEnd PROVE IInv'
<1> USE DEF IInv, RollEnd, tcbVars, tableVars, waitVars, walkVars, nodeVars
<1>1. TypeOK'
  BY DEF TypeOK, Phases
<1>2. Tables'
  BY TablesKept
<1>3. YieldsAtOnce' /\ CurrentThere' /\ Walk'
  BY DEF YieldsAtOnce, CurrentThere, Walk
<1> QED BY <1>1, <1>2, <1>3

\* The walk begins at the top.
LEMMA WalkBegins ==
  ASSUME TypeOK, EnterSelect, UNCHANGED schedulerHeap
  PROVE  /\ Walk' /\ phase' \in Phases
         /\ {node, lastActiveNode}' \subseteq 1 .. MaxNodes /\ maxValidNode' \in 0 .. MaxNodes
<1>1. /\ schedulerHeap = <<>> \/ 1 \in DOMAIN schedulerHeap
      /\ Len(schedulerHeap) \in Nat /\ Len(schedulerHeap) <= MaxNodes
  BY HeapFacts DEF TypeOK
<1> QED BY <1>1, Numbers DEF EnterSelect, Walk, Phases

LEMMA WakeEndSafe == ASSUME IInv, WakeEnd PROVE IInv'
<1> USE DEF IInv, WakeEnd, tcbVars, tableVars, waitVars
<1>1. TypeOK'
  <2>1. /\ phase' \in Phases /\ {node, lastActiveNode}' \subseteq 1 .. MaxNodes
        /\ maxValidNode' \in 0 .. MaxNodes
    BY WalkBegins
  <2> QED BY <2>1 DEF TypeOK
<1>2. Tables'
  BY TablesKept
<1>3. YieldsAtOnce' /\ CurrentThere'
  BY DEF EnterSelect, YieldsAtOnce, CurrentThere
<1>4. Walk'
  BY WalkBegins
<1> QED BY <1>1, <1>2, <1>3, <1>4

\* The variables of the walk have their types when it has ended.
LEMMA WalkEnds ==
  ASSUME NEW t, Dispatch(t)
  PROVE  /\ Walk' /\ phase' \in Phases
         /\ {node, lastActiveNode}' \subseteq 1 .. MaxNodes /\ maxValidNode' \in 0 .. MaxNodes
<1>1. 1 \in 1 .. MaxNodes /\ 0 \in 0 .. MaxNodes
  BY Numbers
<1> QED BY <1>1 DEF Dispatch, Walk, Phases

LEMMA SelectIdleSafe == ASSUME IInv, SelectIdle PROVE IInv'
<1> USE DEF IInv, SelectIdle, tcbVars, tableVars, waitVars
<1>1. TypeOK'
  <2>1. /\ phase' \in Phases /\ {node, lastActiveNode}' \subseteq 1 .. MaxNodes
        /\ maxValidNode' \in 0 .. MaxNodes /\ current' \in Tasks \cup {Idle}
    BY WalkEnds DEF Dispatch
  <2> QED BY <2>1 DEF TypeOK
<1>2. Tables'
  BY TablesKept
<1>3. YieldsAtOnce' /\ CurrentThere' /\ Walk'
  BY Numbers DEF Dispatch, YieldsAtOnce, CurrentThere, Walk
<1> QED BY <1>1, <1>2, <1>3

LEMMA SysTickSafe == ASSUME IInv, SysTick PROVE IInv'
<1> USE DEF IInv, SysTick, tcbVars, tableVars, waitVars, walkVars, nodeVars
<1>1. TypeOK'
  <2>1. ticks' \in 0 .. Modulus - 1
    BY Numbers DEF TypeOK
  <2>2. due' \in [Tasks -> 0 .. Modulus - 1]
    <3>1. Modulus \in Nat \ {0} /\ \A t \in Tasks : due[t] \in 0 .. Modulus - 1
      BY Numbers DEF TypeOK
    <3>2. \A t \in Tasks : (IF due[t] = 0 THEN 0 ELSE due[t] - 1) \in 0 .. Modulus - 1
      BY ONLY <3>1
    <3> QED BY <3>2
  <2> QED BY <2>1, <2>2 DEF TypeOK, Phases
<1>2. Tables'
  <2> USE DEF Tables
  <2>1. OneFlag' /\ BlockedExist' /\ Exited'
    BY DEF OneFlag, BlockedExist, Blocked, Exited
  <2>2. HeapMembers' /\ ActiveTasks'
    BY DEF HeapMembers, Known, ActiveTasks, Exists, Blocked
  <2>3. SleepTable' /\ WaitTable'
    BY DEF SleepTable, WaitTable, IsSleeping
  <2>4. ASSUME NEW t \in Tasks, (due[t] > 0)'
        PROVE  (IsSleeping(t) /\ data2[t] >= Elapsed(t) + due[t])'
    <3>1. due[t] \in Nat /\ data2[t] \in Nat /\ Elapsed(t) \in Nat
      BY ElapsedFacts
    <3>2. due[t] > 0 /\ due'[t] = due[t] - 1
      BY <2>4, <3>1
    <3>3. IsSleeping(t) /\ data2[t] >= Elapsed(t) + due[t]
      BY <3>2 DEF Dues
    <3>4. Elapsed(t)' \in Nat /\ Elapsed(t)' <= Elapsed(t) + 1
      BY TickElapses
    <3>5. IsSleeping(t)'
      BY <3>3 DEF IsSleeping
    <3>6. data2'[t] >= Elapsed(t)' + due'[t]
      <4> HIDE DEF SysTick
      <4>1. data2' = data2
        BY DEF SysTick
      <4> QED BY <3>1, <3>2, <3>3, <3>4, <4>1
    <3> QED BY <3>5, <3>6
  <2> QED BY <2>1, <2>2, <2>3, <2>4 DEF Dues
<1>3. YieldsAtOnce' /\ CurrentThere' /\ Walk'
  BY DEF YieldsAtOnce, CurrentThere, Walk, Exists
<1> QED BY <1>1, <1>2, <1>3

-------------------------------------------------------------------------------
(* The supervisor calls. *)

LEMMA Entries ==
  ASSUME TypeOK
  PROVE  /\ \A b \in 1 .. Buckets : /\ sleeping[b] \in Seq(Tasks)
                                   /\ \A i \in DOMAIN sleeping[b] : sleeping[b][i] \in Tasks
         /\ \A r \in Reasons : /\ waiting[r] \in Seq(Tasks)
                              /\ \A i \in DOMAIN waiting[r] : waiting[r][i] \in Tasks
<1>1. /\ \A b \in 1 .. Buckets : sleeping[b] \in Seq(Tasks)
      /\ \A r \in Reasons : waiting[r] \in Seq(Tasks)
  BY DEF TypeOK
<1> QED BY <1>1, ListFacts

\* The task that calls the scheduler asked for nothing before, so no table holds it.
LEMMA Caller ==
  ASSUME IInv, Executing
  PROVE  /\ current \in Tasks /\ Exists(current) /\ state[current] = {}
         /\ current \in active /\ current \in tasksInHeap
         /\ \A b \in 1 .. Buckets : \A i \in DOMAIN sleeping[b] : sleeping[b][i] # current
         /\ \A r \in Reasons : \A i \in DOMAIN waiting[r] : waiting[r][i] # current
         /\ ~(due[current] > 0)
<1>1. current \in Tasks /\ Exists(current) /\ state[current] = {}
  BY DEF Executing, IInv, CurrentThere
<1>2. current \in active /\ current \in tasksInHeap
  BY <1>1 DEF IInv, Tables, ActiveTasks, Blocked
<1>3. \A b \in 1 .. Buckets : \A i \in DOMAIN sleeping[b] : sleeping[b][i] # current
  BY <1>1 DEF IInv, Tables, SleepTable, IsSleeping
<1>4. \A r \in Reasons : \A i \in DOMAIN waiting[r] : waiting[r][i] # current
  BY <1>1 DEF IInv, Tables, WaitTable
<1>5. ~(due[current] > 0)
  BY <1>1 DEF IInv, Tables, Dues, IsSleeping
<1> QED BY <1>1, <1>2, <1>3, <1>4, <1>5

\* What OS_addTask does to the scheduler heap.
LEMMA AddTaskHeap ==
  ASSUME IInv, NEW t \in Tasks, AddTask(t), t \in Single => t \notin Contents(schedulerHeap),
         t \in allocated', allocated \subseteq allocated'
  PROVE  IsHeap(schedulerHeap') /\ Known(schedulerHeap, tasksInHeap)'
<1>1. /\ IsHeap(schedulerHeap) /\ Priority[t] \in Nat \ {0}
      /\ schedulerHeap' = Inserted(schedulerHeap, t, Priority[t])
      /\ tasksInHeap' = tasksInHeap \cup {t}
  BY Numbers DEF AddTask, IInv, TypeOK
<1>2. /\ OnceIn(schedulerHeap, Single) /\ schedulerHeap \in Seq(AlikeNodes)
      /\ Contents(schedulerHeap) \subseteq tasksInHeap \cup (Readded \cap allocated)
  BY DEF IInv, Tables, HeapMembers, Known
<1>3. /\ IsHeap(schedulerHeap') /\ OnceIn(schedulerHeap', Single)
      /\ Contents(schedulerHeap') \subseteq Contents(schedulerHeap) \cup {t}
  BY <1>1, <1>2, InsertedFacts
<1>4. schedulerHeap' \in Seq(AlikeNodes)
  BY <1>1, <1>2, InsertedBehind
<1> QED BY <1>1, <1>2, <1>3, <1>4 DEF Known

LEMMA NewTaskSafe == ASSUME IInv, NEW t \in Tasks, NewTask(t) PROVE IInv'
<1> USE DEF IInv, NewTask, AddTask, waitVars, walkVars, nodeVars
<1>1. IsHeap(schedulerHeap') /\ Known(schedulerHeap, tasksInHeap)'
  <2>1. t \notin Contents(schedulerHeap)
    BY DEF Tables, HeapMembers, Known, Exists
  <2>2. t \in allocated' /\ allocated \subseteq allocated' /\ AddTask(t)
    BY DEF NewTask
  <2> HIDE DEF IInv, NewTask, AddTask
  <2> QED BY <2>1, <2>2, AddTaskHeap
<1>4. ~Blocked(t)
  BY DEF Tables, BlockedExist
<1>5. TypeOK'
  BY <1>1 DEF TypeOK
<1>6. state'[t] = {} /\ \A u \in Tasks : u # t => state'[u] = state[u]
  BY DEF TypeOK
<1>7. Tables'
  <2> USE DEF Tables
  <2>1. OneFlag' /\ BlockedExist'
    BY <1>6 DEF OneFlag, BlockedExist, Blocked
  <2>2. Exited'
    <3>1. completed' = completed /\ allocated' = allocated \cup {t} /\ t \notin allocated
      OBVIOUS
    <3>2. Exited /\ allocated \subseteq Tasks /\ Readded \subseteq Tasks
      BY Numbers DEF TypeOK
    <3> QED BY ONLY <1>6, <3>1, <3>2 DEF Exited
  <2>3. HeapMembers'
    <3>1. (\A u \in tasksInHeap : Exists(u))'
      BY DEF HeapMembers, Exists, Exited
    <3> QED BY <1>1, <3>1 DEF HeapMembers
  <2>4. ActiveTasks'
    BY <1>6 DEF ActiveTasks, Exists, Blocked, Exited
  <2>5. SleepTable'
    BY <1>4, <1>6 DEF SleepTable, IsSleeping, Blocked, TypeOK
  <2>6. WaitTable'
    <3>1. \A r \in Reasons : \A i \in DOMAIN waiting[r] :
            "wait" \in state[waiting[r][i]] /\ waiting[r][i] \in Tasks
      BY Entries DEF WaitTable
    <3>2. \A u \in Tasks : "wait" \in state[u] => "wait" \in state'[u]
      BY <1>4, <1>6 DEF Blocked
    <3> QED BY <3>1, <3>2 DEF WaitTable
  <2>7. Dues'
    BY <1>4, <1>6 DEF Dues, IsSleeping, Blocked, Elapsed, Wrapped
  <2> QED BY <2>1, <2>2, <2>3, <2>4, <2>5, <2>6, <2>7
<1>8. YieldsAtOnce' /\ CurrentThere' /\ Walk'
  BY <1>6 DEF YieldsAtOnce, CurrentThere, Walk, Executing, Exists
<1> QED BY <1>5, <1>7, <1>8

LEMMA AddAgainSafe == ASSUME IInv, NEW t \in Readded, AddAgain(t) PROVE IInv'
<1> USE DEF IInv, AddAgain, AddTask, waitVars, walkVars, nodeVars
<1>1. t \in Tasks /\ t \notin Single /\ Exists(t)
  BY Numbers DEF Single, Exists, Tables, Exited
<1>2. IsHeap(schedulerHeap') /\ Known(schedulerHeap, tasksInHeap)'
  <2>1. t \in allocated' /\ allocated \subseteq allocated' /\ AddTask(t)
    BY DEF AddAgain
  <2> HIDE DEF IInv, AddAgain, AddTask
  <2> QED BY <1>1, <2>1, AddTaskHeap
<1>3. TypeOK'
  BY <1>1, <1>2 DEF TypeOK
<1>4. Tables'
  <2> USE DEF Tables
  <2>1. OneFlag' /\ BlockedExist' /\ Exited'
    BY DEF OneFlag, BlockedExist, Blocked, Exited
  <2>2. HeapMembers' /\ ActiveTasks'
    BY <1>1, <1>2 DEF HeapMembers, ActiveTasks, Exists, Blocked
  <2>3. SleepTable' /\ WaitTable'
    BY DEF SleepTable, WaitTable, IsSleeping
  <2>4. Dues'
    BY DEF Dues, IsSleeping, Elapsed, Wrapped
  <2> QED BY <2>1, <2>2, <2>3, <2>4
<1>5. YieldsAtOnce' /\ CurrentThere' /\ Walk'
  BY DEF YieldsAtOnce, CurrentThere, Walk, Executing, Exists
<1> QED BY <1>3, <1>4, <1>5

LEMMA ExitSafe == ASSUME IInv, Exit PROVE IInv'
<1> USE DEF IInv, Exit, tableVars, waitVars, walkVars, nodeVars
<1>1. current \in Tasks /\ Exists(current) /\ state[current] = {}
  BY Caller
<1>2. TypeOK'
  <2>1. 0 \in 0 .. Modulus - 1
    BY Numbers
  <2> QED BY <2>1 DEF TypeOK, Flags, Phases
<1>3. state'[current] = {"exit"} /\ \A u \in Tasks : u # current => state'[u] = state[u]
  BY <1>1 DEF TypeOK
<1>4. Tables'
  <2> USE DEF Tables
  <2>1. OneFlag' /\ BlockedExist'
    BY <1>3 DEF OneFlag, BlockedExist, Blocked
  <2>2. Exited'
    BY <1>3, Numbers DEF Exited, TypeOK
  <2>3. HeapMembers'
    BY DEF HeapMembers, Known, Exists
  <2>4. ActiveTasks'
    BY <1>1, <1>3 DEF ActiveTasks, Exists, Blocked
  <2>5. SleepTable'
    <3>1. \A b \in 1 .. Buckets : \A i \in DOMAIN sleeping[b] :
            state'[sleeping[b][i]] = state[sleeping[b][i]]
      BY <1>3, Caller, Entries
    <3> QED BY <3>1 DEF SleepTable, IsSleeping
  <2>6. WaitTable'
    <3>1. \A r \in Reasons : \A i \in DOMAIN waiting[r] :
            state'[waiting[r][i]] = state[waiting[r][i]]
      BY <1>3, Caller, Entries
    <3> QED BY <3>1 DEF WaitTable
  <2>7. Dues'
    BY <1>3, Caller DEF Dues, IsSleeping, Elapsed, Wrapped, TypeOK
  <2> QED BY <2>1, <2>2, <2>3, <2>4, <2>5, <2>6, <2>7
<1>5. YieldsAtOnce' /\ CurrentThere' /\ Walk'
  BY <1>1, <1>3 DEF YieldsAtOnce, CurrentThere, Walk, Executing, Exists
<1> QED BY <1>2, <1>4, <1>5

LEMMA YieldSafe == ASSUME IInv, Yield PROVE IInv'
<1> USE DEF IInv, Yield, tableVars, waitVars, walkVars, nodeVars
<1>1. current \in Tasks /\ Exists(current) /\ state[current] = {}
  BY Caller
<1>2. TypeOK'
  BY DEF TypeOK, Flags, Phases
<1>3. state'[current] = {"yield"} /\ \A u \in Tasks : u # current => state'[u] = state[u]
  BY <1>1 DEF TypeOK
<1>4. Tables'
  <2> USE DEF Tables
  <2>1. OneFlag' /\ BlockedExist'
    BY <1>3 DEF OneFlag, BlockedExist, Blocked
  <2>2. Exited'
    BY <1>1, <1>3, Numbers DEF Exited, TypeOK
  <2>3. HeapMembers'
    BY DEF HeapMembers, Known, Exists
  <2>4. ActiveTasks'
    BY <1>1, <1>3 DEF ActiveTasks, Exists, Blocked
  <2>5. SleepTable'
    <3>1. \A b \in 1 .. Buckets : \A i \in DOMAIN sleeping[b] :
            state'[sleeping[b][i]] = state[sleeping[b][i]]
      BY <1>3, Caller, Entries
    <3> QED BY <3>1 DEF SleepTable, IsSleeping
  <2>6. WaitTable'
    <3>1. \A r \in Reasons : \A i \in DOMAIN waiting[r] :
            state'[waiting[r][i]] = state[waiting[r][i]]
      BY <1>3, Caller, Entries
    <3> QED BY <3>1 DEF WaitTable
  <2>7. Dues'
    BY <1>3, Caller DEF Dues, IsSleeping, Elapsed, Wrapped, TypeOK
  <2> QED BY <2>1, <2>2, <2>3, <2>4, <2>5, <2>6, <2>7
<1>5. YieldsAtOnce' /\ CurrentThere' /\ Walk'
  BY <1>1, <1>3 DEF YieldsAtOnce, CurrentThere, Walk, Executing, Exists
<1> QED BY <1>2, <1>4, <1>5

LEMMA WaitSafe == ASSUME IInv, NEW r \in Reasons, Wait(r) PROVE IInv'
<1> USE DEF IInv, Wait, walkVars, nodeVars
<1>1. current \in Tasks /\ Exists(current) /\ state[current] = {}
  BY Caller
<1>2. waiting[r] \in Seq(Tasks)
  BY DEF TypeOK
<1>3. PICK list : list = <<current>> \o waiting[r]
  OBVIOUS
<1>4. TypeOK'
  <2>1. list \in Seq(Tasks)
    BY <1>1, <1>2, <1>3, PushFacts
  <2>2. waiting' \in [Reasons -> Seq(Tasks)]
    BY <1>3, <2>1 DEF TypeOK
  <2>3. mirror' \in [Tasks -> Reasons \cup {NULL}]
    BY DEF TypeOK
  <2> QED BY <2>2, <2>3 DEF TypeOK, Flags, Phases
<1>5. state'[current] = {"wait"} /\ \A u \in Tasks : u # current => state'[u] = state[u]
  BY <1>1 DEF TypeOK
<1>6. waiting'[r] = list /\ \A q \in Reasons : q # r => waiting'[q] = waiting[q]
  BY <1>3 DEF TypeOK
<1>7. Tables'
  <2> USE DEF Tables
  <2>1. OneFlag' /\ BlockedExist'
    BY <1>1, <1>5 DEF OneFlag, BlockedExist, Blocked, Exists
  <2>2. Exited'
    BY <1>1, <1>5, Numbers DEF Exited, TypeOK
  <2>3. HeapMembers'
    BY DEF HeapMembers, Known, Exists
  <2>4. ActiveTasks'
    BY <1>1, <1>5 DEF ActiveTasks, Exists, Blocked
  <2>5. SleepTable'
    <3>1. \A b \in 1 .. Buckets : \A i \in DOMAIN sleeping[b] :
            state'[sleeping[b][i]] = state[sleeping[b][i]]
      BY <1>5, Caller, Entries
    <3> QED BY <3>1 DEF SleepTable, IsSleeping
  <2>6. WaitTable'
    <3>1. /\ list[1] = current
          /\ \A i \in DOMAIN list :
               i = 1 \/ (i - 1 \in DOMAIN waiting[r] /\ list[i] = waiting[r][i - 1])
          /\ \A i \in DOMAIN list, j \in DOMAIN list : i # 1 /\ j # 1 /\ i - 1 = j - 1 => i = j
      BY <1>1, <1>2, <1>3, PushFacts
    <3>2. \A q \in Reasons : \A i \in DOMAIN waiting[q] : waiting[q][i] # current
      BY Caller
    <3>3. \A q \in Reasons : \A i \in DOMAIN waiting[q] : "wait" \in state[waiting[q][i]]
      BY DEF WaitTable
    <3>4. ASSUME NEW q \in Reasons, NEW i \in DOMAIN waiting'[q]
          PROVE  \/ q = r /\ i = 1 /\ waiting'[q][i] = current
                 \/ /\ q = r /\ i # 1 /\ i - 1 \in DOMAIN waiting[q]
                    /\ waiting'[q][i] = waiting[q][i - 1]
                 \/ q # r /\ i \in DOMAIN waiting[q] /\ waiting'[q][i] = waiting[q][i]
      <4> HIDE DEF Wait
      <4> QED BY <1>6, <3>1, <3>4
    <3>5. ASSUME NEW q \in Reasons, NEW i \in DOMAIN waiting'[q]
          PROVE  "wait" \in state'[waiting'[q][i]]
      <4>1. \A p \in Reasons : \A k \in DOMAIN waiting[p] : "wait" \in state'[waiting[p][k]]
        BY <1>2, <1>5, <3>2, <3>3 DEF TypeOK
      <4> HIDE DEF Wait, IInv, Tables
      <4> QED BY <1>5, <3>4, <4>1
    <3>6. ASSUME NEW q \in Reasons, NEW i \in DOMAIN waiting'[q],
                 NEW p \in Reasons, NEW j \in DOMAIN waiting'[p],
                 waiting'[q][i] = waiting'[p][j]
          PROVE  q = p /\ i = j
      <4>1. \A a, b \in Reasons : \A k \in DOMAIN waiting[a], m \in DOMAIN waiting[b] :
              waiting[a][k] = waiting[b][m] => a = b /\ k = m
        BY DEF WaitTable
      <4> HIDE DEF Wait, IInv, Tables
      <4> QED BY <1>6, <3>1, <3>2, <3>4, <3>6, <4>1
    <3> QED BY <3>5, <3>6 DEF WaitTable
  <2>7. Dues'
    BY <1>5, Caller DEF Dues, IsSleeping, Elapsed, Wrapped, TypeOK
  <2> QED BY <2>1, <2>2, <2>3, <2>4, <2>5, <2>6, <2>7
<1>8. YieldsAtOnce' /\ CurrentThere' /\ Walk'
  BY <1>1, <1>5 DEF YieldsAtOnce, CurrentThere, Walk, Executing, Exists
<1> QED BY <1>4, <1>7, <1>8

LEMMA SleepSafe == ASSUME IInv, NEW d \in Durations, Sleep(d) PROVE IInv'
<1> USE DEF IInv, Sleep, waitVars, walkVars, nodeVars
<1>1. current \in Tasks /\ Exists(current) /\ state[current] = {}
  BY Caller
<1> DEFINE b == Bucket[current]
<1>2. b \in 1 .. Buckets /\ sleeping[b] \in Seq(Tasks)
  BY <1>1, Numbers, Entries
<1>3. PICK list : list = <<current>> \o sleeping[b]
  OBVIOUS
<1>4. d \in 1 .. Modulus - 1 /\ d \in 0 .. Modulus - 1
  BY Numbers
<1>5. TypeOK'
  <2>1. list \in Seq(Tasks)
    BY <1>1, <1>2, <1>3, PushFacts
  <2>2. sleeping' \in [1 .. Buckets -> Seq(Tasks)]
    BY <1>3, <2>1 DEF TypeOK
  <2>3. /\ data' \in [Tasks -> 0 .. Modulus - 1] /\ data2' \in [Tasks -> 0 .. Modulus - 1]
        /\ due' \in [Tasks -> 0 .. Modulus - 1]
    BY <1>4 DEF TypeOK
  <2>4. active' \subseteq Tasks /\ state' \in [Tasks -> SUBSET Flags] /\ phase' \in Phases
    BY DEF TypeOK, Flags, Phases
  <2> QED BY <2>2, <2>3, <2>4 DEF TypeOK
<1>6. state'[current] = {"sleep"} /\ \A u \in Tasks : u # current => state'[u] = state[u]
  BY <1>1 DEF TypeOK
<1>7. sleeping'[b] = list /\ \A c \in 1 .. Buckets : c # b => sleeping'[c] = sleeping[c]
  BY <1>2, <1>3 DEF TypeOK
<1> HIDE DEF b
<1>8. Tables'
  <2> USE DEF Tables
  <2>1. OneFlag' /\ BlockedExist'
    BY <1>1, <1>6 DEF OneFlag, BlockedExist, Blocked, Exists
  <2>2. Exited'
    BY <1>1, <1>6, Numbers DEF Exited, TypeOK
  <2>3. HeapMembers'
    BY DEF HeapMembers, Known, Exists
  <2>4. ActiveTasks'
    BY <1>1, <1>6 DEF ActiveTasks, Exists, Blocked
  <2>5. SleepTable'
    <3>1. /\ list[1] = current
          /\ \A i \in DOMAIN list :
               i = 1 \/ (i - 1 \in DOMAIN sleeping[b] /\ list[i] = sleeping[b][i - 1])
          /\ \A i \in DOMAIN list, j \in DOMAIN list : i # 1 /\ j # 1 /\ i - 1 = j - 1 => i = j
      BY <1>1, <1>2, <1>3, PushFacts
    <3>2. \A c \in 1 .. Buckets : \A k \in DOMAIN sleeping[c] :
            /\ sleeping[c][k] # current /\ sleeping[c][k] \in Tasks
            /\ Bucket[sleeping[c][k]] = c /\ "sleep" \in state[sleeping[c][k]]
            /\ \A m \in DOMAIN sleeping[c] : sleeping[c][k] = sleeping[c][m] => k = m
      BY Caller, Entries DEF SleepTable, IsSleeping
    <3>3. \A u \in Tasks : "sleep" \in state[u] => "sleep" \in state'[u]
      BY <1>1, <1>6
    <3>4. ASSUME NEW c \in 1 .. Buckets, NEW i \in DOMAIN sleeping'[c]
          PROVE  /\ Bucket[sleeping'[c][i]] = c /\ "sleep" \in state'[sleeping'[c][i]]
                 /\ \A j \in DOMAIN sleeping'[c] : sleeping'[c][i] = sleeping'[c][j] => i = j
      <4> HIDE DEF Sleep, IInv, Tables
      <4>1. CASE c = b
        BY <1>2, <1>6, <1>7, <3>1, <3>2, <3>3, <3>4, <4>1 DEF b
      <4>2. CASE c # b
        BY <1>7, <3>2, <3>3, <3>4, <4>2
      <4> QED BY <4>1, <4>2
    <3> QED BY <3>4 DEF SleepTable, IsSleeping
  <2>6. WaitTable'
    <3>1. \A r \in Reasons : \A i \in DOMAIN waiting[r] :
            state'[waiting[r][i]] = state[waiting[r][i]]
      BY <1>6, Caller, Entries
    <3> QED BY <3>1 DEF WaitTable
  <2>7. Dues'
    <3>1. ASSUME NEW t \in Tasks, t # current, (due[t] > 0)'
          PROVE  (IsSleeping(t) /\ data2[t] >= Elapsed(t) + due[t])'
      <4>1. due[t] > 0 /\ state'[t] = state[t]
        BY <1>6, <3>1 DEF TypeOK
      <4> QED BY <3>1, <4>1 DEF Dues, IsSleeping, Elapsed, Wrapped, TypeOK
    <3>2. (IsSleeping(current) /\ data2[current] >= Elapsed(current) + due[current])'
      <4>1. /\ current' = current /\ ticks' = ticks /\ data'[current] = ticks
            /\ data2'[current] = d /\ due'[current] = d
        BY <1>1 DEF TypeOK
      <4>2. ticks \in Nat
        BY <1>1, ElapsedFacts
      <4>3. Elapsed(current)' = 0
        BY <4>1, <4>2 DEF Elapsed, Wrapped
      <4>4. IsSleeping(current)'
        BY <1>6 DEF IsSleeping
      <4> QED BY <1>4, <4>1, <4>3, <4>4
    <3> QED BY <3>1, <3>2 DEF Dues
  <2> QED BY <2>1, <2>2, <2>3, <2>4, <2>5, <2>6, <2>7
<1>9. YieldsAtOnce' /\ CurrentThere' /\ Walk'
  BY <1>1, <1>6 DEF YieldsAtOnce, CurrentThere, Walk, Executing, Exists
<1> QED BY <1>5, <1>8, <1>9

LEMMA NotifySafe == ASSUME IInv, NEW r \in Reasons, Notify(r) PROVE IInv'
<1> USE DEF IInv, walkVars, nodeVars
<1>1. PICK list \in Seq(Tasks) : list = waiting[r]
  BY Entries
<1>2. /\ \A i, j \in 1 .. Len(list) : list[i] = list[j] => i = j
      /\ \A i \in 1 .. Len(list) : list[i] \in Tasks /\ "wait" \in state[list[i]]
      /\ DOMAIN list = 1 .. Len(list)
  BY <1>1 DEF Tables, WaitTable
<1> DEFINE woken == Some(list, Len(list))
<1>3. /\ Executing
      /\ active' = active \cup woken /\ tasksInHeap' = tasksInHeap \cup woken
      /\ waiting' = [waiting EXCEPT ![r] = <<>>]
      /\ mirror' = [t \in Tasks |-> IF t \in woken THEN NULL ELSE mirror[t]]
      /\ state' = [t \in Tasks |-> IF t \in woken THEN state[t] \ {"wait"} ELSE state[t]]
      /\ schedulerHeap' = (CHOOSE h : Returning(h, list))[Len(list)]
      /\ UNCHANGED <<current, ticks, allocated, data, data2, sleeping, sleepHeap, completed,
                     rollover, taskTicks, phase, walkVars, due>>
  BY <1>1, <1>2 DEF Notify, Some, Returning
<1>4. \A t \in woken : t \in Tasks /\ state[t] = {"wait"} /\ state'[t] = {} /\ Exists(t)
  BY <1>2, <1>3 DEF Some, Tables, OneFlag, BlockedExist, Blocked, Exited, Exists
<1>5. \A t \in Tasks : t \notin woken => state'[t] = state[t]
  BY <1>3
<1> HIDE DEF woken
<1>6. IsHeap(schedulerHeap') /\ Known(schedulerHeap', tasksInHeap \cup woken)
  <2>1. IsHeap(schedulerHeap) /\ tasksInHeap \subseteq Tasks /\ Known(schedulerHeap, tasksInHeap)
    BY DEF TypeOK, Tables, HeapMembers
  <2> QED BY <1>2, <1>3, <2>1, ReturningFacts DEF woken
<1>7. TypeOK'
  <2>1. waiting' \in [Reasons -> Seq(Tasks)]
    BY <1>3 DEF TypeOK
  <2>2. active' \subseteq Tasks /\ tasksInHeap' \subseteq Tasks
    BY <1>3, <1>4 DEF TypeOK
  <2>3. state' \in [Tasks -> SUBSET Flags] /\ mirror' \in [Tasks -> Reasons \cup {NULL}]
    BY <1>3 DEF TypeOK
  <2> QED BY <1>3, <1>6, <2>1, <2>2, <2>3 DEF TypeOK
<1>8. Tables'
  <2> USE DEF Tables
  <2>1. OneFlag' /\ BlockedExist'
    BY <1>3, <1>4, <1>5 DEF OneFlag, BlockedExist, Blocked
  <2>2. Exited'
    BY <1>3, <1>4, <1>5, Numbers DEF Exited, TypeOK
  <2>3. HeapMembers'
    <3>1. (\A t \in tasksInHeap : Exists(t))'
      BY <1>3, <1>4 DEF HeapMembers, Known, Exists
    <3> QED BY <1>3, <1>6, <3>1 DEF HeapMembers, Known
  <2>4. ActiveTasks'
    BY <1>3, <1>4, <1>5 DEF ActiveTasks, Exists, Blocked
  <2>5. SleepTable'
    <3>1. \A b \in 1 .. Buckets : \A i \in DOMAIN sleeping[b] :
            "sleep" \in state'[sleeping[b][i]]
      BY <1>4, <1>5, Entries DEF SleepTable, IsSleeping
    <3> QED BY <1>3, <3>1 DEF SleepTable, IsSleeping
  <2>6. WaitTable'
    <3>1. /\ DOMAIN waiting'[r] = {}
          /\ \A q \in Reasons : q # r => waiting'[q] = waiting[q]
      BY <1>3 DEF TypeOK
    <3>2. ASSUME NEW q \in Reasons, q # r, NEW i \in DOMAIN waiting[q]
          PROVE  "wait" \in state'[waiting[q][i]]
      <4>1. "wait" \in state[waiting[q][i]] /\ waiting[q][i] \in Tasks
        BY Entries DEF WaitTable
      <4>2. waiting[q][i] \notin woken
        BY <1>1, <1>2, <3>2 DEF WaitTable, woken, Some
      <4> QED BY <1>5, <4>1, <4>2
    <3> QED BY <3>1, <3>2 DEF WaitTable
  <2>7. Dues'
    BY <1>3, <1>4, <1>5 DEF Dues, IsSleeping, Elapsed, Wrapped
  <2> QED BY <2>1, <2>2, <2>3, <2>4, <2>5, <2>6, <2>7
<1>9. YieldsAtOnce' /\ CurrentThere' /\ Walk'
  BY <1>3, <1>4, <1>5 DEF YieldsAtOnce, CurrentThere, Walk, Executing, Exists
<1> QED BY <1>7, <1>8, <1>9

LEMMA PreemptSafe == ASSUME IInv, Preempt PROVE IInv'
<1> USE DEF IInv, Preempt, tableVars, waitVars, nodeVars
<1>1. /\ phase = "pended" /\ phase' \in {"rollover", "wake"}
      /\ allocated' \subseteq allocated /\ completed' \subseteq completed
      /\ allocated' \ completed' = allocated \ completed
      /\ completed' \subseteq allocated' /\ Readded \cap allocated \subseteq allocated'
  BY DEF Reclaim, Tables, Exited
<1>2. /\ state' \in [Tasks -> SUBSET Flags]
      /\ \A t \in Tasks : state'[t] = state[t] \ {"yield"}
  <2>1. \A t \in Tasks : state[t] \in SUBSET Flags
    BY DEF TypeOK
  <2>2. \A t \in Tasks : t # current => state[t] = state[t] \ {"yield"}
    BY <2>1 DEF YieldsAtOnce
  <2>3. CASE current = Idle
    BY <2>2, <2>3, Numbers DEF TypeOK
  <2>4. CASE current # Idle
    <3>1. current \in Tasks /\ state' = [state EXCEPT ![current] = @ \ {"yield"}]
      BY <2>4 DEF TypeOK
    <3> QED BY <2>1, <2>2, <3>1 DEF TypeOK
  <2> QED BY <2>3, <2>4
<1>3. TypeOK'
  <2>1. unvisited' \in [1 .. Buckets -> Seq(Tasks \cup {NULL})]
    <3>1. sleeping \in [1 .. Buckets -> Seq(Tasks \cup {NULL})]
      <4>1. Seq(Tasks) \subseteq Seq(Tasks \cup {NULL})
        BY ONLY SMT
      <4>2. sleeping \in [1 .. Buckets -> Seq(Tasks)]
        BY DEF TypeOK
      <4> QED BY ONLY <4>1, <4>2
    <3>2. NoEntries \in [1 .. Buckets -> Seq(Tasks \cup {NULL})]
      BY DEF NoEntries
    <3> QED BY <3>1, <3>2
  <2>2. taskTicks' \in 0 .. MaxTaskTime
    BY Numbers
  <2>3. allocated' \subseteq Tasks /\ completed' \subseteq Tasks /\ phase' \in Phases
    BY <1>1 DEF TypeOK, Phases
  <2> QED BY <1>2, <2>1, <2>2, <2>3 DEF TypeOK
<1>4. Tables'
  <2> USE DEF Tables
  <2>1. OneFlag'
    BY <1>2 DEF OneFlag
  <2>2. BlockedExist'
    BY <1>1, <1>2 DEF BlockedExist, Blocked, OneFlag, Exited, TypeOK
  <2>3. Exited'
    BY <1>1, <1>2, Numbers DEF Exited, TypeOK
  <2>4. HeapMembers'
    BY <1>1 DEF HeapMembers, Known, Exists
  <2>5. ActiveTasks'
    BY <1>1, <1>2 DEF ActiveTasks, Exists, Blocked
  <2>6. SleepTable'
    BY <1>2, Entries DEF SleepTable, IsSleeping
  <2>7. WaitTable'
    BY <1>2, Entries DEF WaitTable
  <2>8. Dues'
    BY <1>2 DEF Dues, IsSleeping, Elapsed, Wrapped
  <2> QED BY <2>1, <2>2, <2>3, <2>4, <2>5, <2>6, <2>7, <2>8
<1>5. YieldsAtOnce' /\ CurrentThere' /\ Walk'
  BY <1>1, <1>2 DEF YieldsAtOnce, CurrentThere, Walk
<1> QED BY <1>3, <1>4, <1>5

-------------------------------------------------------------------------------
(* __updateSleepState. *)

LEMMA KeepAsleepFacts ==
  ASSUME IInv, NEW t \in Tasks, StaysAsleep(t), KeepAsleep(t), UNCHANGED <<ticks, due>>
  PROVE  /\ rollover' \in BOOLEAN
         /\ data' \in [Tasks -> 0 .. Modulus - 1] /\ data2' \in [Tasks -> 0 .. Modulus - 1]
         /\ data2'[t] \in Nat \ {0} /\ Dues'
<1> USE DEF IInv, KeepAsleep
<1>1. /\ ticks \in 0 .. Modulus - 1 /\ Elapsed(t) \in Nat /\ data2[t] > Elapsed(t)
      /\ data2[t] \in 0 .. Modulus - 1
  BY ElapsedFacts DEF StaysAsleep, TypeOK
<1>2. data2[t] - Elapsed(t) \in 0 .. Modulus - 1 /\ data2[t] - Elapsed(t) \in Nat \ {0}
  BY ONLY <1>1, Numbers
<1>3. data'[t] = ticks /\ data2'[t] = data2[t] - Elapsed(t)
  BY DEF TypeOK
<1>4. /\ data' \in [Tasks -> 0 .. Modulus - 1] /\ data2' \in [Tasks -> 0 .. Modulus - 1]
      /\ rollover' \in BOOLEAN
  BY <1>1, <1>2 DEF TypeOK, DetectRollover
<1>5. Dues'
  <2>1. ASSUME NEW u \in Tasks, u # t, (due[u] > 0)'
        PROVE  (IsSleeping(u) /\ data2[u] >= Elapsed(u) + due[u])'
    BY <2>1 DEF Tables, Dues, IsSleeping, Elapsed, Wrapped, TypeOK
  <2>2. ASSUME (due[t] > 0)'
        PROVE  (IsSleeping(t) /\ data2[t] >= Elapsed(t) + due[t])'
    <3>1. /\ ticks' = ticks /\ ticks \in Nat /\ due[t] \in Nat /\ due'[t] = due[t]
          /\ data2[t] >= Elapsed(t) + due[t]
      BY <2>2, ElapsedFacts DEF Tables, Dues
    <3>2. Elapsed(t)' = 0
      BY <1>3, <3>1 DEF Elapsed, Wrapped
    <3>3. IsSleeping(t)'
      BY DEF StaysAsleep, IsSleeping
    <3> HIDE DEF IInv, KeepAsleep
    <3> QED BY <1>1, <1>3, <3>1, <3>2, <3>3
  <2> QED BY <2>1, <2>2 DEF Dues
<1> QED BY <1>2, <1>3, <1>4, <1>5

\* Every node of the scheduler heap stays where it is.
PlacesKept ==
  \A i \in DOMAIN schedulerHeap :
    i \in DOMAIN schedulerHeap' /\ schedulerHeap'[i] = schedulerHeap[i]

LEMMA WakeUpFacts ==
  ASSUME IInv, NEW t \in Tasks, IsSleeping(t), ~StaysAsleep(t), WakeUp(t),
         UNCHANGED <<ticks, allocated, waiting, completed, due>>
  PROVE  /\ rollover' \in BOOLEAN /\ state' \in [Tasks -> SUBSET Flags]
         /\ data' \in [Tasks -> 0 .. Modulus - 1] /\ data2' \in [Tasks -> 0 .. Modulus - 1]
         /\ sleeping' \in [1 .. Buckets -> Seq(Tasks)]
         /\ active' \subseteq Tasks /\ tasksInHeap' \subseteq Tasks /\ IsHeap(schedulerHeap')
         /\ Tables' /\ Exists(t)
         /\ state'[t] = {} /\ \A u \in Tasks : u # t => state'[u] = state[u]
         /\ t \in tasksInHeap => schedulerHeap' = schedulerHeap
         /\ Readded # {} => PlacesKept
         /\ Roomy /\ Holding(schedulerHeap, tasksInHeap) => Holding(schedulerHeap', tasksInHeap')
<1> USE DEF IInv, WakeUp
<1>1. state[t] = {"sleep"} /\ Exists(t)
  BY DEF IsSleeping, Tables, OneFlag, BlockedExist, Blocked, Exited, Exists
<1>2. state'[t] = {} /\ \A u \in Tasks : u # t => state'[u] = state[u]
  BY <1>1 DEF TypeOK
<1>3. ~(due[t] > 0)
  <2>1. due[t] \in Nat /\ data2[t] \in Nat /\ Elapsed(t) \in Nat /\ ~(data2[t] > Elapsed(t))
    BY ElapsedFacts DEF StaysAsleep
  <2>2. due[t] > 0 => data2[t] >= Elapsed(t) + due[t]
    BY DEF Tables, Dues
  <2> QED BY ONLY <2>1, <2>2
<1>4. /\ rollover' \in BOOLEAN /\ state' \in [Tasks -> SUBSET Flags]
      /\ active' \subseteq Tasks /\ tasksInHeap' \subseteq Tasks
  BY DEF TypeOK, DetectRollover
<1>5. data' \in [Tasks -> 0 .. Modulus - 1] /\ data2' \in [Tasks -> 0 .. Modulus - 1]
  <2>1. 0 \in 0 .. Modulus - 1
    BY Numbers
  <2> QED BY <2>1 DEF TypeOK
<1>6. /\ IsHeap(schedulerHeap')
      /\ Known(schedulerHeap', tasksInHeap')
      /\ t \in tasksInHeap => schedulerHeap' = schedulerHeap
      /\ Readded # {} => PlacesKept
      /\ Roomy /\ Holding(schedulerHeap, tasksInHeap) => Holding(schedulerHeap', tasksInHeap')
  <2>1. /\ IsHeap(schedulerHeap) /\ Known(schedulerHeap, tasksInHeap)
        /\ schedulerHeap' = Returned(schedulerHeap, t) /\ tasksInHeap' = tasksInHeap \cup {t}
    BY DEF TypeOK, Tables, HeapMembers
  <2> HIDE DEF IInv, WakeUp
  <2>2. /\ IsHeap(schedulerHeap') /\ Known(schedulerHeap', tasksInHeap \cup {t})
        /\ t \in tasksInHeap => schedulerHeap' = schedulerHeap
        /\ Roomy /\ Holding(schedulerHeap, tasksInHeap) =>
             Holding(schedulerHeap', tasksInHeap \cup {t})
    BY <2>1, ReturnedFacts
  <2>3. ASSUME Readded # {}
        PROVE  \A i \in DOMAIN schedulerHeap :
                 i \in DOMAIN schedulerHeap' /\ schedulerHeap'[i] = schedulerHeap[i]
    <3>1. schedulerHeap \in Seq(AlikeNodes)
      BY <2>1 DEF Known
    <3>2. \A i \in DOMAIN schedulerHeap :
            /\ i \in DOMAIN Returned(schedulerHeap, t)
            /\ Returned(schedulerHeap, t)[i] = schedulerHeap[i]
      BY <2>1, <2>3, <3>1, ReturnedBehind
    <3> QED BY <2>1, <3>2
  <2> QED BY <2>1, <2>2, <2>3 DEF PlacesKept
<1> DEFINE b == Bucket[t]
<1>7. b \in 1 .. Buckets /\ sleeping[b] \in Seq(Tasks) /\ Once(sleeping[b])
  BY Numbers, Entries DEF Tables, SleepTable, Once
<1>8. PICK list : list = Without(sleeping[b], t)
  OBVIOUS
<1>9. /\ list \in Seq(Tasks) /\ Once(list)
      /\ \A i \in DOMAIN list :
           list[i] # t /\ \E k \in DOMAIN sleeping[b] : list[i] = sleeping[b][k]
  BY <1>7, <1>8, WithoutFacts
<1>10. /\ sleeping' \in [1 .. Buckets -> Seq(Tasks)] /\ sleeping'[b] = list
       /\ \A c \in 1 .. Buckets : c # b => sleeping'[c] = sleeping[c]
  BY <1>7, <1>8, <1>9 DEF TypeOK
<1> HIDE DEF b
<1>11. Tables'
  <2> USE DEF Tables
  <2>1. OneFlag' /\ BlockedExist'
    BY <1>1, <1>2 DEF OneFlag, BlockedExist, Blocked, Exists
  <2>2. Exited'
    BY <1>1, <1>2, Numbers DEF Exited, Exists, TypeOK
  <2>3. HeapMembers'
    <3>1. (\A u \in tasksInHeap : Exists(u))'
      BY <1>1 DEF HeapMembers, Known, Exists
    <3> QED BY <1>6, <3>1 DEF HeapMembers, Known, Known
  <2>4. ActiveTasks'
    BY <1>1, <1>2 DEF ActiveTasks, Exists, Blocked
  <2>5. SleepTable'
    <3>1. \A c \in 1 .. Buckets : \A k \in DOMAIN sleeping[c] :
            /\ sleeping[c][k] \in Tasks
            /\ Bucket[sleeping[c][k]] = c /\ "sleep" \in state[sleeping[c][k]]
            /\ \A m \in DOMAIN sleeping[c] : sleeping[c][k] = sleeping[c][m] => k = m
      BY Entries DEF SleepTable, IsSleeping
    <3>2. ASSUME NEW c \in 1 .. Buckets, NEW i \in DOMAIN sleeping'[c]
          PROVE  /\ Bucket[sleeping'[c][i]] = c /\ "sleep" \in state'[sleeping'[c][i]]
                 /\ \A j \in DOMAIN sleeping'[c] : sleeping'[c][i] = sleeping'[c][j] => i = j
      <4> HIDE DEF WakeUp, IInv, Tables
      <4>1. CASE c = b
        <5>1. /\ sleeping'[c] = list /\ list[i] # t
              /\ \E k \in DOMAIN sleeping[b] : list[i] = sleeping[b][k]
          BY <1>9, <1>10, <3>2, <4>1
        <5>2. Bucket[list[i]] = c /\ "sleep" \in state[list[i]] /\ list[i] \in Tasks
          BY <1>7, <3>1, <4>1, <5>1
        <5> QED BY <1>2, <1>9, <3>2, <5>1, <5>2 DEF Once
      <4>2. CASE c # b
        <5>1. sleeping'[c] = sleeping[c] /\ i \in DOMAIN sleeping[c]
          BY <1>10, <3>2, <4>2
        <5>2. sleeping[c][i] # t
          BY <3>1, <4>2, <5>1 DEF b
        <5> QED BY <1>2, <3>1, <5>1, <5>2
      <4> QED BY <4>1, <4>2
    <3> QED BY <3>2 DEF SleepTable, IsSleeping
  <2>6. WaitTable'
    <3>1. \A r \in Reasons : \A i \in DOMAIN waiting[r] :
            "wait" \in state'[waiting[r][i]]
      BY <1>1, <1>2, Entries DEF WaitTable
    <3> QED BY <3>1 DEF WaitTable
  <2>7. Dues'
    BY <1>2, <1>3 DEF Dues, IsSleeping, Elapsed, Wrapped, TypeOK
  <2> QED BY <2>1, <2>2, <2>3, <2>4, <2>5, <2>6, <2>7
<1> QED BY <1>1, <1>2, <1>4, <1>5, <1>6, <1>10, <1>11

-------------------------------------------------------------------------------
(* The loops of PendSV that wake tasks up. *)

LEMMA OthersKept ==
  ASSUME Tables, UNCHANGED <<state, allocated, completed, waiting>>,
         active' = active, sleeping' = sleeping
  PROVE  /\ OneFlag' /\ Exited' /\ BlockedExist' /\ SleepTable' /\ WaitTable'
         /\ UNCHANGED <<tasksInHeap, schedulerHeap>> => HeapMembers' /\ ActiveTasks'
<1>1. OneFlag' /\ Exited' /\ BlockedExist'
  BY DEF Tables, OneFlag, Exited, BlockedExist, Blocked
<1>2. SleepTable' /\ WaitTable'
  BY DEF Tables, SleepTable, WaitTable, IsSleeping
<1>3. ASSUME UNCHANGED <<tasksInHeap, schedulerHeap>>
      PROVE  HeapMembers' /\ ActiveTasks'
  BY <1>3 DEF Tables, HeapMembers, Known, ActiveTasks, Exists, Blocked
<1> QED BY <1>1, <1>2, <1>3

LEMMA WakesUpMeans ==
  ASSUME TypeOK, NEW t \in Tasks
  PROVE  WakesUp(t) <=> IsSleeping(t) /\ ~StaysAsleep(t)
<1>1. data2[t] \in Nat /\ Elapsed(t) \in Nat
  BY ElapsedFacts
<1> QED BY <1>1 DEF StaysAsleep, WakesUp

LEMMA FreeEntriesTyped == ASSUME TypeOK PROVE FreeEntries \in Seq(Tasks \cup {NULL})
<1>1. Listed(sleeping) \subseteq Tasks
  BY Entries DEF Listed, TypeOK
<1>2. /\ IsFiniteSet(Listed(sleeping)) /\ Cardinality(Listed(sleeping)) \in Nat
      /\ Cardinality(Listed(sleeping)) <= Cardinality(Tasks) /\ Cardinality(Tasks) \in Nat
  BY <1>1, Numbers, FS_Subset, FS_CardinalityType
<1>3. TableCapacity - Cardinality(Listed(sleeping)) \in Nat
  BY <1>2, Numbers
<1> QED BY <1>3, FunctionIsSequence DEF FreeEntries

LEMMA AwakeSafe ==
  ASSUME IInv, LeaveAwake, TypeOK', phase' # "select", YieldsAtOnce', CurrentThere',
         UNCHANGED <<ticks, allocated, waiting, completed, due>>
  PROVE  IInv'
<1>1. Tables'
  BY TablesKept DEF IInv, LeaveAwake, tableVars, tcbVars
<1> QED BY <1>1 DEF IInv, Walk

LEMMA RollSafe == ASSUME IInv, Roll PROVE IInv'
<1> USE DEF IInv, waitVars, nodeVars
<1>1. PICK b \in 1 .. Buckets :
        /\ unvisited[b] # <<>>
        /\ LET t == Head(unvisited[b])
           IN  \/ /\ t = NULL /\ LeaveAwake
                  /\ unvisited' = [unvisited EXCEPT ![b] = Tail(@)]
               \/ /\ t # NULL /\ StaysAsleep(t) /\ KeepAsleep(t)
                  /\ unvisited' = [unvisited EXCEPT ![b] = Tail(@)]
                  /\ UNCHANGED <<tasksInHeap, schedulerHeap>>
               \/ /\ t # NULL /\ WakesUp(t) /\ WakeUp(t)
                  /\ unvisited' = [unvisited EXCEPT ![b] = FreeEntries]
  BY DEF Roll, Follow
<1>2. /\ phase = "rollover"
      /\ UNCHANGED <<current, ticks, allocated, waitVars, sleepHeap, completed, taskTicks, phase,
                     nodeVars, due>>
  BY DEF Roll
<1>3. unvisited[b] \in Seq(Tasks \cup {NULL})
  BY DEF TypeOK
<1>4. PICK t \in Tasks \cup {NULL} : t = Head(unvisited[b])
  BY <1>1, <1>3
<1>5. unvisited' \in [1 .. Buckets -> Seq(Tasks \cup {NULL})]
  <2>1. Tail(unvisited[b]) \in Seq(Tasks \cup {NULL})
    BY <1>1, <1>3
  <2>2. FreeEntries \in Seq(Tasks \cup {NULL})
    BY FreeEntriesTyped
  <2> QED BY <1>1, <2>1, <2>2 DEF TypeOK
<1>6. CASE t # NULL /\ StaysAsleep(t) /\ KeepAsleep(t) /\ UNCHANGED <<tasksInHeap, schedulerHeap>>
  <2>1. /\ rollover' \in BOOLEAN
        /\ data' \in [Tasks -> 0 .. Modulus - 1] /\ data2' \in [Tasks -> 0 .. Modulus - 1]
        /\ Dues'
    BY <1>2, <1>6, KeepAsleepFacts
  <2>2. UNCHANGED <<state, active, sleeping>>
    BY <1>6 DEF KeepAsleep
  <2>3. Tables'
    BY <1>2, <1>6, <2>1, <2>2, OthersKept DEF Tables
  <2>4. TypeOK'
    BY <1>2, <1>5, <1>6, <2>1, <2>2 DEF TypeOK
  <2>5. YieldsAtOnce' /\ CurrentThere' /\ Walk'
    BY <1>2, <2>2 DEF YieldsAtOnce, CurrentThere, Walk
  <2> QED BY <2>3, <2>4, <2>5
<1>7. CASE t # NULL /\ WakesUp(t) /\ WakeUp(t)
  <2>1. IsSleeping(t) /\ ~StaysAsleep(t)
    BY <1>7, WakesUpMeans
  <2>2. /\ rollover' \in BOOLEAN /\ state' \in [Tasks -> SUBSET Flags]
        /\ data' \in [Tasks -> 0 .. Modulus - 1] /\ data2' \in [Tasks -> 0 .. Modulus - 1]
        /\ sleeping' \in [1 .. Buckets -> Seq(Tasks)]
        /\ active' \subseteq Tasks /\ tasksInHeap' \subseteq Tasks /\ IsHeap(schedulerHeap')
        /\ Tables' /\ state'[t] = {} /\ \A u \in Tasks : u # t => state'[u] = state[u]
    BY <1>2, <1>7, <2>1, WakeUpFacts
  <2>3. TypeOK'
    BY <1>2, <1>5, <2>2 DEF TypeOK
  <2>4. YieldsAtOnce' /\ CurrentThere' /\ Walk'
    BY <1>2, <2>2 DEF YieldsAtOnce, CurrentThere, Walk
  <2> QED BY <2>2, <2>3, <2>4
<1>8. CASE LeaveAwake
  <2> USE DEF LeaveAwake, tableVars
  <2>1. TypeOK'
    BY <1>2, <1>5, <1>8 DEF TypeOK
  <2>2. YieldsAtOnce' /\ CurrentThere'
    BY <1>2, <1>8 DEF YieldsAtOnce, CurrentThere
  <2> QED BY <1>2, <1>8, <2>1, <2>2, AwakeSafe
<1> QED BY <1>1, <1>4, <1>6, <1>7, <1>8

LEMMA WakeTopSafe == ASSUME IInv, WakeTop PROVE IInv'
<1> USE DEF IInv, waitVars, nodeVars
<1>1. /\ phase = "wake" /\ sleepHeap # <<>>
      /\ UNCHANGED <<current, ticks, allocated, waiting, mirror, completed, taskTicks, unvisited,
                     due>>
  BY DEF WakeTop
<1>2. IsHeap(sleepHeap) /\ 1 \in DOMAIN sleepHeap /\ sleepHeap[1].content \in Tasks
  BY <1>1, HeapFacts DEF TypeOK
<1>3. PICK t \in Tasks : t = sleepHeap[1].content
  BY <1>2
<1>4. PICK rest : rest = RemoveNode(sleepHeap)
  OBVIOUS
<1>5. /\ IsHeap(rest) /\ Len(rest) < MaxNodes
      /\ \A value \in Nat \ {0} : IsHeap(AddNode(rest, t, value))
  <2>1. IsHeap(rest) /\ Len(rest) = Len(sleepHeap) - 1
    BY <1>2, <1>4, RemovedFacts DEF RemoveNode
  <2>2. Len(rest) < MaxNodes
    BY <1>2, <2>1, HeapFacts, Numbers
  <2>3. ASSUME NEW value \in Nat \ {0}
        PROVE  IsHeap(AddNode(rest, t, value))
    BY <2>1, <2>2, InsertedFacts DEF Inserted
  <2> QED BY <2>1, <2>2, <2>3
<1>6. \/ /\ StaysAsleep(t) /\ KeepAsleep(t) /\ UNCHANGED <<tasksInHeap, schedulerHeap>>
         /\ sleepHeap' = AddNode(rest, t, data2'[t]) /\ EnterSelect
      \/ /\ WakesUp(t) /\ WakeUp(t)
         /\ sleepHeap' = rest /\ UNCHANGED <<phase, nodeVars>>
      \/ /\ ~IsSleeping(t) /\ LeaveAwake
         /\ sleepHeap' = rest /\ UNCHANGED <<phase, nodeVars>>
  BY <1>3, <1>4 DEF WakeTop
<1>7. CASE /\ StaysAsleep(t) /\ KeepAsleep(t) /\ UNCHANGED <<tasksInHeap, schedulerHeap>>
           /\ sleepHeap' = AddNode(rest, t, data2'[t]) /\ EnterSelect
  <2>1. /\ rollover' \in BOOLEAN
        /\ data' \in [Tasks -> 0 .. Modulus - 1] /\ data2' \in [Tasks -> 0 .. Modulus - 1]
        /\ data2'[t] \in Nat \ {0} /\ Dues'
    BY <1>1, <1>7, KeepAsleepFacts
  <2>2. UNCHANGED <<state, active, sleeping>> /\ IsHeap(sleepHeap')
    BY <1>5, <1>7, <2>1 DEF KeepAsleep
  <2>3. Tables'
    BY <1>1, <1>7, <2>1, <2>2, OthersKept DEF Tables
  <2>4. TypeOK'
    <3>1. /\ phase' \in Phases /\ {node, lastActiveNode}' \subseteq 1 .. MaxNodes
          /\ maxValidNode' \in 0 .. MaxNodes
      BY <1>7, WalkBegins
    <3> QED BY <1>1, <1>7, <2>1, <2>2, <3>1 DEF TypeOK
  <2>5. YieldsAtOnce' /\ CurrentThere'
    BY <1>1, <1>7, <2>2 DEF YieldsAtOnce, CurrentThere, EnterSelect
  <2>6. Walk'
    BY <1>7, WalkBegins
  <2> QED BY <2>3, <2>4, <2>5, <2>6
<1>8. CASE /\ WakesUp(t) /\ WakeUp(t)
           /\ sleepHeap' = rest /\ UNCHANGED <<phase, nodeVars>>
  <2>1. IsSleeping(t) /\ ~StaysAsleep(t)
    BY <1>8, WakesUpMeans
  <2>2. /\ rollover' \in BOOLEAN /\ state' \in [Tasks -> SUBSET Flags]
        /\ data' \in [Tasks -> 0 .. Modulus - 1] /\ data2' \in [Tasks -> 0 .. Modulus - 1]
        /\ sleeping' \in [1 .. Buckets -> Seq(Tasks)]
        /\ active' \subseteq Tasks /\ tasksInHeap' \subseteq Tasks /\ IsHeap(schedulerHeap')
        /\ Tables' /\ state'[t] = {} /\ \A u \in Tasks : u # t => state'[u] = state[u]
    BY <1>1, <1>8, <2>1, WakeUpFacts
  <2>3. TypeOK'
    BY <1>1, <1>5, <1>8, <2>2 DEF TypeOK
  <2>4. YieldsAtOnce' /\ CurrentThere' /\ Walk'
    BY <1>1, <1>8, <2>2 DEF YieldsAtOnce, CurrentThere, Walk
  <2> QED BY <2>2, <2>3, <2>4
<1>9. CASE /\ ~IsSleeping(t) /\ LeaveAwake
           /\ sleepHeap' = rest /\ UNCHANGED <<phase, nodeVars>>
  <2> USE DEF LeaveAwake, tableVars
  <2>1. TypeOK'
    BY <1>1, <1>5, <1>9 DEF TypeOK
  <2>2. YieldsAtOnce' /\ CurrentThere'
    BY <1>1, <1>9 DEF YieldsAtOnce, CurrentThere
  <2> QED BY <1>1, <1>9, <2>1, <2>2, AwakeSafe
<1> QED BY <1>6, <1>7, <1>8, <1>9

-------------------------------------------------------------------------------
(* The walk down the scheduler heap. *)

\* A task in the scheduler heap exists, and is listed there unless it may be added again.
LEMMA InHeap ==
  ASSUME Tables, NEW t \in Contents(schedulerHeap)
  PROVE  Exists(t) /\ (t \notin Readded => t \in tasksInHeap)
BY DEF Tables, HeapMembers, Known, Exited, Exists

LEMMA AtNodeFacts ==
  ASSUME IInv, AtNode
  PROVE  /\ phase = "select" /\ IsHeap(schedulerHeap) /\ Known(schedulerHeap, tasksInHeap)
         /\ node \in DOMAIN schedulerHeap /\ maxValidNode <= Len(schedulerHeap)
         /\ Selected \in Tasks /\ Selected \in Contents(schedulerHeap) /\ Exists(Selected)
         /\ Selected \notin Readded => Selected \in tasksInHeap
         /\ node > 1 => /\ lastActiveNode = Parent(node) /\ lastActiveNode \in 1 .. node - 1
                        /\ state[schedulerHeap[lastActiveNode].content] = {}
<1> USE DEF IInv
<1>1. /\ phase = "select" /\ IsHeap(schedulerHeap) /\ Known(schedulerHeap, tasksInHeap)
      /\ node \in DOMAIN schedulerHeap /\ maxValidNode <= Len(schedulerHeap) /\ node \in Nat
      /\ node > 1 => /\ lastActiveNode = Parent(node)
                     /\ state[schedulerHeap[lastActiveNode].content] = {}
  BY DEF AtNode, Walk, TypeOK, Tables, HeapMembers
<1>2. Selected \in Tasks /\ Selected \in Contents(schedulerHeap)
  BY <1>1, HeapFacts DEF Selected, Contents
<1>3. Exists(Selected) /\ (Selected \notin Readded => Selected \in tasksInHeap)
  BY <1>2, InHeap
<1>4. node > 1 => Parent(node) \in 1 .. node - 1
  BY <1>1 DEF Parent
<1> QED BY <1>1, <1>2, <1>3, <1>4

\* A task that cannot run leaves the heap with one node, and the walk ends with a task that
\* can, or is at a node again.
LEMMA RemovalFacts ==
  ASSUME IInv, AtNode, RemoveSelected, AfterRemoval, state' = state,
         state[Selected] # {}
  PROVE  /\ current' \in Tasks \cup {Idle} /\ phase' \in Phases
         /\ {node, lastActiveNode}' \subseteq 1 .. MaxNodes /\ maxValidNode' \in 0 .. MaxNodes
         /\ IsHeap(schedulerHeap') /\ Known(schedulerHeap', tasksInHeap \ {Selected})
         /\ Selected \notin Readded =>
              Contents(schedulerHeap') = Contents(schedulerHeap) \ {Selected}
         /\ tasksInHeap' = tasksInHeap \ {Selected}
         /\ phase' \in {"thread", "select"}
         /\ phase' = "thread" /\ current' \in Tasks =>
              current' \in tasksInHeap \ {Selected} /\ state[current'] = {}
         /\ phase' = "thread" /\ current' = Idle => schedulerHeap' = <<>>
         /\ Walk' /\ YieldsAtOnce'
<1> USE DEF IInv
<1>1. /\ phase = "select" /\ IsHeap(schedulerHeap) /\ Known(schedulerHeap, tasksInHeap)
      /\ node \in DOMAIN schedulerHeap
      /\ Selected \in Tasks /\ Exists(Selected)
      /\ node > 1 => /\ lastActiveNode = Parent(node) /\ lastActiveNode \in 1 .. node - 1
                     /\ state[schedulerHeap[lastActiveNode].content] = {}
  BY AtNodeFacts
<1>2. PICK new : new = schedulerHeap' /\ new = RemoveNodeAt(schedulerHeap, node)
  BY DEF RemoveSelected
<1>3. /\ IsHeap(new) /\ Len(new) = Len(schedulerHeap) - 1 /\ new \in Seq(AlikeNodes)
      /\ Contents(new) \subseteq Contents(schedulerHeap)
      /\ Contents(schedulerHeap) \ {Selected} \subseteq Contents(new)
      /\ OnceIn(new, Single) /\ (Selected \in Single => Selected \notin Contents(new))
      /\ \A i \in 1 .. node - 1 : i \in DOMAIN new /\ new[i] = schedulerHeap[i]
  <2> HIDE DEF IInv
  <2>1. new = RemoveNodeAt(schedulerHeap, node)
    BY <1>2
  <2>2. OnceIn(schedulerHeap, Single) /\ schedulerHeap \in Seq(AlikeNodes)
    BY <1>1 DEF Known
  <2>3. /\ IsHeap(new) /\ Len(new) = Len(schedulerHeap) - 1
        /\ schedulerHeap \in Seq(AlikeNodes) => new \in Seq(AlikeNodes)
        /\ Contents(new) \subseteq Contents(schedulerHeap)
        /\ Contents(schedulerHeap) \ {schedulerHeap[node].content} \subseteq Contents(new)
        /\ OnceIn(schedulerHeap, Single) =>
             /\ OnceIn(new, Single)
             /\ schedulerHeap[node].content \in Single =>
                  schedulerHeap[node].content \notin Contents(new)
        /\ \A i \in 1 .. node - 1 : i \in DOMAIN new /\ new[i] = schedulerHeap[i]
    <3>1. IsHeap(schedulerHeap) /\ node \in DOMAIN schedulerHeap
      BY <1>1
    <3> QED BY ONLY <2>1, <3>1, RemovedFacts
  <2> QED BY <2>2, <2>3 DEF Selected
<1>4. /\ Len(new) \in Nat /\ DOMAIN new = 1 .. Len(new) /\ (new = <<>> <=> Len(new) = 0)
      /\ Len(new) <= MaxNodes /\ \A i \in 1 .. Len(new) : new[i].content \in Tasks
      /\ node \in 1 .. Len(schedulerHeap) /\ Len(schedulerHeap) \in Nat
  BY <1>1, <1>3, HeapFacts
<1>5. tasksInHeap' = tasksInHeap \ {Selected}
  BY DEF RemoveSelected
<1>6. ASSUME node > 1
      PROVE  /\ new[lastActiveNode] = schedulerHeap[lastActiveNode]
             /\ new[lastActiveNode].content \in tasksInHeap \ {Selected}
             /\ state[new[lastActiveNode].content] = {}
  <2>1. lastActiveNode \in DOMAIN new /\ new[lastActiveNode] = schedulerHeap[lastActiveNode]
    BY <1>1, <1>3, <1>6
  <2>2. PICK t \in Tasks : t = new[lastActiveNode].content /\ t \in Contents(new)
    BY <1>4, <2>1 DEF Contents
  <2>3. state[t] = {} /\ Exists(t)
    BY <1>1, <1>3, <1>6, <2>1, <2>2, InHeap
  <2>4. t \in tasksInHeap
    BY <2>3 DEF Tables, ActiveTasks, Blocked
  <2> QED BY <2>1, <2>2, <2>3, <2>4
<1>7. /\ Known(new, tasksInHeap \ {Selected})
      /\ Selected \notin Readded => Contents(new) = Contents(schedulerHeap) \ {Selected}
  BY <1>1, <1>3 DEF Known, Single, Exists
<1>8. new # <<>> /\ node > Len(new) => node > 1
  BY <1>4
<1>9. \/ /\ phase' = "thread" /\ current' = Idle /\ new = <<>>
         /\ node' = 1 /\ lastActiveNode' = 1 /\ maxValidNode' = 0
      \/ /\ phase' = "thread" /\ node > 1 /\ current' = new[lastActiveNode].content
         /\ node' = 1 /\ lastActiveNode' = 1 /\ maxValidNode' = 0
      \/ /\ new # <<>> /\ ~(node > Len(new)) /\ maxValidNode' = Len(new)
         /\ UNCHANGED <<current, phase, node, lastActiveNode>>
  BY <1>2, <1>8 DEF AfterRemoval, Dispatch
<1>10. /\ current' \in Tasks \cup {Idle} /\ phase' \in Phases
       /\ {node, lastActiveNode}' \subseteq 1 .. MaxNodes /\ maxValidNode' \in 0 .. MaxNodes
  <2>1. /\ 1 \in 1 .. MaxNodes /\ 0 \in 0 .. MaxNodes /\ Len(new) \in 0 .. MaxNodes
        /\ {node, lastActiveNode} \subseteq 1 .. MaxNodes
    BY <1>4, Numbers DEF TypeOK
  <2>2. current' \in Tasks \cup {Idle} /\ phase' \in Phases
    BY <1>6, <1>9 DEF TypeOK, Phases
  <2> HIDE DEF IInv
  <2> QED BY <1>9, <2>1, <2>2
<1>11. /\ phase' \in {"thread", "select"}
       /\ phase' = "thread" /\ current' \in Tasks =>
            current' \in tasksInHeap \ {Selected} /\ state[current'] = {}
       /\ phase' = "thread" /\ current' = Idle => schedulerHeap' = <<>>
  <2>1. Idle \notin tasksInHeap
    BY Numbers DEF TypeOK
  <2> QED BY <1>1, <1>2, <1>6, <1>9, <2>1, Numbers
<1>12. Walk'
  <2>1. CASE phase' = "thread"
    BY <2>1 DEF Walk
  <2>2. CASE /\ new # <<>> /\ ~(node > Len(new)) /\ maxValidNode' = Len(new)
             /\ UNCHANGED <<current, phase, node, lastActiveNode>>
    <3>1. node \in DOMAIN new
      BY <1>4, <2>2
    <3>2. maxValidNode' <= Len(schedulerHeap')
      BY <1>2, <1>4, <2>2
    <3> QED BY <1>1, <1>2, <1>6, <2>2, <3>1, <3>2 DEF Walk
  <2> QED BY <1>9, <2>1, <2>2
<1>13. YieldsAtOnce'
  BY <1>1 DEF YieldsAtOnce
<1> QED BY <1>2, <1>3, <1>5, <1>7, <1>10, <1>11, <1>12, <1>13

LEMMA RemoveIfExitSafe == ASSUME IInv, RemoveIfExit PROVE IInv'
<1> USE DEF IInv, waitVars
<1>1. /\ AtNode /\ RemoveSelected /\ AfterRemoval /\ "exit" \in state[Selected]
      /\ active' = active \ {Selected}
      /\ \/ allocated' = allocated \ {Selected} /\ UNCHANGED completed
         \/ completed' = completed \cup {Selected} /\ UNCHANGED allocated
      /\ UNCHANGED <<ticks, state, data, data2, sleeping, waitVars, sleepHeap, rollover, taskTicks,
                     unvisited, due>>
  BY DEF RemoveIfExit
<1>2. PICK t \in Tasks : t = Selected /\ Exists(t)
  BY <1>1, AtNodeFacts
<1>3. state[t] = {"exit"}
  BY <1>1, <1>2 DEF Tables, OneFlag
<1>4. /\ \A u \in Tasks : Exists(u)' <=> Exists(u) /\ u # t
      /\ t \notin Readded /\ Readded \cap allocated \subseteq allocated'
  BY <1>1, <1>2, <1>3 DEF Exists, TypeOK, Tables, Exited
<1>5. /\ current' \in Tasks \cup {Idle} /\ phase' \in Phases
      /\ {node, lastActiveNode}' \subseteq 1 .. MaxNodes /\ maxValidNode' \in 0 .. MaxNodes
      /\ IsHeap(schedulerHeap') /\ Known(schedulerHeap', tasksInHeap \ {t})
      /\ tasksInHeap' = tasksInHeap \ {t}
      /\ phase' \in {"thread", "select"}
      /\ phase' = "thread" /\ current' \in Tasks =>
           current' \in tasksInHeap \ {t} /\ state[current'] = {}
      /\ Walk' /\ YieldsAtOnce'
  BY <1>1, <1>2, <1>3, RemovalFacts
<1>6. TypeOK'
  BY <1>1, <1>2, <1>5 DEF TypeOK
<1>7. Tables'
  <2> USE DEF Tables
  <2>1. OneFlag'
    BY <1>1 DEF OneFlag
  <2>2. BlockedExist'
    BY <1>1, <1>2, <1>3 DEF BlockedExist, Blocked
  <2>3. Exited'
    BY <1>1, <1>2 DEF Exited, Exists
  <2>4. HeapMembers'
    <3>1. (\A u \in tasksInHeap : Exists(u))'
      BY <1>4, <1>5 DEF HeapMembers, Known, TypeOK
    <3> QED BY <1>4, <1>5, <3>1 DEF HeapMembers, Known
  <2>5. ActiveTasks'
    BY <1>1, <1>2, <1>4, <1>5 DEF ActiveTasks, Blocked, TypeOK
  <2>6. SleepTable' /\ WaitTable'
    BY <1>1 DEF SleepTable, WaitTable, IsSleeping
  <2>7. Dues'
    BY <1>1 DEF Dues, IsSleeping, Elapsed, Wrapped
  <2> QED BY <2>1, <2>2, <2>3, <2>4, <2>5, <2>6, <2>7
<1>8. CurrentThere'
  BY <1>1, <1>4, <1>5 DEF CurrentThere, Tables, HeapMembers, Known
<1> QED BY <1>5, <1>6, <1>7, <1>8

LEMMA RemoveIfWaitingSafe == ASSUME IInv, RemoveIfWaiting PROVE IInv'
<1> USE DEF IInv, waitVars, tcbVars
<1>1. /\ AtNode /\ RemoveSelected /\ AfterRemoval /\ "wait" \in state[Selected]
      /\ UNCHANGED <<ticks, tcbVars, active, sleeping, waitVars, sleepHeap, completed, rollover,
                     taskTicks, unvisited, due>>
  BY DEF RemoveIfWaiting
<1>2. PICK t \in Tasks : t = Selected
  BY <1>1, AtNodeFacts
<1>3. Blocked(t)
  BY <1>1, <1>2 DEF Blocked
<1>4. /\ current' \in Tasks \cup {Idle} /\ phase' \in Phases
      /\ {node, lastActiveNode}' \subseteq 1 .. MaxNodes /\ maxValidNode' \in 0 .. MaxNodes
      /\ IsHeap(schedulerHeap') /\ Known(schedulerHeap', tasksInHeap \ {t})
      /\ tasksInHeap' = tasksInHeap \ {t}
      /\ phase' \in {"thread", "select"}
      /\ phase' = "thread" /\ current' \in Tasks =>
           current' \in tasksInHeap \ {t} /\ state[current'] = {}
      /\ Walk' /\ YieldsAtOnce'
  BY <1>1, <1>2, RemovalFacts
<1>5. TypeOK'
  BY <1>1, <1>4 DEF TypeOK
<1>6. Tables'
  <2> USE DEF Tables
  <2>1. OneFlag' /\ Exited' /\ BlockedExist' /\ SleepTable' /\ WaitTable'
    BY <1>1, OthersKept
  <2>2. HeapMembers'
    BY <1>1, <1>4 DEF HeapMembers, Known, Exists
  <2>3. ActiveTasks'
    BY <1>1, <1>3, <1>4 DEF ActiveTasks, Blocked, Exists
  <2>4. Dues'
    BY <1>1 DEF Dues, IsSleeping, Elapsed, Wrapped
  <2> QED BY <2>1, <2>2, <2>3, <2>4
<1>7. CurrentThere'
  BY <1>1, <1>4 DEF CurrentThere, Tables, HeapMembers, Known, Exists
<1> QED BY <1>4, <1>5, <1>6, <1>7

LEMMA RemoveIfSleepingSafe == ASSUME IInv, RemoveIfSleeping PROVE IInv'
<1> USE DEF IInv, waitVars
<1>1. /\ AtNode /\ RemoveSelected /\ AfterRemoval
      /\ UNCHANGED <<ticks, allocated, waitVars, completed, taskTicks, unvisited, due>>
  BY DEF RemoveIfSleeping
<1>2. PICK t \in Tasks : t = Selected
  BY <1>1, AtNodeFacts
<1>3. StaysAsleep(t) /\ KeepAsleep(t) /\ sleepHeap' = Inserted(sleepHeap, t, data2'[t])
  BY <1>2 DEF RemoveIfSleeping
<1>4. Blocked(t) /\ UNCHANGED <<state, active, sleeping>>
  BY <1>3 DEF StaysAsleep, IsSleeping, Blocked, KeepAsleep
<1>5. /\ rollover' \in BOOLEAN
      /\ data' \in [Tasks -> 0 .. Modulus - 1] /\ data2' \in [Tasks -> 0 .. Modulus - 1]
      /\ data2'[t] \in Nat \ {0} /\ Dues'
  BY <1>1, <1>3, KeepAsleepFacts
<1>6. /\ current' \in Tasks \cup {Idle} /\ phase' \in Phases
      /\ {node, lastActiveNode}' \subseteq 1 .. MaxNodes /\ maxValidNode' \in 0 .. MaxNodes
      /\ IsHeap(schedulerHeap') /\ Known(schedulerHeap', tasksInHeap \ {t})
      /\ tasksInHeap' = tasksInHeap \ {t}
      /\ phase' \in {"thread", "select"}
      /\ phase' = "thread" /\ current' \in Tasks =>
           current' \in tasksInHeap \ {t} /\ state[current'] = {}
      /\ Walk' /\ YieldsAtOnce'
  <2>1. state[Selected] # {}
    BY <1>2, <1>4 DEF Blocked
  <2> QED BY <1>1, <1>2, <1>4, <2>1, RemovalFacts
<1>7. IsHeap(sleepHeap')
  BY <1>3, <1>5, InsertedFacts DEF TypeOK
<1>8. TypeOK'
  BY <1>1, <1>4, <1>5, <1>6, <1>7 DEF TypeOK
<1>9. Tables'
  <2> USE DEF Tables
  <2>1. OneFlag' /\ Exited' /\ BlockedExist' /\ SleepTable' /\ WaitTable'
    BY <1>1, <1>4, OthersKept
  <2>2. HeapMembers'
    BY <1>1, <1>6 DEF HeapMembers, Known, Exists
  <2>3. ActiveTasks'
    BY <1>1, <1>4, <1>6 DEF ActiveTasks, Blocked, Exists
  <2> QED BY <1>5, <2>1, <2>2, <2>3
<1>10. CurrentThere'
  BY <1>1, <1>4, <1>6 DEF CurrentThere, Tables, HeapMembers, Known, Exists
<1> QED BY <1>6, <1>8, <1>9, <1>10

\* A node that may run: its task is awake, or its sleep is over and it is woken up.
LEMMA SelectFacts ==
  ASSUME IInv, NEW Choice, Select(Choice)
  PROVE  /\ AtNode /\ Choice
         /\ rollover' \in BOOLEAN /\ state' \in [Tasks -> SUBSET Flags]
         /\ data' \in [Tasks -> 0 .. Modulus - 1] /\ data2' \in [Tasks -> 0 .. Modulus - 1]
         /\ sleeping' \in [1 .. Buckets -> Seq(Tasks)]
         /\ active' \subseteq Tasks /\ tasksInHeap' = tasksInHeap \cup {Selected}
         /\ Tables' /\ PlacesKept /\ IsHeap(schedulerHeap')
         /\ Selected \in tasksInHeap => UNCHANGED schedulerHeap
         /\ UNCHANGED <<ticks, allocated, waitVars, sleepHeap, completed, taskTicks, unvisited,
                        due>>
         /\ state'[Selected] = {} /\ Selected \in allocated' \ completed'
         /\ \A u \in Tasks : u # Selected => state'[u] = state[u]
<1> USE DEF IInv, waitVars
<1>1. /\ AtNode /\ state[Selected] \cap {"exit", "wait"} = {} /\ ~StaysAsleep(Selected) /\ Choice
      /\ IF IsSleeping(Selected) THEN WakeUp(Selected) ELSE LeaveAwake
      /\ UNCHANGED <<ticks, allocated, waitVars, sleepHeap, completed, taskTicks, unvisited, due>>
  BY DEF Select, Selectable
<1>2. PICK t \in Tasks : /\ t = Selected /\ Exists(t) /\ phase = "select"
                         /\ t \notin Readded => t \in tasksInHeap
  BY <1>1, AtNodeFacts
<1>3. CASE IsSleeping(t)
  <2>1. WakeUp(t) /\ ~StaysAsleep(t)
    BY <1>1, <1>2, <1>3
  <2>2. /\ rollover' \in BOOLEAN /\ state' \in [Tasks -> SUBSET Flags]
        /\ data' \in [Tasks -> 0 .. Modulus - 1] /\ data2' \in [Tasks -> 0 .. Modulus - 1]
        /\ sleeping' \in [1 .. Buckets -> Seq(Tasks)]
        /\ active' \subseteq Tasks /\ IsHeap(schedulerHeap')
        /\ Tables' /\ state'[t] = {} /\ \A u \in Tasks : u # t => state'[u] = state[u]
        /\ t \in tasksInHeap => schedulerHeap' = schedulerHeap
        /\ Readded # {} => PlacesKept
    BY <1>1, <1>3, <2>1, WakeUpFacts
  <2>3. tasksInHeap' = tasksInHeap \cup {t}
    BY <2>1 DEF WakeUp
  <2>4. PlacesKept
    BY <1>2, <2>2 DEF PlacesKept
  <2> QED BY <1>1, <1>2, <2>2, <2>3, <2>4 DEF Exists
<1>4. CASE ~IsSleeping(t)
  <2>1. LeaveAwake
    BY <1>1, <1>2, <1>4
  <2>2. state[t] = {}
    <3>1. state[t] \subseteq Flags /\ state[t] \cap {"exit", "wait"} = {} /\ "sleep" \notin state[t]
      BY <1>1, <1>2, <1>4 DEF IsSleeping, TypeOK
    <3>2. "yield" \notin state[t]
      BY <1>2 DEF YieldsAtOnce
    <3> QED BY <3>1, <3>2 DEF Flags
  <2>3. Tables'
    BY <1>1, <2>1, TablesKept DEF LeaveAwake, tableVars, tcbVars
  <2>4. t \in tasksInHeap
    BY <1>2, <2>2 DEF Tables, ActiveTasks, Blocked
  <2> QED BY <1>1, <1>2, <2>1, <2>2, <2>3, <2>4
      DEF LeaveAwake, tableVars, Exists, TypeOK, PlacesKept
<1> QED BY <1>3, <1>4

LEMMA TakeSafe == ASSUME IInv, Take PROVE IInv'
<1> USE DEF IInv, waitVars
<1>1. Select(Dispatch(schedulerHeap'[node].content))
  BY DEF Take
<1>2. /\ AtNode /\ Dispatch(schedulerHeap'[node].content)
      /\ rollover' \in BOOLEAN /\ state' \in [Tasks -> SUBSET Flags]
      /\ data' \in [Tasks -> 0 .. Modulus - 1] /\ data2' \in [Tasks -> 0 .. Modulus - 1]
      /\ sleeping' \in [1 .. Buckets -> Seq(Tasks)]
      /\ active' \subseteq Tasks /\ tasksInHeap' = tasksInHeap \cup {Selected}
      /\ Tables' /\ PlacesKept /\ IsHeap(schedulerHeap')
      /\ UNCHANGED <<ticks, allocated, waitVars, sleepHeap, completed, taskTicks, unvisited, due>>
      /\ state'[Selected] = {} /\ Selected \in allocated' \ completed'
      /\ \A u \in Tasks : u # Selected => state'[u] = state[u]
  BY <1>1, SelectFacts
<1>3. PICK t \in Tasks : t = Selected /\ phase = "select" /\ node \in DOMAIN schedulerHeap
  BY <1>2, AtNodeFacts
<1>4. /\ current' = t /\ phase' = "thread"
      /\ node' = 1 /\ lastActiveNode' = 1 /\ maxValidNode' = 0
  BY <1>2, <1>3 DEF Dispatch, Selected, PlacesKept
<1>5. TypeOK'
  <2>1. /\ phase' \in Phases /\ {node, lastActiveNode}' \subseteq 1 .. MaxNodes
        /\ maxValidNode' \in 0 .. MaxNodes
    BY <1>2, WalkEnds
  <2>2. current' \in Tasks \cup {Idle} /\ tasksInHeap' \subseteq Tasks
    BY <1>2, <1>3, <1>4 DEF TypeOK
  <2> QED BY <1>2, <2>1, <2>2 DEF TypeOK
<1>6. YieldsAtOnce'
  BY <1>2, <1>3, <1>4 DEF YieldsAtOnce
<1>7. CurrentThere' /\ Walk'
  BY <1>2, <1>3, <1>4 DEF CurrentThere, Walk, Exists
<1> QED BY <1>2, <1>5, <1>6, <1>7

LEMMA DescendSafe ==
  ASSUME IInv, NEW child \in Nat, child > 1, Parent(child) = node, Descend(child)
  PROVE  IInv'
<1> USE DEF IInv, waitVars
<1>1. /\ child <= maxValidNode
      /\ Select(node' = child /\ lastActiveNode' = node /\ UNCHANGED <<current, phase, maxValidNode>>)
  BY DEF Descend
<1>2. /\ AtNode /\ node' = child /\ lastActiveNode' = node
      /\ UNCHANGED <<current, phase, maxValidNode>>
      /\ rollover' \in BOOLEAN /\ state' \in [Tasks -> SUBSET Flags]
      /\ data' \in [Tasks -> 0 .. Modulus - 1] /\ data2' \in [Tasks -> 0 .. Modulus - 1]
      /\ sleeping' \in [1 .. Buckets -> Seq(Tasks)]
      /\ active' \subseteq Tasks /\ tasksInHeap' = tasksInHeap \cup {Selected}
      /\ Tables' /\ PlacesKept /\ IsHeap(schedulerHeap')
      /\ UNCHANGED <<ticks, allocated, waitVars, sleepHeap, completed, taskTicks, unvisited, due>>
      /\ state'[Selected] = {}
      /\ \A u \in Tasks : u # Selected => state'[u] = state[u]
  BY <1>1, SelectFacts
<1>3. PICK t \in Tasks : /\ t = schedulerHeap[node].content /\ t = Selected /\ phase = "select"
                         /\ node \in DOMAIN schedulerHeap /\ maxValidNode <= Len(schedulerHeap)
  BY <1>2, AtNodeFacts DEF Selected
<1>4. /\ child \in 1 .. MaxNodes /\ child \in DOMAIN schedulerHeap'
      /\ maxValidNode <= Len(schedulerHeap') /\ schedulerHeap'[node].content = t
  <2>1. /\ DOMAIN schedulerHeap = 1 .. Len(schedulerHeap) /\ Len(schedulerHeap) \in Nat
        /\ Len(schedulerHeap) <= MaxNodes
        /\ DOMAIN schedulerHeap' = 1 .. Len(schedulerHeap') /\ Len(schedulerHeap') \in Nat
        /\ maxValidNode \in Nat
    BY <1>2, HeapFacts DEF TypeOK
  <2>2. child \in DOMAIN schedulerHeap /\ maxValidNode \in DOMAIN schedulerHeap
    BY ONLY <1>1, <1>3, <2>1, child \in Nat, child > 1
  <2>3. child \in DOMAIN schedulerHeap' /\ maxValidNode \in DOMAIN schedulerHeap'
    BY <1>2, <2>2 DEF PlacesKept
  <2>4. schedulerHeap'[node].content = t
    BY <1>2, <1>3 DEF PlacesKept
  <2> QED BY <2>1, <2>2, <2>3, <2>4, Numbers
<1>5. TypeOK'
  BY <1>2, <1>3, <1>4 DEF TypeOK
<1>6. YieldsAtOnce' /\ CurrentThere'
  BY <1>2, <1>3 DEF YieldsAtOnce, CurrentThere
<1>7. Walk'
  BY <1>2, <1>3, <1>4 DEF Walk
<1> QED BY <1>2, <1>5, <1>6, <1>7

-------------------------------------------------------------------------------
(* Every step keeps the invariant. *)

LEMMA Children ==
  ASSUME NEW i \in Nat \ {0}
  PROVE  /\ FirstChild(i) \in Nat /\ FirstChild(i) > 1 /\ Parent(FirstChild(i)) = i
         /\ SecondChild(i) \in Nat /\ SecondChild(i) > 1 /\ Parent(SecondChild(i)) = i
BY DEF FirstChild, SecondChild, Parent

LEMMA NextSafe == ASSUME IInv, Next PROVE IInv'
<1>1. CASE Calls
  <2>1. CASE (\E t \in Tasks : NewTask(t)) \/ (\E t \in Readded : AddAgain(t))
    BY <2>1, NewTaskSafe, AddAgainSafe
  <2>2. CASE Start \/ Exit \/ Yield \/ Pend
    BY <2>2, StartSafe, ExitSafe, YieldSafe, PendSafe
  <2>3. CASE (\E r \in Reasons : Wait(r) \/ Notify(r)) \/ (\E d \in Durations : Sleep(d))
    BY <2>3, WaitSafe, NotifySafe, SleepSafe
  <2> QED BY <1>1, <2>1, <2>2, <2>3 DEF Calls
<1>2. CASE SysTick
  BY <1>2, SysTickSafe
<1>3. CASE PendSV
  <2>1. node \in Nat \ {0}
    <3>1. MaxNodes \in Nat /\ node \in 1 .. MaxNodes
      BY Numbers DEF IInv, TypeOK
    <3> QED BY ONLY <3>1
  <2>2. CASE SelectStep
    BY <2>1, <2>2, Children, SelectIdleSafe, RemoveIfExitSafe, RemoveIfWaitingSafe,
       RemoveIfSleepingSafe, TakeSafe, DescendSafe
    DEF SelectStep
  <2> QED BY <1>3, <2>2, ContinueSafe, PreemptSafe, RollSafe, RollEndSafe, WakeTopSafe, WakeEndSafe
      DEF PendSV
<1> QED BY <1>1, <1>2, <1>3 DEF Next

LEMMA StutterSafe == ASSUME IInv, UNCHANGED vars PROVE IInv'
<1> USE DEF IInv, vars, tcbVars, tableVars, waitVars, walkVars, nodeVars
<1>1. TypeOK'
  BY DEF TypeOK
<1>2. Tables'
  BY TablesKept
<1>3. YieldsAtOnce' /\ CurrentThere' /\ Walk'
  BY DEF YieldsAtOnce, CurrentThere, Walk, Exists
<1> QED BY <1>1, <1>2, <1>3

LEMMA InitSafe == Init => IInv
<1> SUFFICES ASSUME Init PROVE IInv
  OBVIOUS
<1> USE DEF Init
<1>1. /\ IsHeap(<<>>) /\ Contents(<<>>) = {}
      /\ OnceIn(<<>>, Single) /\ <<>> \in Seq(AlikeNodes)
  BY Numbers DEF IsHeap, OnceIn, Contents
<1>2. TypeOK
  <2>1. /\ 0 \in 0 .. Modulus - 1 /\ 0 \in 0 .. MaxTaskTime /\ 0 \in 0 .. MaxNodes
        /\ {node, lastActiveNode} \subseteq 1 .. MaxNodes
    BY Numbers
  <2>2. /\ sleeping \in [1 .. Buckets -> Seq(Tasks)] /\ waiting \in [Reasons -> Seq(Tasks)]
        /\ unvisited \in [1 .. Buckets -> Seq(Tasks \cup {NULL})]
    BY DEF NoEntries
  <2> QED BY <1>1, <2>1, <2>2 DEF TypeOK, Phases
<1>3. Tables
  <2>1. OneFlag /\ Exited /\ BlockedExist /\ HeapMembers /\ ActiveTasks
    BY <1>1, Numbers
    DEF OneFlag, Exited, BlockedExist, Blocked, HeapMembers, Known, ActiveTasks, Exists
  <2>2. SleepTable /\ WaitTable
    BY DEF SleepTable, WaitTable, NoEntries
  <2>3. Dues
    BY DEF Dues
  <2> QED BY <2>1, <2>2, <2>3 DEF Tables
<1>4. YieldsAtOnce /\ CurrentThere /\ Walk
  BY Numbers DEF YieldsAtOnce, CurrentThere, Walk
<1> QED BY <1>2, <1>3, <1>4 DEF IInv

THEOREM SchedulerInvariance == Spec => []IInv
<1>1. IInv /\ [Next]_vars => IInv'
  BY NextSafe, StutterSafe
<1> QED BY <1>1, InitSafe, PTL DEF Spec

\* Every variable of the scheduler has its type.
THEOREM SchedulerTypeCorrect == Spec => []TypeOK
<1>1. IInv => TypeOK
  BY DEF IInv
<1> QED BY <1>1, SchedulerInvariance, PTL

\* Nobody is woken before the ticks he asked for have passed, across any wraps of the tick
\* counter and however full the heaps are.
THEOREM WakesNobodyEarly == Spec => []NeverEarly
<1>1. IInv => NeverEarly
  BY DEF IInv, Tables, Dues, NeverEarly
<1> QED BY <1>1, SchedulerInvariance, PTL

-------------------------------------------------------------------------------
(***************************************************************************)
(* With a node for every task, and a program that adds every task once, no *)
(* insertion is refused: the scheduler heap then holds exactly the tasks   *)
(* of its table.                                                           *)
(***************************************************************************)

\* What OS_addTask does not see to (stochasticScheduler.c:283-289).
AddsEachOnce == Readded = {}

\* The idle task runs while there is nothing else to run.
IdleAlone == phase = "thread" /\ current = Idle => \A t \in allocated : state[t] # {}

LEMMA Held ==
  ASSUME AddsEachOnce, IInv, AddedMeansInHeap PROVE Holding(schedulerHeap, tasksInHeap)
BY DEF AddsEachOnce, Single, IInv, Tables, HeapMembers, Known, AddedMeansInHeap, Holding

LEMMA NewTaskStores ==
  ASSUME Roomy, AddsEachOnce, IInv, AddedMeansInHeap, NEW t \in Tasks, NewTask(t)
  PROVE  AddedMeansInHeap'
<1>1. /\ IsHeap(schedulerHeap) /\ OnceIn(schedulerHeap, Tasks) /\ Priority[t] \in Nat \ {0}
      /\ Contents(schedulerHeap) = tasksInHeap
  BY Held, Numbers DEF IInv, TypeOK, Holding
<1>2. t \notin Contents(schedulerHeap)
  BY <1>1 DEF NewTask, IInv, Tables, HeapMembers, Exists
<1>3. /\ schedulerHeap' = Inserted(schedulerHeap, t, Priority[t])
      /\ tasksInHeap' = tasksInHeap \cup {t}
  BY DEF NewTask, AddTask
<1>4. Len(schedulerHeap) < MaxNodes
  BY <1>1, <1>2, RoomForOneMore
<1>5. Contents(schedulerHeap') = Contents(schedulerHeap) \cup {t}
  BY <1>1, <1>2, <1>3, <1>4, InsertedFacts
<1> QED BY <1>1, <1>3, <1>5 DEF AddedMeansInHeap

LEMMA NotifyStores ==
  ASSUME Roomy, AddsEachOnce, IInv, AddedMeansInHeap, NEW r \in Reasons, Notify(r)
  PROVE  AddedMeansInHeap'
<1>1. PICK list \in Seq(Tasks) : list = waiting[r]
  BY Entries DEF IInv
<1>2. \A i, j \in 1 .. Len(list) : list[i] = list[j] => i = j
  BY <1>1 DEF IInv, Tables, WaitTable
<1>3. /\ tasksInHeap' = tasksInHeap \cup Some(list, Len(list))
      /\ schedulerHeap' = (CHOOSE h : Returning(h, list))[Len(list)]
  BY <1>1 DEF Notify, Some, Returning
<1>4. IsHeap(schedulerHeap) /\ tasksInHeap \subseteq Tasks
  BY DEF IInv, TypeOK
<1>5. Holding(schedulerHeap', tasksInHeap \cup Some(list, Len(list)))
  BY <1>2, <1>3, <1>4, Held, ReturningFacts
<1> QED BY <1>3, <1>5 DEF AddedMeansInHeap, Holding

LEMMA WakeUpStores ==
  ASSUME Roomy, AddsEachOnce, IInv, AddedMeansInHeap, NEW t \in Tasks, WakesUp(t), WakeUp(t),
         UNCHANGED <<ticks, allocated, waiting, completed, due>>
  PROVE  AddedMeansInHeap'
<1>1. IsSleeping(t) /\ ~StaysAsleep(t)
  BY WakesUpMeans DEF IInv
<1>2. Holding(schedulerHeap', tasksInHeap')
  BY <1>1, Held, WakeUpFacts
<1> QED BY <1>2 DEF AddedMeansInHeap, Holding

LEMMA RollStores ==
  ASSUME Roomy, AddsEachOnce, IInv, AddedMeansInHeap, Roll PROVE AddedMeansInHeap'
<1>1. PICK b \in 1 .. Buckets :
        /\ unvisited[b] # <<>>
        /\ LET t == Head(unvisited[b])
           IN  \/ UNCHANGED <<tasksInHeap, schedulerHeap>>
               \/ t # NULL /\ WakesUp(t) /\ WakeUp(t)
  BY DEF Roll, LeaveAwake, tableVars
<1>2. UNCHANGED <<ticks, allocated, waiting, completed, due>>
  BY DEF Roll, waitVars
<1>3. PICK t \in Tasks \cup {NULL} : t = Head(unvisited[b])
  <2>1. unvisited[b] \in Seq(Tasks \cup {NULL})
    BY DEF IInv, TypeOK
  <2> QED BY <1>1, <2>1
<1>4. CASE UNCHANGED <<tasksInHeap, schedulerHeap>>
  BY <1>4 DEF AddedMeansInHeap
<1>5. CASE t # NULL /\ WakesUp(t) /\ WakeUp(t)
  BY <1>2, <1>5, WakeUpStores
<1> QED BY <1>1, <1>3, <1>4, <1>5

LEMMA WakeTopStores ==
  ASSUME Roomy, AddsEachOnce, IInv, AddedMeansInHeap, WakeTop PROVE AddedMeansInHeap'
<1>1. UNCHANGED <<ticks, allocated, waiting, completed, due>> /\ sleepHeap # <<>>
  BY DEF WakeTop, waitVars
<1>2. PICK t \in Tasks : t = sleepHeap[1].content
  BY <1>1, HeapFacts DEF IInv, TypeOK
<1>3. UNCHANGED <<tasksInHeap, schedulerHeap>> \/ (WakesUp(t) /\ WakeUp(t))
  BY <1>2 DEF WakeTop, LeaveAwake, tableVars
<1>4. CASE UNCHANGED <<tasksInHeap, schedulerHeap>>
  BY <1>4 DEF AddedMeansInHeap
<1>5. CASE WakesUp(t) /\ WakeUp(t)
  BY <1>1, <1>5, WakeUpStores
<1> QED BY <1>3, <1>4, <1>5

\* What a node that leaves the heap means for the two invariants.
LEMMA RemovalStores ==
  ASSUME AddsEachOnce, IInv, AddedMeansInHeap, AtNode, RemoveSelected, AfterRemoval,
         state' = state, state[Selected] # {}, IInv'
  PROVE  AddedMeansInHeap' /\ IdleAlone'
<1>1. /\ Contents(schedulerHeap') = Contents(schedulerHeap) \ {Selected}
      /\ tasksInHeap' = tasksInHeap \ {Selected}
      /\ phase' = "thread" /\ current' = Idle => schedulerHeap' = <<>>
  BY RemovalFacts DEF AddsEachOnce
<1>2. AddedMeansInHeap'
  BY <1>1 DEF AddedMeansInHeap
<1>3. ASSUME schedulerHeap' = <<>>
      PROVE  \A t \in allocated' : state'[t] # {}
  <2>1. tasksInHeap' = {}
    BY <1>2, <1>3 DEF AddedMeansInHeap, Contents
  <2> QED BY <2>1 DEF IInv, TypeOK, Tables, ActiveTasks, Exited, Exists, Blocked
<1> QED BY <1>1, <1>2, <1>3 DEF IdleAlone

LEMMA RemoveStores ==
  ASSUME AddsEachOnce, IInv, AddedMeansInHeap, IInv',
         RemoveIfExit \/ RemoveIfWaiting \/ RemoveIfSleeping
  PROVE  AddedMeansInHeap' /\ IdleAlone'
<1>1. AtNode /\ RemoveSelected /\ AfterRemoval /\ state' = state /\ state[Selected] # {}
  BY DEF RemoveIfExit, RemoveIfWaiting, RemoveIfSleeping, StaysAsleep, IsSleeping, KeepAsleep,
         tcbVars
<1> QED BY <1>1, RemovalStores

LEMMA SelectIdleStores ==
  ASSUME IInv, AddedMeansInHeap, IInv', SelectIdle PROVE AddedMeansInHeap' /\ IdleAlone'
<1>1. schedulerHeap' = <<>> /\ AddedMeansInHeap'
  BY DEF SelectIdle, AddedMeansInHeap, tableVars
<1>2. tasksInHeap' = {}
  BY <1>1 DEF AddedMeansInHeap, Contents
<1>3. \A t \in allocated' : state'[t] # {}
  BY <1>2 DEF IInv, TypeOK, Tables, ActiveTasks, Exited, Exists, Blocked
<1> QED BY <1>1, <1>3 DEF IdleAlone

LEMMA SelectStores ==
  ASSUME AddsEachOnce, IInv, AddedMeansInHeap, NEW Choice, Select(Choice)
  PROVE  AddedMeansInHeap'
<1>1. UNCHANGED <<tasksInHeap, schedulerHeap>>
  <2>1. /\ AtNode /\ tasksInHeap' = tasksInHeap \cup {Selected}
        /\ Selected \in tasksInHeap => UNCHANGED schedulerHeap
    BY SelectFacts
  <2>2. Selected \in tasksInHeap
    BY <2>1, AtNodeFacts DEF AddsEachOnce
  <2> QED BY <2>1, <2>2
<1> QED BY <1>1 DEF AddedMeansInHeap

LEMMA NextStores ==
  ASSUME Roomy, AddsEachOnce, IInv, AddedMeansInHeap, IdleAlone, Next
  PROVE  AddedMeansInHeap' /\ IdleAlone'
<1>1. IInv'
  BY NextSafe
<1>2. CASE Calls
  <2>1. AddedMeansInHeap'
    <3>1. CASE Start \/ Exit \/ Yield \/ Pend
      BY <3>1 DEF Start, Exit, Yield, Pend, AddedMeansInHeap, tableVars
    <3>2. CASE \E r \in Reasons : Wait(r)
      BY <3>2 DEF Wait, AddedMeansInHeap
    <3>3. CASE \E d \in Durations : Sleep(d)
      BY <3>3 DEF Sleep, AddedMeansInHeap
    <3> QED BY <1>2, <3>1, <3>2, <3>3, NewTaskStores, NotifyStores DEF Calls, AddsEachOnce
  <2>2. ~(phase' = "thread" /\ current' = Idle)
    <3>1. CASE Start \/ Exit \/ Yield \/ Pend
      BY <3>1 DEF Start, Exit, Yield, Pend
    <3>2. CASE \E r \in Reasons : Wait(r) \/ Notify(r)
      BY <3>2, Numbers DEF Wait, Notify, Executing
    <3>3. CASE \E d \in Durations : Sleep(d)
      BY <3>3 DEF Sleep
    <3>4. CASE \E t \in Tasks : NewTask(t)
      BY <3>4, Numbers DEF NewTask, AddTask, Executing
    <3> QED BY <1>2, <3>1, <3>2, <3>3, <3>4 DEF Calls, AddsEachOnce
  <2> QED BY <2>1, <2>2 DEF IdleAlone
<1>3. CASE SysTick
  BY <1>3 DEF SysTick, AddedMeansInHeap, IdleAlone, tableVars
<1>4. CASE Continue \/ Preempt \/ RollEnd \/ WakeEnd
  BY <1>4 DEF Continue, MayContinue, Preempt, RollEnd, WakeEnd, EnterSelect, AddedMeansInHeap,
              IdleAlone, tableVars
<1>5. CASE Roll \/ WakeTop
  <2>1. phase' # "thread"
    BY <1>5 DEF Roll, WakeTop, EnterSelect
  <2> QED BY <1>5, <2>1, RollStores, WakeTopStores DEF IdleAlone
<1>6. CASE RemoveIfExit \/ RemoveIfWaiting \/ RemoveIfSleeping
  BY <1>1, <1>6, RemoveStores
<1>7. CASE SelectIdle
  BY <1>1, <1>7, SelectIdleStores
<1>8. CASE Take
  <2>1. AddedMeansInHeap'
    BY <1>8, SelectStores DEF Take
  <2>2. /\ current' = schedulerHeap'[node].content /\ AtNode
        /\ Select(Dispatch(schedulerHeap'[node].content))
    BY <1>8 DEF Take, Select, Selectable, Dispatch
  <2>3. current' # Idle
    BY <2>2, AtNodeFacts, SelectFacts, Numbers DEF PlacesKept, Selected
  <2> QED BY <2>1, <2>3 DEF IdleAlone
<1>9. CASE \E child \in {FirstChild(node), SecondChild(node)} : Descend(child)
  <2>1. AddedMeansInHeap'
    BY <1>9, SelectStores DEF Descend
  <2>2. phase' = "select"
    BY <1>9 DEF Descend, Select, Selectable, AtNode
  <2> QED BY <2>1, <2>2 DEF IdleAlone
<1> QED BY <1>2, <1>3, <1>4, <1>5, <1>6, <1>7, <1>8, <1>9 DEF Next, PendSV, SelectStep

LEMMA StoredInvariance ==
  ASSUME Roomy, AddsEachOnce PROVE Spec => [](IInv /\ AddedMeansInHeap /\ IdleAlone)
<1> DEFINE All == IInv /\ AddedMeansInHeap /\ IdleAlone
<1>1. Init => All
  <2>1. Init => AddedMeansInHeap /\ IdleAlone
    BY DEF Init, AddedMeansInHeap, IdleAlone, Contents
  <2> QED BY <2>1, InitSafe
<1>2. All /\ [Next]_vars => All'
  <2>1. All /\ Next => All'
    BY NextSafe, NextStores
  <2>2. AddedMeansInHeap /\ IdleAlone /\ UNCHANGED vars => (AddedMeansInHeap /\ IdleAlone)'
    BY DEF vars, tcbVars, tableVars, AddedMeansInHeap, IdleAlone
  <2>3. IInv /\ UNCHANGED vars => IInv'
    BY StutterSafe
  <2> QED BY <2>1, <2>2, <2>3
<1>3. Spec => []All
  BY <1>1, <1>2, PTL DEF Spec
<1> QED BY <1>3

\* With a node for every task, and a program that adds each once, the table of the tasks in
\* the scheduler heap tells the truth.
THEOREM AddedTasksAreInHeap == ASSUME Roomy, AddsEachOnce PROVE Spec => []AddedMeansInHeap
BY StoredInvariance, PTL

\* With a node for every task, and a program that adds each once, PendSV resumes only tasks
\* that can run, and the idle task only while no task can, however often the tick counter
\* wraps.
THEOREM ResumesOnlyRunnable == ASSUME Roomy, AddsEachOnce PROVE Spec => []DispatchesRunnable
<1>1. IInv /\ AddedMeansInHeap /\ IdleAlone => DispatchesRunnable
  BY DEF IInv, TypeOK, CurrentThere, IdleAlone, DispatchesRunnable
<1> QED BY <1>1, StoredInvariance, PTL

-------------------------------------------------------------------------------
(***************************************************************************)
(* While the tick counter has not wrapped, a task that is added once is in *)
(* the sleep heap only while it sleeps and has left the scheduler heap,    *)
(* and then it is there once; with a node for every task it is there.      *)
(***************************************************************************)
NeverWraps == LastTick < Modulus

NoWrap == /\ ticks <= LastTick /\ ~rollover /\ phase # "rollover"
          /\ \A t \in Tasks : data[t] <= ticks

Departed(t) == IsSleeping(t) /\ t \notin tasksInHeap

SleepHeapMembers ==
  /\ OnceIn(sleepHeap, Single)
  /\ \A t \in Contents(sleepHeap) : IF t \in Readded THEN t \in allocated ELSE Departed(t)

SleepersStored == \A t \in Tasks : Departed(t) => t \in Contents(sleepHeap)

\* What each step is shown to keep of the two.
SleepersPlaced == SleepHeapMembers /\ (Roomy /\ AddsEachOnce => SleepersStored)

LEMMA NotWrapped ==
  ASSUME TypeOK, NoWrap, NEW t \in Tasks, DetectRollover(t)
  PROVE  ~rollover'
<1>1. ticks \in Nat /\ data[t] \in Nat /\ data[t] <= ticks
  BY ElapsedFacts DEF NoWrap
<1>2. ~Wrapped(t)
  BY <1>1 DEF Wrapped
<1>3. ~rollover /\ rollover' = (rollover \/ Wrapped(t))
  BY DEF NoWrap, DetectRollover
<1> QED BY <1>2, <1>3, Zenon

LEMMA StampedNow ==
  ASSUME TypeOK, NoWrap, NEW t \in Tasks, NEW stamp \in {0, ticks},
         data' = [data EXCEPT ![t] = stamp], ticks' = ticks
  PROVE  \A u \in Tasks : data'[u] <= ticks'
<1>1. ticks \in Nat /\ stamp <= ticks
  BY ElapsedFacts
<1>2. \A u \in Tasks : data'[u] = IF u = t THEN stamp ELSE data[u]
  BY DEF TypeOK
<1> QED BY <1>1, <1>2 DEF NoWrap

LEMMA NextWithoutWrap == ASSUME NeverWraps, IInv, NoWrap, Next PROVE NoWrap'
<1> USE DEF IInv
<1>1. CASE SysTick
  <2>1. /\ ticks \in Nat /\ ticks <= LastTick /\ ticks # LastTick /\ LastTick \in Nat
        /\ LastTick < Modulus /\ Modulus \in Nat
    BY <1>1, Numbers DEF SysTick, NoWrap, TypeOK, NeverWraps
  <2>2. ticks + 1 < Modulus /\ ticks + 1 <= LastTick
    BY ONLY <2>1
  <2>3. ticks' = ticks + 1
    BY ONLY <2>1, <2>2, <1>1 DEF SysTick
  <2>4. \A t \in Tasks : data'[t] = data[t] /\ data[t] \in Nat /\ data[t] <= ticks
    BY <1>1, ElapsedFacts DEF SysTick, tcbVars, NoWrap
  <2>5. \A t \in Tasks : data'[t] <= ticks'
    BY ONLY <2>1, <2>3, <2>4
  <2>6. ~rollover' /\ phase' # "rollover"
    BY <1>1 DEF SysTick, NoWrap
  <2> QED BY <2>2, <2>3, <2>5, <2>6 DEF NoWrap
<1>2. CASE Exit
  <2>1. \A t \in Tasks : data'[t] <= ticks'
    BY <1>2, StampedNow DEF Exit, Executing
  <2> QED BY <1>2, <2>1 DEF Exit, NoWrap
<1>3. CASE \E d \in Durations : Sleep(d)
  <2>1. \A t \in Tasks : data'[t] <= ticks'
    BY <1>3, StampedNow DEF Sleep, Executing
  <2> QED BY <1>3, <2>1 DEF Sleep, NoWrap
<1>4. CASE \/ \E t \in Tasks : NewTask(t) \/ AddAgain(t)
           \/ \E r \in Reasons : Wait(r) \/ Notify(r)
  BY <1>4 DEF NewTask, AddAgain, AddTask, Wait, Notify, NoWrap
<1>5. CASE Start \/ Yield \/ Pend
  BY <1>5 DEF Start, Yield, Pend, NoWrap, tcbVars
<1>6. CASE Continue \/ Preempt \/ WakeEnd
  BY <1>6 DEF Continue, Preempt, WakeEnd, EnterSelect, NoWrap, tcbVars
<1>7. CASE Roll \/ RollEnd
  BY <1>7 DEF Roll, RollEnd, NoWrap
<1>8. ASSUME NEW t \in Tasks, KeepAsleep(t) \/ WakeUp(t), ticks' = ticks, phase' # "rollover"
      PROVE  NoWrap'
  <2>1. ~rollover'
    BY <1>8, NotWrapped DEF KeepAsleep, WakeUp
  <2>2. \A u \in Tasks : data'[u] <= ticks'
    BY <1>8, StampedNow DEF KeepAsleep, WakeUp
  <2> QED BY <1>8, <2>1, <2>2 DEF NoWrap
<1>9. ASSUME LeaveAwake, ticks' = ticks, phase' # "rollover"
      PROVE  NoWrap'
  BY <1>9 DEF LeaveAwake, NoWrap
<1>10. CASE WakeTop
  <2>1. sleepHeap # <<>> /\ ticks' = ticks /\ phase' # "rollover"
    BY <1>10 DEF WakeTop, EnterSelect
  <2>2. PICK t \in Tasks : t = sleepHeap[1].content
    BY <2>1, HeapFacts DEF TypeOK
  <2>3. KeepAsleep(t) \/ WakeUp(t) \/ LeaveAwake
    BY <1>10, <2>2 DEF WakeTop
  <2> QED BY <1>8, <1>9, <2>1, <2>3
<1>11. CASE SelectStep
  <2>1. ticks' = ticks /\ phase' # "rollover"
    BY <1>11 DEF SelectStep, SelectIdle, RemoveIfExit, RemoveIfWaiting, RemoveIfSleeping, Take,
                 Descend, Select, Selectable, AtNode, AfterRemoval, Dispatch
  <2>2. CASE SelectIdle \/ RemoveIfExit \/ RemoveIfWaiting
    BY <2>1, <2>2 DEF SelectIdle, RemoveIfExit, RemoveIfWaiting, NoWrap, tcbVars
  <2>3. CASE RemoveIfSleeping
    BY <1>8, <2>1, <2>3, AtNodeFacts DEF RemoveIfSleeping
  <2>4. ASSUME NEW Choice, Select(Choice)
        PROVE  NoWrap'
    BY <1>8, <1>9, <2>1, <2>4, AtNodeFacts DEF Select, Selectable
  <2> QED BY <1>11, <2>2, <2>3, <2>4 DEF SelectStep, Take, Descend
<1> QED BY <1>1, <1>2, <1>3, <1>4, <1>5, <1>6, <1>7, <1>10, <1>11, Numbers DEF Next, Calls, PendSV

\* What a step does to the tasks that sleep outside the scheduler heap.
LEMMA SameSleepers ==
  ASSUME IInv, SleepersPlaced, sleepHeap' = sleepHeap, Readded \cap allocated \subseteq allocated',
         \A t \in Single : Departed(t)' <=> Departed(t)
  PROVE  SleepersPlaced'
<1>1. Contents(sleepHeap) \subseteq Tasks
  BY HeapFacts DEF IInv, TypeOK
<1>2. SleepHeapMembers'
  BY <1>1 DEF SleepersPlaced, SleepHeapMembers, Single
<1>3. AddsEachOnce /\ SleepersStored => SleepersStored'
  BY DEF AddsEachOnce, SleepersStored, Single
<1> QED BY <1>2, <1>3 DEF SleepersPlaced, Roomy

LEMMA CallKeepsSleepers ==
  ASSUME IInv, SleepersPlaced, Calls
  PROVE  SleepersPlaced'
<1> USE DEF IInv, Single
<1>1. CASE \E t \in Tasks : NewTask(t)
  <2>1. PICK t \in Tasks : NewTask(t)
    BY <1>1
  <2>2. ~IsSleeping(t)
    BY <2>1 DEF NewTask, IsSleeping, Tables, BlockedExist, Blocked
  <2>3. \A u \in Tasks : state'[u] = IF u = t THEN {} ELSE state[u]
    BY <2>1 DEF NewTask, TypeOK
  <2> QED BY <2>1, <2>2, <2>3, SameSleepers DEF NewTask, AddTask, IsSleeping, Departed
<1>6. CASE \E t \in Readded : AddAgain(t)
  BY <1>6, SameSleepers DEF AddAgain, AddTask, IsSleeping, Departed
<1>2. CASE Start \/ Pend
  BY <1>2, SameSleepers DEF Start, Pend, tcbVars, tableVars, IsSleeping, Departed
<1>3. ASSUME Executing, NEW flag, state' = [state EXCEPT ![current] = @ \cup {flag}],
             UNCHANGED <<sleepHeap, tasksInHeap, allocated>>
      PROVE  SleepersPlaced'
  <2>1. current \in tasksInHeap
    BY <1>3, Caller
  <2>2. \A t \in Tasks : t # current => state'[t] = state[t]
    BY <1>3 DEF TypeOK
  <2> QED BY <1>3, <2>1, <2>2, SameSleepers DEF IsSleeping, Departed
<1>4. CASE Exit \/ Yield \/ (\E r \in Reasons : Wait(r)) \/ (\E d \in Durations : Sleep(d))
  BY <1>3, <1>4 DEF Exit, Yield, Wait, Sleep, tableVars
<1>5. CASE \E r \in Reasons : Notify(r)
  <2>1. PICK r \in Reasons : Notify(r)
    BY <1>5
  <2> DEFINE woken == {waiting[r][i] : i \in DOMAIN waiting[r]}
  <2>2. \A t \in woken : t \in Tasks /\ "wait" \in state[t]
    BY Entries DEF Tables, WaitTable
  <2>3. /\ state' = [t \in Tasks |-> IF t \in woken THEN state[t] \ {"wait"} ELSE state[t]]
        /\ tasksInHeap' = tasksInHeap \cup woken /\ sleepHeap' = sleepHeap
        /\ allocated' = allocated
    BY <2>1 DEF Notify
  <2> HIDE DEF woken
  <2>4. \A t \in woken : ~IsSleeping(t)
    BY <2>2 DEF Tables, OneFlag, IsSleeping
  <2>5. \A t \in Tasks : IsSleeping(t)' <=> IsSleeping(t)
    BY <2>3 DEF IsSleeping
  <2> QED BY <2>3, <2>4, <2>5, SameSleepers DEF Departed
<1> QED BY <1>1, <1>2, <1>4, <1>5, <1>6 DEF Calls

\* A round that drops the top of the sleep heap.
LEMMA DroppedPlaces ==
  ASSUME IInv, SleepersPlaced, sleepHeap # <<>>, sleepHeap' = RemoveNode(sleepHeap),
         UNCHANGED allocated, NEW t, t = sleepHeap[1].content,
         \A u \in Tasks : Departed(u)' <=> Departed(u) /\ u # t
  PROVE  SleepersPlaced'
<1>1. IsHeap(sleepHeap) /\ OnceIn(sleepHeap, Single) /\ Contents(sleepHeap) \subseteq Tasks
  BY HeapFacts DEF IInv, TypeOK, SleepersPlaced, SleepHeapMembers
<1>2. 1 \in DOMAIN sleepHeap
  BY <1>1, HeapFacts
<1>3. /\ OnceIn(sleepHeap', Single) /\ Contents(sleepHeap') \subseteq Contents(sleepHeap)
      /\ Contents(sleepHeap) \ {t} \subseteq Contents(sleepHeap')
      /\ t \in Single => t \notin Contents(sleepHeap')
  BY <1>1, <1>2, RemovedFacts DEF RemoveNode
<1>4. SleepHeapMembers'
  BY <1>1, <1>3 DEF SleepersPlaced, SleepHeapMembers, Single
<1>5. SleepersStored => SleepersStored'
  BY <1>3 DEF SleepersStored
<1> QED BY <1>4, <1>5 DEF SleepersPlaced, Roomy, AddsEachOnce

LEMMA WakeTopPlaces ==
  ASSUME IInv, SleepersPlaced, WakeTop PROVE SleepersPlaced'
<1> USE DEF IInv
<1>1. /\ sleepHeap # <<>> /\ IsHeap(sleepHeap) /\ OnceIn(sleepHeap, Single)
      /\ UNCHANGED <<ticks, due, allocated>>
  BY DEF WakeTop, TypeOK, SleepersPlaced, SleepHeapMembers
<1>2. 1 \in DOMAIN sleepHeap
  BY <1>1, HeapFacts
<1>3. PICK t \in Tasks : t = sleepHeap[1].content /\ t \in Contents(sleepHeap)
  BY <1>1, <1>2, HeapFacts DEF Contents
<1>4. IF t \in Readded THEN t \in allocated ELSE IsSleeping(t) /\ t \notin tasksInHeap
  BY <1>3 DEF SleepersPlaced, SleepHeapMembers, Departed
<1>5. PICK rest : rest = RemoveNode(sleepHeap)
  OBVIOUS
<1>6. CASE WakesUp(t) /\ WakeUp(t) /\ sleepHeap' = rest
  <2>1. \A u \in Tasks : Departed(u)' <=> Departed(u) /\ u # t
    BY <1>6 DEF WakeUp, Departed, IsSleeping, TypeOK
  <2> HIDE DEF IInv
  <2> QED BY <1>1, <1>3, <1>5, <1>6, <2>1, DroppedPlaces
<1>7. CASE ~IsSleeping(t) /\ LeaveAwake /\ sleepHeap' = rest
  <2>1. \A u \in Tasks : Departed(u)' <=> Departed(u) /\ u # t
    BY <1>7 DEF LeaveAwake, tableVars, Departed, IsSleeping
  <2> HIDE DEF IInv
  <2> QED BY <1>1, <1>3, <1>5, <1>7, <2>1, DroppedPlaces
<1>8. CASE /\ StaysAsleep(t) /\ KeepAsleep(t) /\ UNCHANGED tasksInHeap
           /\ sleepHeap' = AddNode(rest, t, data2'[t])
  <2>1. data2'[t] \in Nat \ {0}
    BY <1>1, <1>8, KeepAsleepFacts
  <2>2. /\ IsHeap(rest) /\ Len(rest) = Len(sleepHeap) - 1 /\ OnceIn(rest, Single)
        /\ Contents(rest) \subseteq Contents(sleepHeap)
        /\ Contents(sleepHeap) \ {t} \subseteq Contents(rest)
        /\ t \in Single => t \notin Contents(rest)
    BY <1>1, <1>2, <1>3, <1>5, RemovedFacts DEF RemoveNode
  <2>3. Len(rest) < MaxNodes
    BY <1>1, <2>2, HeapFacts, Numbers
  <2>4. sleepHeap' = Inserted(rest, t, data2'[t])
    BY <1>8, <2>3 DEF Inserted
  <2>5. OnceIn(sleepHeap', Single) /\ Contents(sleepHeap') = Contents(rest) \cup {t}
    BY <2>1, <2>2, <2>3, <2>4, InsertedFacts
  <2>6. Contents(sleepHeap') = Contents(sleepHeap)
    BY <1>3, <2>2, <2>5
  <2>7. \A u \in Tasks : Departed(u)' <=> Departed(u)
    BY <1>8 DEF KeepAsleep, IsSleeping, Departed
  <2>8. Contents(sleepHeap) \subseteq Tasks
    BY <1>1, HeapFacts
  <2> QED BY <1>1, <2>5, <2>6, <2>7, <2>8
      DEF SleepersPlaced, SleepHeapMembers, SleepersStored, Roomy, AddsEachOnce
<1> QED BY <1>3, <1>5, <1>6, <1>7, <1>8 DEF WakeTop

LEMMA RemoveIfSleepingPlaces ==
  ASSUME IInv, SleepersPlaced, RemoveIfSleeping PROVE SleepersPlaced'
<1> USE DEF IInv
<1>1. PICK t \in Tasks : t = Selected /\ (t \notin Readded => t \in tasksInHeap) /\ Exists(t)
  BY AtNodeFacts DEF RemoveIfSleeping
<1>2. /\ StaysAsleep(t) /\ KeepAsleep(t) /\ sleepHeap' = Inserted(sleepHeap, t, data2'[t])
      /\ tasksInHeap' = tasksInHeap \ {t} /\ UNCHANGED <<ticks, due, allocated>>
  BY <1>1 DEF RemoveIfSleeping, RemoveSelected
<1>3. data2'[t] \in Nat \ {0}
  BY <1>2, KeepAsleepFacts
<1>4. /\ IsHeap(sleepHeap) /\ OnceIn(sleepHeap, Single) /\ Contents(sleepHeap) \subseteq Tasks
      /\ t \in Single => t \notin Contents(sleepHeap)
  BY <1>1, HeapFacts DEF TypeOK, SleepersPlaced, SleepHeapMembers, Departed, Single
<1>5. /\ OnceIn(sleepHeap', Single) /\ Contents(sleepHeap') \subseteq Contents(sleepHeap) \cup {t}
      /\ Len(sleepHeap) < MaxNodes => Contents(sleepHeap') = Contents(sleepHeap) \cup {t}
  BY <1>2, <1>3, <1>4, InsertedFacts
<1>6. Roomy /\ AddsEachOnce => Contents(sleepHeap') = Contents(sleepHeap) \cup {t}
  <2>1. AddsEachOnce => OnceIn(sleepHeap, Tasks) /\ t \notin Contents(sleepHeap)
    BY <1>4 DEF AddsEachOnce, Single
  <2> QED BY <1>4, <1>5, <2>1, RoomForOneMore
<1>7. \A u \in Tasks : Departed(u)' <=> Departed(u) \/ u = t
  BY <1>1, <1>2 DEF KeepAsleep, StaysAsleep, IsSleeping, Departed
<1>8. SleepHeapMembers'
  BY <1>1, <1>2, <1>4, <1>5, <1>7 DEF SleepersPlaced, SleepHeapMembers, Exists
<1>9. Roomy /\ AddsEachOnce => SleepersStored'
  BY <1>6, <1>7 DEF SleepersPlaced, SleepersStored
<1> QED BY <1>8, <1>9 DEF SleepersPlaced, Roomy, AddsEachOnce

LEMMA WalkPlaces ==
  ASSUME IInv, SleepersPlaced, SelectStep PROVE SleepersPlaced'
<1> USE DEF IInv, Single
<1>1. CASE SelectIdle
  BY <1>1, SameSleepers DEF SelectIdle, tcbVars, tableVars, IsSleeping, Departed
<1>2. CASE RemoveIfExit \/ RemoveIfWaiting
  <2>1. /\ AtNode /\ RemoveSelected /\ UNCHANGED <<state, sleepHeap>>
        /\ "exit" \in state[Selected] \/ "wait" \in state[Selected]
    BY <1>2 DEF RemoveIfExit, RemoveIfWaiting, tcbVars
  <2>2. PICK t \in Tasks : t = Selected
    BY <2>1, AtNodeFacts
  <2>3. ~IsSleeping(t) /\ tasksInHeap' = tasksInHeap \ {t}
    BY <2>1, <2>2 DEF Tables, OneFlag, IsSleeping, RemoveSelected
  <2>4. Readded \cap allocated \subseteq allocated'
    BY <1>2 DEF Tables, Exited, RemoveIfExit, RemoveIfWaiting, tcbVars
  <2> QED BY <2>1, <2>3, <2>4, SameSleepers DEF IsSleeping, Departed
<1>3. CASE RemoveIfSleeping
  BY <1>3, RemoveIfSleepingPlaces
<1>4. ASSUME NEW Choice, Select(Choice)
      PROVE  SleepersPlaced'
  <2>1. /\ AtNode /\ UNCHANGED <<sleepHeap, allocated>>
        /\ tasksInHeap' = tasksInHeap \cup {Selected}
        /\ \A u \in Tasks : u # Selected => state'[u] = state[u]
    BY <1>4, SelectFacts
  <2>2. Selected \notin Readded => Selected \in tasksInHeap
    BY <2>1, AtNodeFacts
  <2> QED BY <2>1, <2>2, SameSleepers DEF IsSleeping, Departed
<1> QED BY <1>1, <1>2, <1>3, <1>4 DEF SelectStep, Take, Descend

LEMMA NextPlaces ==
  ASSUME IInv, NoWrap, SleepersPlaced, Next PROVE SleepersPlaced'
<1>1. CASE Calls
  BY <1>1, CallKeepsSleepers
<1>2. CASE SysTick \/ Continue \/ RollEnd \/ WakeEnd
  BY <1>2, SameSleepers DEF SysTick, Continue, RollEnd, WakeEnd, tcbVars, tableVars, IsSleeping,
                              Departed, Single
<1>3. CASE Preempt
  <2>1. \A t \in Tasks : IsSleeping(t)' <=> IsSleeping(t)
    BY <1>3 DEF Preempt, IsSleeping, IInv, TypeOK
  <2>2. Readded \cap allocated \subseteq allocated'
    BY <1>3 DEF Preempt, Reclaim, IInv, Tables, Exited
  <2> QED BY <1>3, <2>1, <2>2, SameSleepers DEF Preempt, tableVars, Departed, Single
<1>4. CASE Roll
  BY <1>4 DEF Roll, NoWrap
<1> QED BY <1>1, <1>2, <1>3, <1>4, WakeTopPlaces, WalkPlaces DEF Next, PendSV

LEMMA PlacedInvariance == ASSUME NeverWraps PROVE Spec => [](IInv /\ SleepersPlaced)
<1> DEFINE All == IInv /\ NoWrap /\ SleepersPlaced
<1>1. Init => All
  <2>1. Init => NoWrap
    BY Numbers DEF Init, NoWrap
  <2>2. Init => SleepersPlaced
    BY DEF Init, SleepersPlaced, SleepHeapMembers, SleepersStored, OnceIn, Contents,
           Departed, IsSleeping
  <2> QED BY <2>1, <2>2, InitSafe
<1>2. All /\ [Next]_vars => All'
  <2>1. All /\ Next => All'
    BY NextSafe, NextWithoutWrap, NextPlaces
  <2>2. NoWrap /\ UNCHANGED vars => NoWrap'
    BY DEF vars, tcbVars, NoWrap
  <2>3. IInv /\ SleepersPlaced /\ UNCHANGED vars => SleepersPlaced'
    BY SameSleepers DEF vars, tcbVars, tableVars, Departed, IsSleeping
  <2>4. IInv /\ UNCHANGED vars => IInv'
    BY StutterSafe
  <2> QED BY <2>1, <2>2, <2>3, <2>4
<1>3. Spec => []All
  BY <1>1, <1>2, PTL DEF Spec
<1> QED BY <1>3, PTL

LEMMA OccurrenceCounts ==
  ASSUME NEW heap, NEW C, OnceIn(heap, C), NEW t \in C
  PROVE  Occurrences(heap, t) = IF t \in Contents(heap) THEN 1 ELSE 0
<1>1. CASE t \in Contents(heap)
  <2>1. PICK i \in DOMAIN heap : heap[i].content = t
    BY <1>1 DEF Contents
  <2>2. {j \in DOMAIN heap : heap[j].content = t} = {i}
    BY <2>1 DEF OnceIn
  <2> QED BY <1>1, <2>2, FS_Singleton DEF Occurrences
<1>2. CASE t \notin Contents(heap)
  <2>1. {j \in DOMAIN heap : heap[j].content = t} = {}
    BY <1>2 DEF Contents
  <2> QED BY <1>2, <2>1, FS_EmptySet DEF Occurrences
<1> QED BY <1>1, <1>2

\* A task that is added once is in the scheduler heap once at most, however often the program
\* adds others again, however full the heap is and however often the tick counter wraps.
THEOREM AddedOnceIsInHeapOnce == Spec => []OnlyReaddedDoubled
<1>1. IInv => OnlyReaddedDoubled
  <2> SUFFICES ASSUME IInv, NEW t \in Tasks \ Readded
               PROVE  Occurrences(schedulerHeap, t) <= 1
    BY DEF OnlyReaddedDoubled
  <2>1. t \in Single /\ OnceIn(schedulerHeap, Single)
    BY DEF Single, IInv, Tables, HeapMembers, Known
  <2>2. Occurrences(schedulerHeap, t) = IF t \in Contents(schedulerHeap) THEN 1 ELSE 0
    BY <2>1, OccurrenceCounts
  <2> QED BY <2>2
<1> QED BY <1>1, SchedulerInvariance, PTL

\* Until the tick counter wraps, a task that is added once is in one of the two heaps at most,
\* and there once, however often the program adds others again.
THEOREM AddedOnceIsInOneHeap ==
  ASSUME NeverWraps
  PROVE  Spec => [](\A t \in Tasks \ Readded :
                      Occurrences(schedulerHeap, t) + Occurrences(sleepHeap, t) <= 1)
<1>1. IInv /\ SleepersPlaced =>
        \A t \in Tasks \ Readded :
          Occurrences(schedulerHeap, t) + Occurrences(sleepHeap, t) <= 1
  <2> SUFFICES ASSUME IInv, SleepersPlaced, NEW t \in Tasks \ Readded
               PROVE  Occurrences(schedulerHeap, t) + Occurrences(sleepHeap, t) <= 1
    OBVIOUS
  <2>1. t \in Single /\ OnceIn(schedulerHeap, Single) /\ OnceIn(sleepHeap, Single)
    BY DEF Single, IInv, Tables, HeapMembers, Known, SleepersPlaced, SleepHeapMembers
  <2>2. ~(t \in Contents(schedulerHeap) /\ t \in Contents(sleepHeap))
    BY InHeap DEF IInv, SleepersPlaced, SleepHeapMembers, Departed
  <2>3. /\ Occurrences(schedulerHeap, t) = IF t \in Contents(schedulerHeap) THEN 1 ELSE 0
        /\ Occurrences(sleepHeap, t) = IF t \in Contents(sleepHeap) THEN 1 ELSE 0
    BY <2>1, OccurrenceCounts
  <2> QED BY <2>2, <2>3
<1> QED BY <1>1, PlacedInvariance, PTL

\* With a node for every task, until the tick counter wraps, and if the program adds each
\* task once, no task is lost and none is in the heaps twice. The last condition is needed:
\* OS_addTask gives a task that is scheduled already one more node.
THEOREM NoTaskLost == ASSUME Roomy, NeverWraps, AddsEachOnce PROVE Spec => []InOnePlace
<1>1. IInv /\ AddedMeansInHeap /\ SleepersPlaced => InOnePlace
  <2> SUFFICES ASSUME IInv, AddedMeansInHeap, SleepersPlaced, NEW t \in Tasks
               PROVE  LET scheduled == Occurrences(schedulerHeap, t)
                          asleep == Occurrences(sleepHeap, t)
                      IN  /\ scheduled = IF t \in tasksInHeap THEN 1 ELSE 0
                          /\ Exists(t) => asleep = IF IsSleeping(t) THEN 1 - scheduled ELSE 0
                          /\ Exists(t) /\ state[t] \cap {"sleep", "wait"} = {} =>
                               t \in active /\ scheduled = 1
    BY DEF InOnePlace
  <2>1. Occurrences(schedulerHeap, t) = IF t \in tasksInHeap THEN 1 ELSE 0
    BY Held, OccurrenceCounts DEF Holding
  <2>2. OnceIn(sleepHeap, Tasks)
    BY DEF SleepersPlaced, SleepHeapMembers, Single, AddsEachOnce
  <2>3. t \in Contents(sleepHeap) <=> IsSleeping(t) /\ t \notin tasksInHeap
    BY DEF SleepersPlaced, SleepHeapMembers, SleepersStored, Departed, AddsEachOnce
  <2>4. Occurrences(sleepHeap, t) = IF IsSleeping(t) /\ t \notin tasksInHeap THEN 1 ELSE 0
    BY <2>2, <2>3, OccurrenceCounts
  <2>5. Exists(t) /\ state[t] \cap {"sleep", "wait"} = {} => t \in active /\ t \in tasksInHeap
    BY DEF IInv, Tables, ActiveTasks, Blocked
  <2> QED BY <2>1, <2>4, <2>5
<1> QED BY <1>1, StoredInvariance, PlacedInvariance, PTL

\* Until the tick counter wraps, no table and no heap holds the TCB of a task that exited and
\* was reclaimed or is about to be, however full the heaps are.
THEOREM ExitedTasksVanish == ASSUME NeverWraps PROVE Spec => []ExitVanishes
<1>1. IInv /\ SleepersPlaced => ExitVanishes
  <2> SUFFICES ASSUME IInv, SleepersPlaced, NEW t \in Tasks, ~Exists(t)
               PROVE  /\ t \notin active \cup tasksInHeap \cup Contents(schedulerHeap)
                                  \cup Contents(sleepHeap)
                      /\ t \notin Listed(sleeping) \cup Listed(waiting)
    BY DEF ExitVanishes
  <2> USE DEF IInv, Tables
  <2>1. ~Blocked(t)
    BY DEF Exists, Exited, BlockedExist, OneFlag, Blocked
  <2>2. t \notin active /\ t \notin tasksInHeap /\ t \notin Contents(schedulerHeap)
    BY InHeap DEF ActiveTasks, HeapMembers
  <2>3. t \notin Contents(sleepHeap)
    BY <2>1, Numbers DEF Exists, Exited, SleepersPlaced, SleepHeapMembers, Departed, IsSleeping, Blocked
  <2>4. t \notin Listed(sleeping)
    BY <2>1 DEF TypeOK, Listed, SleepTable, IsSleeping, Blocked
  <2>5. t \notin Listed(waiting)
    BY <2>1 DEF TypeOK, Listed, WaitTable, Blocked
  <2> QED BY <2>2, <2>3, <2>4, <2>5
<1> QED BY <1>1, PlacedInvariance, PTL
===============================================================================
