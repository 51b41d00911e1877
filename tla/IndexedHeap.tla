----------------------------- MODULE IndexedHeap -----------------------------
(***************************************************************************)
(* A heap of DataStructures/heap.c with its content index: a hash table    *)
(* that maps every content to the index of its node, so that priority      *)
(* inheritance can find and remove the node of a given task. The scheduler *)
(* heap is of this kind; the sleep heap is made without the index.         *)
(*                                                                         *)
(* Operations run in handlers, one at a time. No caller adds a content     *)
(* that is in the heap: where tasks are notified, wake up and inherit,     *)
(* tasksInSchedulerHeapHashTable sees to it; OS_addTask checks nothing and *)
(* leaves it to the program to add a TCB once (stochasticScheduler.c:      *)
(* 283-285). Two nodes of one content would share one entry of the index;  *)
(* the first removed takes it along, and a swap of the other then fails an *)
(* assertion (heap.c:90-99). Callers only ask for contents that are in the *)
(* heap (stochasticScheduler.c:463-483).                                   *)
(***************************************************************************)
EXTENDS Heap, FiniteSets

CONSTANTS Elements, \* what a node may hold: TCB pointers
          Values,   \* priorities
          MaxNodes, \* capacity of the node array, and of the index table
          Indexing  \* _enableQuickNodeContentIndexLookup

ASSUME IndexedHeapAssumption == /\ MaxNodes \in Nat \ {0}
                                /\ Values \subseteq Nat
                                /\ Indexing \in BOOLEAN

VARIABLES nodes,  \* ptrToUnderlyingArray, up to nextEmptyElement
          index,  \* nodeContentIndexHashTable: 1-based index of a content, 0 if it has none
          halted, \* an ASSERT failed: the breakpoint stopped the core
          drawn   \* history: a node was removed by its place or its content

vars == <<nodes, index, halted, drawn>>

TypeOK == /\ \E n \in 0 .. MaxNodes : nodes \in [1 .. n -> [content : Elements, value : Values]]
          /\ index \in [Elements -> 0 .. MaxNodes] \* 0 for every content without indexing
          /\ halted \in BOOLEAN /\ drawn \in BOOLEAN

Init == /\ nodes = <<>>
        /\ index = [c \in Elements |-> 0]
        /\ halted = FALSE /\ drawn = FALSE

-------------------------------------------------------------------------------
\* The index table. A put is refused for a key that is there and for a full table.
Indexed(table) == {c \in Elements : table[c] # 0}
Unput(table, c) == [table EXCEPT ![c] = 0]
\* Mutant: the index is made 1-based twice.
PutShifted(table, c, at) ==
  IF Indexing /\ c \notin Indexed(table) /\ Cardinality(Indexed(table)) < MaxNodes
  THEN [table EXCEPT ![c] = at + 1] ELSE table

Put(table, c, at) ==
  IF Indexing /\ c \notin Indexed(table) /\ Cardinality(Indexed(table)) < MaxNodes
  THEN [table EXCEPT ![c] = at] ELSE table

\* Mutant: a swap updates the moving node only.
ExchangeOne(table, c, atC, d, atD) == Put(Unput(table, c), c, atC)

\* A swap removes both contents from the table and puts them back at their new indices.
Exchange(table, c, atC, d, atD) == Put(Put(Unput(Unput(table, c), d), c, atC), d, atD)

\* The index table after n swaps of c, added as the last node.
Climb(c) ==
  LET last == Len(nodes) + 1
      table[n \in Nat] ==
        IF n = 0
        THEN Put(Unput(index, c), c, last)
        ELSE LET from == Ancestor(last, n - 1)
             IN  Exchange(table[n - 1], c, Parent(from), nodes[Parent(from)].content, from)
  IN  table

HasRoom == Len(nodes) < MaxNodes

\* OS_heap_addNode; without room it returns 0. A swap asserts that both of its contents
\* are in the table.
Add(c, v) ==
  /\ ~halted /\ HasRoom
  /\ LET rises == Rises(nodes, v)
         table == Climb(c)
         PassedBy(n) == nodes[Ancestor(Len(nodes) + 1, n + 1)].content
     IN  IF Indexing => \A n \in 0 .. rises - 1 : {c, PassedBy(n)} \subseteq Indexed(table[n])
         THEN /\ nodes' = AddNode(nodes, c, v)
              /\ index' = table[rises]
              /\ UNCHANGED halted
         ELSE halted' = TRUE /\ UNCHANGED <<nodes, index>>
  /\ UNCHANGED drawn

\* The index table after n swaps of the last node, put at index at. When the removed node is
\* the last one it is removed from the table and put back by the third statement.
Sink(at) ==
  LET gone == nodes[at].content
      moved == nodes[Len(nodes)]
      rest == SubSeq(nodes, 1, Len(nodes) - 1)
      place == Descent(rest, at)
      table[n \in Nat] ==
        IF n = 0
        THEN Put(Unput(Unput(index, moved.content), gone), moved.content, at)
        ELSE Exchange(table[n - 1], moved.content, place[n], rest[place[n]].content, place[n - 1])
  IN  table

\* __heapDown with its updates of the table.
Remove(at) ==
  LET rest == SubSeq(nodes, 1, Len(nodes) - 1)
      sinks == Sinks(rest, at, nodes[Len(nodes)].value)
  IN  /\ nodes' = RemoveNodeAt(nodes, at)
      /\ index' = Sink(at)[IF at = Len(nodes) THEN 0 ELSE sinks]
      /\ UNCHANGED halted

\* OS_heap_removeNode; for an empty heap it returns 0 and changes nothing.
RemoveTop == ~halted /\ nodes # <<>> /\ Remove(1) /\ UNCHANGED drawn

\* OS_heap_removeNodeAt of an index the caller walked to, as the scheduler does.
RemoveAt(at) == ~halted /\ at \in DOMAIN nodes /\ Remove(at) /\ drawn' = TRUE

\* OS_heap_indexOfContent and OS_heap_removeNodeAt of what it returns, as priority
\* inheritance does. An index outside of the heap fails an assertion.
RemoveContent(c) ==
  /\ ~halted /\ Indexing /\ c \in Contents(nodes)
  /\ IF index[c] \in DOMAIN nodes
     THEN Remove(index[c]) /\ drawn' = TRUE
     ELSE halted' = TRUE /\ UNCHANGED <<nodes, index, drawn>>

Next == \/ RemoveTop
        \/ \E c \in Elements \ Contents(nodes), v \in Values : Add(c, v)
        \/ \E at \in 1 .. MaxNodes : RemoveAt(at)
        \/ \E c \in Elements : RemoveContent(c)

Spec == Init /\ [][Next]_vars

-------------------------------------------------------------------------------
\* A heap returns its contents smallest first as long as it is used as a queue, and loses
\* none and invents none however it is used (heap.c:56-58, 123-125, 237).
Abstract == INSTANCE PriorityQueue WITH queued <- {nodes[i] : i \in DOMAIN nodes}
IsPriorityQueue == Abstract!Spec

\* However the nodes moved, the index of a content in the heap is where its node is, so
\* that removing it removes it and nothing else (heap.c:157; the scheduler asserts it,
\* stochasticScheduler.c:473, 487).
IndexFinds == /\ ~halted
              /\ \A i \in DOMAIN nodes : index[nodes[i].content] = i

\* "the heap property is restored automatically during this operation" (heap.c:125): true
\* of a heap used as a queue.
HeapProperty == drawn \/ Ordered(nodes)

(***************************************************************************)
(* What the comments say and the code does not do (see the README).        *)
(***************************************************************************)

\* "(heap property restored in the process)" when a node is removed from the middle
\* (stochasticScheduler.c:553, 678).
AlwaysOrdered == Ordered(nodes)

\* The assertions on the state of the table (heap.c:90-99) never fail; refuted in a table
\* smaller than the number of contents.
NeverHalts == ~halted
===============================================================================
