-------------------------------- MODULE Heap --------------------------------
(***************************************************************************)
(* The array operations of DataStructures/heap.c. A heap is the sequence   *)
(* of its nodes: node i here has index i - 1 there. A node is a content    *)
(* and the value that orders it, the smallest on top.                      *)
(*                                                                         *)
(* Sifting swaps a node along a path of the tree; the operators say where  *)
(* it comes to rest and shift the nodes it passes by one place.            *)
(***************************************************************************)
EXTENDS Naturals, Sequences

Node(content, value) == [content |-> content, value |-> value]

Contents(heap) == {heap[i].content : i \in DOMAIN heap}

Parent(i) == i \div 2
FirstChild(i) == 2 * i
SecondChild(i) == 2 * i + 1

\* Where a node is that started at i and was swapped with its parent n times.
Ancestor(i, n) ==
  LET place[k \in Nat] == IF k = 0 THEN i ELSE Parent(place[k - 1])
  IN  place[n]

\* The smallest n <= max with P true of it: how often a loop runs before its exit test holds.
Iterations(P(_), max) == CHOOSE n \in 0 .. max : P(n) /\ \A k \in 0 .. n - 1 : ~P(k)

\* Mutant: the sift stops below the root's children.
RisesShort(heap, value) ==
  LET last == Len(heap) + 1
      Rests(n) == Ancestor(last, n) <= 3 \/ heap[Ancestor(last, n + 1)].value <= value
  IN  Iterations(Rests, last)

\* How often OS_heap_addNode swaps a new last node with its parent.
Rises(heap, value) ==
  LET last == Len(heap) + 1
      Rests(n) == Ancestor(last, n) = 1 \/ heap[Ancestor(last, n + 1)].value <= value
  IN  Iterations(Rests, last)

\* OS_heap_addNode, for a heap that is not full.
AddNode(heap, content, value) ==
  LET last == Len(heap) + 1
      rises == Rises(heap, value)
      passed == {Ancestor(last, n) : n \in 0 .. rises - 1}
  IN  [i \in 1 .. last |-> CASE i = Ancestor(last, rises) -> Node(content, value)
                             [] i \in passed -> heap[Parent(i)]
                             [] OTHER -> heap[i]]

\* Mutant: the first child is taken without a look at the second.
FirstChildOnly(heap, i) == IF FirstChild(i) <= Len(heap) THEN FirstChild(i) ELSE 0

\* The child __heapDown compares with: the smaller one, the first of equals; 0 for none.
SmallerChild(heap, i) ==
  LET children == {FirstChild(i), SecondChild(i)} \cap DOMAIN heap
  IN  IF children = {} THEN 0
      ELSE CHOOSE c \in children : \A d \in children :
             heap[c].value < heap[d].value \/ (heap[c].value = heap[d].value /\ c <= d)

\* The places of a node that starts at index at and is swapped down n times.
Descent(heap, at) ==
  LET place[n \in Nat] == IF n = 0 THEN at ELSE SmallerChild(heap, place[n - 1])
  IN  place

\* How often __heapDown swaps the node it put at index at. It never swaps upwards.
Sinks(heap, at, value) ==
  LET place == Descent(heap, at)
      Rests(n) == place[n + 1] = 0 \/ value <= heap[place[n + 1]].value
  IN  Iterations(Rests, Len(heap))

(***************************************************************************)
(* __heapDown, the body of OS_heap_removeNodeAt and, for the top node, of  *)
(* OS_heap_removeNode: the last node takes the place of the removed one    *)
(* and sinks while its smaller child is smaller than it.                   *)
(***************************************************************************)
RemoveNodeAt(heap, at) ==
  LET moved == heap[Len(heap)]
      rest == SubSeq(heap, 1, Len(heap) - 1)
      sinks == Sinks(rest, at, moved.value)
      place == Descent(rest, at)
      passed == {place[n] : n \in 0 .. sinks - 1}
  IN  IF at = Len(heap)
      THEN rest
      ELSE [i \in DOMAIN rest |-> CASE i = place[sinks] -> moved
                                    [] i \in passed -> rest[SmallerChild(rest, i)]
                                    [] OTHER -> rest[i]]

RemoveNode(heap) == RemoveNodeAt(heap, 1)

\* The heap property: no node is larger than its children.
Ordered(heap) == \A i \in DOMAIN heap : i > 1 => heap[Parent(i)].value <= heap[i].value
===============================================================================
