------------------------- MODULE IndexedHeapProofs --------------------------
(***************************************************************************)
(* For every capacity and every set of contents and values: the heap of    *)
(* heap.c keeps its order as long as it is used as a queue, is a priority  *)
(* queue, and, with a table that has room for all contents, always knows   *)
(* the place of each.                                                      *)
(***************************************************************************)
EXTENDS IndexedHeap, DataTheorems, FiniteSetTheorems

(* The state. *)

HeapNodes == [content : Elements, value : Values]
Tables == [Elements -> 0 .. MaxNodes]

LEMMA NodeFacts ==
  \A node \in HeapNodes : node.value \in Nat /\ node.value \in Values /\ node.content \in Elements
BY IndexedHeapAssumption DEF HeapNodes

LEMMA TypeIsSequence ==
  TypeOK <=> /\ nodes \in Seq(HeapNodes) /\ Len(nodes) <= MaxNodes
             /\ index \in Tables /\ halted \in BOOLEAN /\ drawn \in BOOLEAN
<1>1. MaxNodes \in Nat
  BY IndexedHeapAssumption
<1>2. ASSUME NEW n \in 0 .. MaxNodes, nodes \in [1 .. n -> HeapNodes]
      PROVE  nodes \in Seq(HeapNodes) /\ Len(nodes) <= MaxNodes
  <2>1. n \in Nat /\ n <= MaxNodes
    BY <1>1
  <2>2. nodes \in Seq(HeapNodes) /\ Len(nodes) = n
    BY <1>2, <2>1, FunctionIsSequence
  <2> QED BY <2>1, <2>2
<1>3. ASSUME nodes \in Seq(HeapNodes), Len(nodes) <= MaxNodes
      PROVE  \E n \in 0 .. MaxNodes : nodes \in [1 .. n -> HeapNodes]
  <2>1. Len(nodes) \in 0 .. MaxNodes /\ nodes \in [1 .. Len(nodes) -> HeapNodes]
    BY <1>1, <1>3
  <2> QED BY <2>1
<1> QED BY <1>2, <1>3 DEF TypeOK, HeapNodes, Tables

EachContentOnce(heap) ==
  \A i, j \in DOMAIN heap : heap[i].content = heap[j].content => i = j

LEMMA StillOnce ==
  ASSUME NEW old, NEW new, Rearranges(new, old), EachContentOnce(old)
  PROVE  EachContentOnce(new)
BY DEF Rearranges, EachContentOnce

IInv == TypeOK /\ EachContentOnce(nodes) /\ HeapProperty

LEMMA NodesValued == ASSUME TypeOK PROVE Valued(nodes)
<1>1. nodes \in Seq(HeapNodes)
  BY TypeIsSequence
<1>2. \A i \in 1 .. Len(nodes) : nodes[i] \in HeapNodes
  BY <1>1
<1>3. Len(nodes) \in Nat /\ DOMAIN nodes = 1 .. Len(nodes)
  BY <1>1
<1> QED BY <1>2, <1>3, NodeFacts DEF Valued

-------------------------------------------------------------------------------
(* The index table keeps its type through any number of swaps. *)

LEMMA UnputTyped == ASSUME NEW t \in Tables, NEW c PROVE Unput(t, c) \in Tables
<1>1. 0 \in 0 .. MaxNodes
  BY IndexedHeapAssumption
<1> QED BY <1>1 DEF Tables, Unput

LEMMA PutTyped ==
  ASSUME NEW t \in Tables, NEW c, NEW at \in 0 .. MaxNodes
  PROVE  Put(t, c, at) \in Tables
BY DEF Tables, Put

LEMMA ExchangeTyped ==
  ASSUME NEW t \in Tables, NEW c, NEW d, NEW atC \in 0 .. MaxNodes, NEW atD \in 0 .. MaxNodes
  PROVE  Exchange(t, c, atC, d, atD) \in Tables
BY UnputTyped, PutTyped DEF Exchange

LEMMA AncestorStaysLow ==
  ASSUME NEW i \in Nat
  PROVE  \A n \in Nat : Ancestor(i, n) \in 0 .. i
<1> DEFINE Low == {n \in Nat : Ancestor(i, n) \in 0 .. i}
<1>1. 0 \in Low
  <2>1. Ancestor(i, 0) = i
    BY AncestorRuns
  <2> QED BY <2>1
<1>2. ASSUME NEW n \in Nat, n \in Low
      PROVE  n + 1 \in Low
  <2>1. Ancestor(i, n + 1) = Parent(Ancestor(i, n)) /\ Ancestor(i, n) \in 0 .. i
    BY <1>2, AncestorRuns
  <2> QED BY <2>1 DEF Parent
<1>3. \A n \in Nat : n \in Low
  <2> HIDE DEF Low
  <2> QED BY <1>1, <1>2, Induction
<1> QED BY <1>3

LEMMA ClimbRuns ==
  ASSUME TypeOK, HasRoom, NEW c \in Elements,
         NEW last \in Nat \ {0}, Len(nodes) + 1 = last
  PROVE  /\ Climb(c)[0] = Put(Unput(index, c), c, last)
         /\ \A n \in Nat :
              /\ Climb(c)[n] \in Tables
              /\ Climb(c)[n + 1] = Exchange(Climb(c)[n], c, Ancestor(last, n + 1),
                                     nodes[Ancestor(last, n + 1)].content, Ancestor(last, n))
<1> DEFINE from(n) == Ancestor(last, n - 1)
           Next1(n, t) == Exchange(t, c, Parent(from(n)), nodes[Parent(from(n))].content, from(n))
           First0 == Put(Unput(index, c), c, last)
           Follows(f) == f = [n \in Nat |-> IF n = 0 THEN First0 ELSE Next1(n, f[n - 1])]
<1>1. last \in 0 .. MaxNodes /\ index \in Tables
  <2>1. Len(nodes) < MaxNodes /\ MaxNodes \in Nat
    BY IndexedHeapAssumption DEF HasRoom
  <2> QED BY <2>1, TypeIsSequence
<1>2. First0 \in Tables
  BY <1>1, UnputTyped, PutTyped
<1>3. \A n \in Nat \ {0}, t \in Tables : Next1(n, t) \in Tables
  <2> TAKE n \in Nat \ {0}, t \in Tables
  <2>1. n - 1 \in Nat
    OBVIOUS
  <2>2. from(n) \in 0 .. last
    BY <2>1, AncestorStaysLow
  <2>3. from(n) \in 0 .. MaxNodes /\ Parent(from(n)) \in 0 .. MaxNodes
    BY <1>1, <2>2, IndexedHeapAssumption DEF Parent
  <2> HIDE DEF from
  <2> QED BY <2>3, ExchangeTyped
<1> DEFINE Step == [n \in Nat |-> [t \in Tables |-> IF n = 0 THEN t ELSE Next1(n, t)]]
<1>4. PICK f \in [Nat -> Tables] : Iterates(f, First0, Step)
  <2> HIDE DEF Next1, First0
  <2>1. Step \in [Nat -> [Tables -> Tables]]
    BY <1>3
  <2> HIDE DEF Step
  <2> QED BY <1>2, <2>1, Iteration
<1>5. Follows(f)
  <2> HIDE DEF Next1, First0
  <2>1. \A n \in Nat \ {0} : Step[n][f[n - 1]] = Next1(n, f[n - 1])
    OBVIOUS
  <2> HIDE DEF Step
  <2> QED BY <1>4, <2>1 DEF Iterates
<1>6. Climb(c) = CHOOSE f1 : Follows(f1)
  BY DEF Climb
<1>7. Follows(Climb(c))
  <2> HIDE DEF Follows
  <2> QED BY <1>5, <1>6
<1>8. Climb(c)[0] = First0 /\ \A n \in Nat : Climb(c)[n + 1] = Next1(n + 1, Climb(c)[n])
  <2> HIDE DEF Next1, First0
  <2>1. \A n \in Nat : n + 1 \in Nat /\ n + 1 # 0 /\ n + 1 - 1 = n
    OBVIOUS
  <2> QED BY <1>7, <2>1
<1>9. ASSUME NEW n \in Nat
      PROVE  Next1(n + 1, Climb(c)[n]) = Exchange(Climb(c)[n], c, Ancestor(last, n + 1),
                                           nodes[Ancestor(last, n + 1)].content, Ancestor(last, n))
  <2>1. from(n + 1) = Ancestor(last, n) /\ Parent(from(n + 1)) = Ancestor(last, n + 1)
    <3>1. n + 1 - 1 = n
      OBVIOUS
    <3> QED BY <3>1, AncestorRuns
  <2> HIDE DEF from
  <2> QED BY <2>1
<1> DEFINE Typed == {n \in Nat : Climb(c)[n] \in Tables}
<1>10. \A n \in Nat : n \in Typed
  <2> HIDE DEF Next1, First0
  <2>1. 0 \in Typed
    BY <1>2, <1>8
  <2>2. ASSUME NEW n \in Nat, n \in Typed
        PROVE  n + 1 \in Typed
    <3>1. n + 1 \in Nat \ {0}
      OBVIOUS
    <3>2. Climb(c)[n + 1] \in Tables
      BY <1>3, <1>8, <2>2, <3>1
    <3> QED BY <3>1, <3>2
  <2> HIDE DEF Typed
  <2> QED BY <2>1, <2>2, Induction
<1> QED BY <1>8, <1>9, <1>10

WithoutLast(rest, heap) == rest = SubSeq(heap, 1, Len(heap) - 1)

LEMMA WithoutLastFacts ==
  ASSUME NEW S, NEW heap \in Seq(S), Len(heap) > 0, NEW rest, WithoutLast(rest, heap)
  PROVE  /\ rest \in Seq(S) /\ Len(rest) = Len(heap) - 1
         /\ \A i \in 1 .. Len(rest) : rest[i] = heap[i] /\ rest[i] \in S
<1>1. Len(heap) \in Nat /\ rest = SubSeq(heap, 1, Len(heap) - 1)
  BY DEF WithoutLast
<1>2. /\ rest \in Seq(S) /\ Len(rest) = Len(heap) - 1
      /\ \A i \in 1 .. Len(heap) - 1 : rest[i] = heap[i]
  <2>1. \A i \in 1 .. Len(heap) - 1 : heap[i] \in S
    BY <1>1
  <2>2. PICK m \in Nat : m = Len(heap) - 1
    BY <1>1
  <2>3. /\ rest \in Seq(S) /\ Len(rest) = IF 1 <= m THEN m - 1 + 1 ELSE 0
        /\ \A i \in 1 .. m - 1 + 1 : rest[i] = heap[1 + i - 1]
    <3>1. rest = SubSeq(heap, 1, m) /\ \A i \in 1 .. m : heap[i] \in S
      BY <1>1, <2>1, <2>2
    <3>2. 1 \in Int /\ m \in Int
      OBVIOUS
    <3> QED BY ONLY <3>1, <3>2, SubSeqProperties
  <2>4. m - 1 + 1 = m /\ \A i \in 1 .. m : 1 + i - 1 = i
    OBVIOUS
  <2> QED BY <2>2, <2>3, <2>4
<1>3. \A i \in 1 .. Len(heap) : heap[i] \in S
  OBVIOUS
<1>4. \A i \in 1 .. Len(rest) : i \in 1 .. Len(heap) /\ i \in 1 .. Len(heap) - 1
  BY <1>1, <1>2
<1> QED BY <1>2, <1>3, <1>4

\* The same for Sink.
LEMMA SinkRuns ==
  ASSUME TypeOK, NEW at \in 1 .. Len(nodes),
         NEW rest, WithoutLast(rest, nodes), NEW d, IsDescent(d, rest, at),
         NEW moved, moved = nodes[Len(nodes)]
  PROVE  /\ Sink(at)[0] = Put(Unput(Unput(index, moved.content), nodes[at].content), moved.content, at)
         /\ \A n \in Nat :
              /\ Sink(at)[n] \in Tables
              /\ Sink(at)[n + 1] = Exchange(Sink(at)[n], moved.content, d[n + 1],
                                            rest[d[n + 1]].content, d[n])
<1> DEFINE Next1(n, t) == Exchange(t, moved.content, d[n], rest[d[n]].content, d[n - 1])
           First0 == Put(Unput(Unput(index, moved.content), nodes[at].content), moved.content, at)
           Follows(f) == f = [n \in Nat |-> IF n = 0 THEN First0 ELSE Next1(n, f[n - 1])]
<1>1. /\ at \in 0 .. MaxNodes /\ at \in Nat /\ index \in Tables
      /\ Valued(rest) /\ Len(rest) <= MaxNodes
  <2>1. Len(nodes) <= MaxNodes /\ MaxNodes \in Nat /\ Len(nodes) \in Nat /\ index \in Tables
    BY IndexedHeapAssumption, TypeIsSequence
  <2>2. nodes \in Seq(HeapNodes)
    BY TypeIsSequence
  <2>3. rest \in Seq(HeapNodes) /\ Len(rest) = Len(nodes) - 1
    BY <2>1, <2>2, WithoutLastFacts
  <2>4. \A i \in 1 .. Len(rest) : rest[i] \in HeapNodes
    BY <2>3
  <2>5. DOMAIN rest = 1 .. Len(rest) /\ Len(rest) \in Nat
    BY <2>3
  <2>6. Valued(rest)
    BY <2>4, <2>5, NodeFacts DEF Valued
  <2> QED BY <2>1, <2>3, <2>6
<1>2. First0 \in Tables
  BY <1>1, UnputTyped, PutTyped
<1>a. \A n \in Nat : d[n] \in 0 .. MaxNodes
  <2>typed. \A n \in Nat : d[n] \in Nat
    BY <1>1, DescentRuns
  <2>next. ASSUME NEW n \in Nat
           PROVE  d[n + 1] = SmallerChild(rest, d[n])
    BY <1>1, DescentRuns
  <2> DEFINE Low == {n \in Nat : d[n] \in 0 .. MaxNodes}
  <2>1. 0 \in Low
    BY <1>1, DescentRuns
  <2>2. ASSUME NEW n \in Nat, n \in Low
        PROVE  n + 1 \in Low
    <3>1. d[n + 1] = SmallerChild(rest, d[n]) /\ d[n] \in Nat
      BY <2>typed, <2>next
    <3>2. d[n + 1] \in 0 .. Len(rest)
      BY <1>1, <3>1, SmallerChildFacts
    <3> QED BY <1>1, <3>2, IndexedHeapAssumption DEF Valued
  <2> HIDE DEF Low
  <2>3. \A n \in Nat : n \in Low
    BY <2>1, <2>2, Induction
  <2>4. \A n \in Nat : n \in Low => d[n] \in 0 .. MaxNodes
    BY DEF Low
  <2> QED BY <2>3, <2>4
<1>3. \A n \in Nat \ {0}, t \in Tables : Next1(n, t) \in Tables
  <2> TAKE n \in Nat \ {0}, t \in Tables
  <2>1. n - 1 \in Nat /\ n \in Nat
    OBVIOUS
  <2>2. d[n] \in 0 .. MaxNodes /\ d[n - 1] \in 0 .. MaxNodes
    BY <1>a, <2>1
  <2> QED BY <2>2, ExchangeTyped
<1> DEFINE Step == [n \in Nat |-> [t \in Tables |-> IF n = 0 THEN t ELSE Next1(n, t)]]
<1>4. PICK f \in [Nat -> Tables] : Iterates(f, First0, Step)
  <2> HIDE DEF Next1, First0
  <2>1. Step \in [Nat -> [Tables -> Tables]]
    BY <1>3
  <2> HIDE DEF Step
  <2> QED BY <1>2, <2>1, Iteration
<1>5. Follows(f)
  <2> HIDE DEF Next1, First0
  <2>1. \A n \in Nat \ {0} : Step[n][f[n - 1]] = Next1(n, f[n - 1])
    OBVIOUS
  <2> HIDE DEF Step
  <2> QED BY <1>4, <2>1 DEF Iterates
<1>6. Sink(at) = CHOOSE f1 : Follows(f1)
  BY DEF Sink, IsDescent, WithoutLast
<1>7. Follows(Sink(at))
  <2> HIDE DEF Follows
  <2> QED BY <1>5, <1>6
<1>8. Sink(at)[0] = First0 /\ \A n \in Nat : Sink(at)[n + 1] = Next1(n + 1, Sink(at)[n])
  <2> HIDE DEF Next1, First0
  <2>1. \A n \in Nat : n + 1 \in Nat /\ n + 1 # 0 /\ n + 1 - 1 = n
    OBVIOUS
  <2> QED BY <1>7, <2>1
<1>9. \A n \in Nat : Sink(at)[n + 1] = Exchange(Sink(at)[n], moved.content, d[n + 1],
                                               rest[d[n + 1]].content, d[n])
  <2>1. \A n \in Nat : n + 1 - 1 = n
    OBVIOUS
  <2> QED BY <1>8, <2>1
<1> DEFINE Typed == {n \in Nat : Sink(at)[n] \in Tables}
<1>10. \A n \in Nat : n \in Typed
  <2> HIDE DEF Next1, First0
  <2>1. 0 \in Typed
    BY <1>2, <1>8
  <2>2. ASSUME NEW n \in Nat, n \in Typed
        PROVE  n + 1 \in Typed
    <3>1. n + 1 \in Nat \ {0}
      OBVIOUS
    <3>2. Sink(at)[n + 1] \in Tables
      BY <1>3, <1>8, <2>2, <3>1
    <3> QED BY <3>1, <3>2
  <2> HIDE DEF Typed
  <2> QED BY <2>1, <2>2, Induction
<1> QED BY <1>8, <1>9, <1>10

-------------------------------------------------------------------------------
(***************************************************************************)
(* The contents of the index table. With room for every content no put is  *)
(* refused, and n swaps along a path leave the table as MovedAlong leaves  *)
(* heap.                                                                   *)
(***************************************************************************)

Room == Indexing /\ IsFiniteSet(Elements) /\ Cardinality(Elements) <= MaxNodes

LEMMA PutWorks ==
  ASSUME Room, NEW t \in Tables, NEW c \in Elements, t[c] = 0, NEW at
  PROVE  Put(t, c, at) = [t EXCEPT ![c] = at]
<1>1. c \notin Indexed(t) /\ Indexed(t) \subseteq Elements \ {c}
  BY DEF Indexed
<1>2. /\ IsFiniteSet(Elements \ {c}) /\ Cardinality(Elements) \in Nat
      /\ Cardinality(Elements \ {c}) = Cardinality(Elements) - 1
  BY FS_RemoveElement, FS_CardinalityType DEF Room
<1>3. Cardinality(Indexed(t)) \in Nat /\ Cardinality(Indexed(t)) <= Cardinality(Elements \ {c})
  BY <1>1, <1>2, FS_Subset, FS_CardinalityType
<1>4. Cardinality(Indexed(t)) < MaxNodes
  BY <1>2, <1>3, IndexedHeapAssumption DEF Room
<1> QED BY <1>1, <1>4 DEF Put, Room

LEMMA UnputValues ==
  ASSUME NEW t \in Tables, NEW c \in Elements
  PROVE  /\ Unput(t, c)[c] = 0
         /\ \A x \in Elements : x # c => Unput(t, c)[x] = t[x]
BY DEF Unput, Tables

LEMMA PutValues ==
  ASSUME Room, NEW t \in Tables, NEW c \in Elements, t[c] = 0, NEW at
  PROVE  /\ Put(t, c, at)[c] = at
         /\ \A x \in Elements : x # c => Put(t, c, at)[x] = t[x]
BY PutWorks DEF Tables

LEMMA ExchangeValues ==
  ASSUME Room, NEW t \in Tables, NEW c \in Elements, NEW d \in Elements, c # d,
         NEW atC \in 0 .. MaxNodes, NEW atD \in 0 .. MaxNodes,
         NEW u, u = Exchange(t, c, atC, d, atD)
  PROVE  /\ u[c] = atC /\ u[d] = atD
         /\ \A x \in Elements : x # c /\ x # d => u[x] = t[x]
<1>1. PICK u1 \in Tables : u1 = Unput(t, c)
  BY UnputTyped
<1>2. PICK u2 \in Tables : u2 = Unput(u1, d)
  BY UnputTyped
<1>3. PICK u3 \in Tables : u3 = Put(u2, c, atC)
  BY PutTyped
<1>4. u = Put(u3, d, atD)
  BY <1>1, <1>2, <1>3 DEF Exchange
<1>5. u1[c] = 0 /\ \A x \in Elements : x # c => u1[x] = t[x]
  BY <1>1, UnputValues
<1>6. u2[d] = 0 /\ u2[c] = 0 /\ \A x \in Elements : x # c /\ x # d => u2[x] = t[x]
  BY <1>2, <1>5, UnputValues
<1>7. u3[d] = 0 /\ u3[c] = atC /\ \A x \in Elements : x # c /\ x # d => u3[x] = t[x]
  BY <1>3, <1>6, PutValues
<1> QED BY <1>4, <1>7, PutValues

\* The table after n swaps of the node at p[0] of old along p.
MovedIndex(t, old, p, n) ==
  /\ t[old[p[0]].content] = p[n]
  /\ \A k \in 1 .. n : t[old[p[k]].content] = p[k - 1]
  /\ \A i \in DOMAIN old : (\A k \in 0 .. n : i # p[k]) => t[old[i].content] = i

\* A heap before its swaps, within the capacity.
Within(old) ==
  /\ EachContentOnce(old) /\ DOMAIN old \subseteq 1 .. MaxNodes
  /\ \A i \in DOMAIN old : old[i].content \in Elements

LEMMA MovedStep ==
  ASSUME Room, NEW old, Within(old), NEW n \in Nat, NEW p, Path(p, n + 1, DOMAIN old),
         NEW t \in Tables, MovedIndex(t, old, p, n),
         NEW u, u = Exchange(t, old[p[0]].content, p[n + 1], old[p[n + 1]].content, p[n])
  PROVE  /\ MovedIndex(u, old, p, n + 1)
         /\ {old[p[0]].content, old[p[n + 1]].content} \subseteq Indexed(t)
<1>1. MaxNodes \in Nat
  BY IndexedHeapAssumption
<1>2. /\ \A k \in 0 .. n + 1 : p[k] \in DOMAIN old
      /\ \A j, k \in 0 .. n + 1 : p[j] = p[k] => j = k
      /\ 0 \in 0 .. n + 1 /\ n \in 0 .. n + 1 /\ n + 1 \in 0 .. n + 1 /\ n + 1 # 0
  BY DEF Path
<1>3. /\ \A i \in DOMAIN old : i \in 1 .. MaxNodes /\ old[i].content \in Elements
      /\ \A i, j \in DOMAIN old : old[i].content = old[j].content => i = j
  BY DEF Within, EachContentOnce
<1> DEFINE c == old[p[0]].content
           e == old[p[n + 1]].content
<1>4. c \in Elements /\ e \in Elements /\ c # e
  BY <1>2, <1>3
<1>5. p[n] \in 1 .. MaxNodes /\ p[n + 1] \in 1 .. MaxNodes
  BY <1>2, <1>3
<1>6. u[c] = p[n + 1] /\ u[e] = p[n] /\ \A x \in Elements : x # c /\ x # e => u[x] = t[x]
  <2>1. p[n] \in 0 .. MaxNodes /\ p[n + 1] \in 0 .. MaxNodes
    BY <1>1, <1>5
  <2> QED BY <1>4, <2>1, ExchangeValues
<1>7. t[c] = p[n] /\ t[e] = p[n + 1]
  <2>1. \A k \in 0 .. n : p[n + 1] # p[k]
    BY <1>2
  <2> QED BY <1>2, <2>1 DEF MovedIndex
<1>8. \A k \in 1 .. n + 1 : u[old[p[k]].content] = p[k - 1]
  <2> TAKE k \in 1 .. n + 1
  <2>1. CASE k = n + 1
    BY <1>6, <2>1
  <2>2. CASE k # n + 1
    <3>1. k \in 1 .. n /\ k \in 0 .. n + 1 /\ k # 0
      BY <2>2
    <3>2. t[old[p[k]].content] = p[k - 1]
      BY <3>1 DEF MovedIndex
    <3>3. p[k] # p[0] /\ p[k] # p[n + 1] /\ p[k] \in DOMAIN old
      BY <1>2, <2>2, <3>1
    <3>4. old[p[k]].content # c /\ old[p[k]].content # e /\ old[p[k]].content \in Elements
      BY <1>2, <1>3, <3>3
    <3> QED BY <1>6, <3>2, <3>4
  <2> QED BY <2>1, <2>2
<1>9. ASSUME NEW i \in DOMAIN old, \A k \in 0 .. n + 1 : i # p[k]
      PROVE  u[old[i].content] = i
  <2>1. \A k \in 0 .. n : i # p[k]
    BY <1>9
  <2>2. t[old[i].content] = i
    BY <2>1 DEF MovedIndex
  <2>3. old[i].content # c /\ old[i].content # e /\ old[i].content \in Elements
    BY <1>2, <1>3, <1>9
  <2> QED BY <1>6, <2>2, <2>3
<1>10. MovedIndex(u, old, p, n + 1)
  BY <1>6, <1>8, <1>9 DEF MovedIndex
<1>11. {c, e} \subseteq Indexed(t)
  BY <1>4, <1>5, <1>7 DEF Indexed
<1> QED BY <1>10, <1>11

LEMMA MovedAll ==
  ASSUME Room, NEW old, Within(old), NEW r \in Nat, NEW p, Path(p, r, DOMAIN old),
         NEW table, \A n \in 0 .. r : table[n] \in Tables, MovedIndex(table[0], old, p, 0),
         \A n \in 0 .. r - 1 : table[n + 1] =
            Exchange(table[n], old[p[0]].content, p[n + 1], old[p[n + 1]].content, p[n])
  PROVE  /\ MovedIndex(table[r], old, p, r)
         /\ \A n \in 0 .. r - 1 :
              {old[p[0]].content, old[p[n + 1]].content} \subseteq Indexed(table[n])
<1>1. ASSUME NEW n \in 0 .. r - 1, MovedIndex(table[n], old, p, n)
      PROVE  /\ MovedIndex(table[n + 1], old, p, n + 1)
             /\ {old[p[0]].content, old[p[n + 1]].content} \subseteq Indexed(table[n])
  <2>1. n \in Nat /\ n \in 0 .. r /\ n + 1 \in 0 .. r
    OBVIOUS
  <2>2. Path(p, n + 1, DOMAIN old)
    BY <2>1 DEF Path
  <2>3. PICK t \in Tables : t = table[n]
    BY <2>1
  <2>4. PICK u : u = table[n + 1]
    OBVIOUS
  <2>5. u = Exchange(t, old[p[0]].content, p[n + 1], old[p[n + 1]].content, p[n])
    BY <2>3, <2>4
  <2>6. MovedIndex(t, old, p, n)
    BY <1>1, <2>3
  <2>7. /\ MovedIndex(u, old, p, n + 1)
        /\ {old[p[0]].content, old[p[n + 1]].content} \subseteq Indexed(t)
    BY <2>1, <2>2, <2>5, <2>6, MovedStep
  <2> QED BY <2>3, <2>4, <2>7
<1> DEFINE Done == {n \in Nat : n <= r => MovedIndex(table[n], old, p, n)}
<1>2. 0 \in Done
  OBVIOUS
<1>3. ASSUME NEW n \in Nat, n \in Done
      PROVE  n + 1 \in Done
  <2>1. CASE n + 1 <= r
    <3>1. n \in 0 .. r - 1 /\ MovedIndex(table[n], old, p, n)
      BY <1>3, <2>1
    <3>2. MovedIndex(table[n + 1], old, p, n + 1)
      BY <1>1, <3>1
    <3> QED BY <3>2
  <2>2. CASE ~(n + 1 <= r)
    BY <2>2
  <2> QED BY <2>1, <2>2
<1>4. \A n \in Nat : n \in Done
  <2> HIDE DEF Done
  <2> QED BY <1>2, <1>3, Induction
<1>5. \A n \in 0 .. r : MovedIndex(table[n], old, p, n)
  BY <1>4
<1>6. MovedIndex(table[r], old, p, r)
  BY <1>5
<1>7. ASSUME NEW n \in 0 .. r - 1
      PROVE  {old[p[0]].content, old[p[n + 1]].content} \subseteq Indexed(table[n])
  <2>1. MovedIndex(table[n], old, p, n)
    <3>1. n \in 0 .. r
      OBVIOUS
    <3> QED BY <1>5, <3>1
  <2> QED BY <1>1, <2>1
<1> QED BY <1>6, <1>7

LEMMA MovedFinds ==
  ASSUME NEW old, NEW new, DOMAIN new = DOMAIN old, NEW r \in Nat, NEW p, NEW t,
         MovedIndex(t, old, p, r), MovedAlong(new, old, p, r)
  PROVE  \A i \in DOMAIN new : t[new[i].content] = i
<1> TAKE i \in DOMAIN new
<1>1. CASE \A k \in 0 .. r : i # p[k]
  BY <1>1 DEF MovedIndex, MovedAlong
<1>2. CASE i = p[r]
  BY <1>2 DEF MovedIndex, MovedAlong
<1>3. ASSUME NEW k \in 0 .. r - 1, i = p[k]
      PROVE  t[new[i].content] = i
  <2>1. k + 1 \in 1 .. r /\ k + 1 - 1 = k
    OBVIOUS
  <2>2. t[old[p[k + 1]].content] = p[k]
    BY <2>1 DEF MovedIndex
  <2>3. new[p[k]] = old[p[k + 1]]
    BY DEF MovedAlong
  <2> QED BY <1>3, <2>2, <2>3
<1>4. \A k \in 0 .. r : k = r \/ k \in 0 .. r - 1
  OBVIOUS
<1> QED BY <1>1, <1>2, <1>3, <1>4

-------------------------------------------------------------------------------
(* What an addition does to the heap and to the table. *)

Entries(heap) == {heap[i] : i \in DOMAIN heap}

\* The heap with the new node, before it rises.
Grown(old, c, v) == old = Append(nodes, Node(c, v))

LEMMA GrownFacts ==
  ASSUME TypeOK, HasRoom, EachContentOnce(nodes), NEW c \in Elements, NEW v \in Values,
         c \notin Contents(nodes), NEW old, Grown(old, c, v),
         NEW last \in Nat \ {0}, Len(nodes) + 1 = last
  PROVE  /\ Node(c, v) \in HeapNodes /\ nodes \in Seq(HeapNodes) /\ last <= MaxNodes
         /\ DOMAIN nodes = 1 .. last - 1
         /\ DOMAIN old = 1 .. last /\ old[last] = Node(c, v)
         /\ \A i \in 1 .. last - 1 : old[i] = nodes[i] /\ nodes[i] \in HeapNodes
         /\ Within(old) /\ Entries(old) = Entries(nodes) \cup {Node(c, v)}
<1>1. nodes \in Seq(HeapNodes) /\ Len(nodes) \in Nat
  BY TypeIsSequence
<1>2. Node(c, v) \in HeapNodes /\ Node(c, v).content = c
  BY DEF Node, HeapNodes
<1>3. last <= MaxNodes
  BY <1>1, IndexedHeapAssumption DEF HasRoom
<1>4. DOMAIN nodes = 1 .. last - 1 /\ \A i \in 1 .. last - 1 : nodes[i] \in HeapNodes
  BY <1>1
<1>5. /\ DOMAIN old = 1 .. last /\ old[last] = Node(c, v)
      /\ \A i \in 1 .. last - 1 : old[i] = nodes[i]
  BY <1>1 DEF Grown
<1>6. \A i \in 1 .. last : i = last \/ i \in 1 .. last - 1
  OBVIOUS
<1>7. \A i \in 1 .. last - 1 : old[i].content # c
  BY <1>4, <1>5 DEF Contents
<1>8. EachContentOnce(old)
  <2> SUFFICES ASSUME NEW i \in 1 .. last, NEW j \in 1 .. last, old[i].content = old[j].content
               PROVE  i = j
    BY <1>5 DEF EachContentOnce
  <2>1. CASE i = last \/ j = last
    BY <1>2, <1>5, <1>6, <1>7, <2>1
  <2>2. CASE i # last /\ j # last
    BY <1>4, <1>5, <1>6, <2>2 DEF EachContentOnce
  <2> QED BY <2>1, <2>2
<1>9. \A i \in 1 .. last : old[i].content \in Elements
  BY <1>2, <1>4, <1>5, <1>6, NodeFacts
<1>10. Within(old)
  <2>1. 1 .. last \subseteq 1 .. MaxNodes
    BY <1>3, IndexedHeapAssumption
  <2> QED BY <1>5, <1>8, <1>9, <2>1 DEF Within
<1>11. Entries(old) = Entries(nodes) \cup {Node(c, v)}
  <2>1. last \in 1 .. last /\ \A i \in 1 .. last - 1 : i \in 1 .. last
    OBVIOUS
  <2> QED BY <1>4, <1>5, <1>6, <2>1 DEF Entries
<1> QED BY <1>1, <1>2, <1>3, <1>4, <1>5, <1>10, <1>11

LEMMA AddsOne ==
  ASSUME TypeOK, HasRoom, EachContentOnce(nodes), NEW c \in Elements, NEW v \in Values,
         c \notin Contents(nodes), NEW new, new = AddNode(nodes, c, v)
  PROVE  /\ new \in Seq(HeapNodes) /\ Len(new) <= MaxNodes
         /\ EachContentOnce(new) /\ Entries(new) = Entries(nodes) \cup {Node(c, v)}
         /\ Ordered(nodes) => Ordered(new)
<1>1. PICK last \in Nat \ {0} : Len(nodes) + 1 = last
  BY TypeIsSequence
<1>2. PICK old : Grown(old, c, v)
  BY DEF Grown
<1>3. /\ Node(c, v) \in HeapNodes /\ nodes \in Seq(HeapNodes) /\ last <= MaxNodes
      /\ DOMAIN old = 1 .. last
      /\ EachContentOnce(old) /\ Entries(old) = Entries(nodes) \cup {Node(c, v)}
  BY <1>1, <1>2, GrownFacts DEF Within
<1>4. PICK r : r = Rises(nodes, v)
  OBVIOUS
<1>5. new \in Seq(HeapNodes) /\ Len(new) = last
  BY <1>1, <1>3, <1>4, AddNodeRises
<1>6. r \in Nat /\ Path(Up(last), r, 1 .. last) /\ MovedAlong(new, old, Up(last), r)
  BY <1>1, <1>2, <1>3, <1>4, AddNodeMoves DEF Grown
<1>7. Rearranges(new, old)
  <2>1. DOMAIN new = DOMAIN old
    BY <1>3, <1>5
  <2> QED BY <1>3, <1>6, <2>1, MovedRearranges
<1>8. EachContentOnce(new) /\ Entries(new) = Entries(old)
  <2>1. EachContentOnce(new)
    BY <1>3, <1>7, StillOnce
  <2>2. Entries(new) = Entries(old)
    BY <1>7, SameEntries DEF Entries
  <2> QED BY <2>1, <2>2
<1>9. ASSUME Ordered(nodes)
      PROVE  Ordered(new)
  <2>1. v \in Nat /\ \A node \in HeapNodes : node.value \in Nat
    BY NodeFacts, IndexedHeapAssumption
  <2> QED BY <1>3, <1>9, <2>1, AddNodeOrders
<1> QED BY <1>3, <1>5, <1>8, <1>9

\* Where every node is found.
Finds(t, heap) == \A i \in DOMAIN heap : t[heap[i].content] = i

LEMMA AddFinds ==
  ASSUME TypeOK, HasRoom, EachContentOnce(nodes), Room, Finds(index, nodes),
         NEW c \in Elements, NEW v \in Values,
         c \notin Contents(nodes), NEW new, new = AddNode(nodes, c, v),
         NEW r, r = Rises(nodes, v)
  PROVE  /\ Climb(c)[r] \in Tables /\ Finds(Climb(c)[r], new)
         /\ \A n \in 0 .. r - 1 :
              {c, nodes[Ancestor(Len(nodes) + 1, n + 1)].content} \subseteq Indexed(Climb(c)[n])
<1>1. PICK last \in Nat \ {0} : Len(nodes) + 1 = last
  BY TypeIsSequence
<1>2. PICK old : Grown(old, c, v)
  BY DEF Grown
<1>3. /\ Node(c, v) \in HeapNodes /\ nodes \in Seq(HeapNodes) /\ last <= MaxNodes
      /\ DOMAIN old = 1 .. last /\ old[last] = Node(c, v) /\ Within(old)
      /\ DOMAIN nodes = 1 .. last - 1
      /\ \A i \in 1 .. last - 1 : old[i] = nodes[i] /\ nodes[i] \in HeapNodes
  BY <1>1, <1>2, GrownFacts
<1>4. new \in Seq(HeapNodes) /\ Len(new) = last /\ Risen(new, nodes, Node(c, v), last, r)
  BY <1>1, <1>3, AddNodeRises
<1>5. r \in Nat /\ Path(Up(last), r, 1 .. last) /\ MovedAlong(new, old, Up(last), r)
  BY <1>1, <1>2, <1>3, AddNodeMoves DEF Grown
<1>6. PICK table : table = Climb(c)
  OBVIOUS
<1>7. /\ table[0] = Put(Unput(index, c), c, last)
      /\ \A n \in Nat :
           /\ table[n] \in Tables
           /\ table[n + 1] = Exchange(table[n], c, Ancestor(last, n + 1),
                                      nodes[Ancestor(last, n + 1)].content, Ancestor(last, n))
  BY <1>1, <1>6, ClimbRuns
<1>8. PICK p : p = Up(last)
  OBVIOUS
<1>9. /\ \A k \in Nat : p[k] = Ancestor(last, k)
      /\ p[0] = last
  BY <1>8, AncestorRuns DEF Up
<1>10. old[p[0]].content = c
  BY <1>3, <1>9 DEF Node
<1>11. MovedIndex(table[0], old, p, 0)
  <2>1. PICK u \in Tables : u = Unput(index, c)
    BY UnputTyped, TypeIsSequence
  <2>2. u[c] = 0 /\ \A x \in Elements : x # c => u[x] = index[x]
    BY <2>1, UnputValues, TypeIsSequence
  <2>3. table[0][c] = last /\ \A x \in Elements : x # c => table[0][x] = u[x]
    BY <1>7, <2>1, <2>2, PutValues
  <2>4. ASSUME NEW i \in 1 .. last, i # last
        PROVE  table[0][old[i].content] = i
    <3>1. i \in 1 .. last - 1
      BY <2>4
    <3>2. old[i].content = nodes[i].content /\ old[i].content \in Elements
      BY <1>3, <3>1, NodeFacts
    <3>3. nodes[i].content # c
      BY <1>3, <3>1 DEF Contents
    <3>4. index[nodes[i].content] = i
      BY <1>3, <3>1 DEF Finds
    <3> QED BY <2>2, <2>3, <3>2, <3>3, <3>4
  <2>5. 0 \in 0 .. 0 /\ \A k \in 1 .. 0 : FALSE
    OBVIOUS
  <2> QED BY <1>3, <1>9, <1>10, <2>3, <2>4, <2>5 DEF MovedIndex
<1>12. ASSUME NEW n \in 0 .. r - 1
       PROVE  /\ n \in Nat /\ p[n + 1] = Ancestor(last, n + 1)
              /\ old[p[n + 1]].content = nodes[Ancestor(last, n + 1)].content
              /\ table[n + 1] = Exchange(table[n], c, p[n + 1], old[p[n + 1]].content, p[n])
  <2>1. n \in Nat /\ n + 1 \in Nat
    BY <1>5
  <2>2. Ancestor(last, n + 1) \in 1 .. last - 1
    BY <1>1, <1>4 DEF Risen
  <2>3. p[n] = Ancestor(last, n) /\ p[n + 1] = Ancestor(last, n + 1)
    BY <1>9, <2>1
  <2>4. old[p[n + 1]] = nodes[Ancestor(last, n + 1)]
    BY <1>3, <2>2, <2>3
  <2> QED BY <1>7, <2>1, <2>3, <2>4
<1>13. \A n \in 0 .. r : table[n] \in Tables
  BY <1>5, <1>7
<1>14. /\ MovedIndex(table[r], old, p, r)
       /\ \A n \in 0 .. r - 1 : {c, old[p[n + 1]].content} \subseteq Indexed(table[n])
  <2>1. \A n \in 0 .. r - 1 :
          table[n + 1] = Exchange(table[n], old[p[0]].content, p[n + 1],
                                  old[p[n + 1]].content, p[n])
    BY <1>10, <1>12
  <2>2. Path(p, r, DOMAIN old)
    BY <1>3, <1>5, <1>8
  <2> HIDE <1>12
  <2>3. /\ MovedIndex(table[r], old, p, r)
        /\ \A n \in 0 .. r - 1 :
             {old[p[0]].content, old[p[n + 1]].content} \subseteq Indexed(table[n])
    <3>1. Within(old) /\ r \in Nat
      BY <1>3, <1>5
    <3> QED BY ONLY Room, <1>11, <1>13, <2>1, <2>2, <3>1, MovedAll
  <2> QED BY <1>10, <2>3
<1>15. \A i \in DOMAIN new : table[r][new[i].content] = i
  <2>1. DOMAIN new = DOMAIN old
    BY <1>3, <1>4
  <2> QED BY <1>5, <1>8, <1>14, <2>1, MovedFinds
<1>16. \A n \in 0 .. r - 1 :
         {c, nodes[Ancestor(Len(nodes) + 1, n + 1)].content} \subseteq Indexed(table[n])
  BY <1>1, <1>12, <1>14
<1>17. table[r] \in Tables
  BY <1>5, <1>7
<1> QED BY <1>6, <1>15, <1>16, <1>17 DEF Finds

-------------------------------------------------------------------------------
(* The same for a removal. *)

\* The heap with its last node in the place of the removed one, before that sinks.
Replaced(old, rest, at, moved) == old = [rest EXCEPT ![at] = moved]

LEMMA ReplacedFacts ==
  ASSUME TypeOK, EachContentOnce(nodes), NEW at, NEW new, NEW rest, NEW moved, NEW d, NEW s,
         Removal(new, nodes, at, rest, moved, d, s), NEW old, Replaced(old, rest, at, moved)
  PROVE  /\ nodes \in Seq(HeapNodes) /\ rest \in Seq(HeapNodes)
         /\ Len(rest) \in Nat /\ Len(nodes) = Len(rest) + 1
         /\ at \in 1 .. Len(rest) /\ moved = nodes[Len(nodes)] /\ moved \in HeapNodes
         /\ DOMAIN old = 1 .. Len(rest) /\ old[at] = moved
         /\ \A i \in 1 .. Len(rest) : rest[i] = nodes[i] /\ (i # at => old[i] = nodes[i])
         /\ Within(old) /\ Entries(old) = Entries(nodes) \ {nodes[at]}
<1>1. nodes \in Seq(HeapNodes) /\ Len(nodes) <= MaxNodes
  BY TypeIsSequence
<1>2. \A node \in HeapNodes : node.value \in Nat /\ node.content \in Elements
  BY NodeFacts
<1>3. /\ rest \in Seq(HeapNodes) /\ Len(rest) \in Nat /\ Len(nodes) = Len(rest) + 1
      /\ at \in 1 .. Len(rest) /\ moved \in HeapNodes
      /\ \A i \in 1 .. Len(rest) : rest[i] = nodes[i] /\ rest[i] \in HeapNodes
  BY <1>1, <1>2, RestFacts
<1>4. moved = nodes[Len(nodes)]
  BY DEF Removal
<1>5. /\ DOMAIN old = 1 .. Len(rest) /\ old[at] = moved
      /\ \A i \in 1 .. Len(rest) : i # at => old[i] = nodes[i]
  <2>1. DOMAIN rest = 1 .. Len(rest)
    BY <1>3
  <2> QED BY <1>3, <2>1 DEF Replaced
<1>6. DOMAIN nodes = 1 .. Len(nodes) /\ Len(nodes) \in Nat
  BY <1>1
<1>7. /\ \A i \in 1 .. Len(nodes) : i = Len(nodes) \/ i \in 1 .. Len(rest)
      /\ \A i \in 1 .. Len(rest) : i \in 1 .. Len(nodes) /\ i # Len(nodes)
      /\ Len(nodes) \in 1 .. Len(nodes)
  BY <1>3
<1>8. \A i, j \in 1 .. Len(nodes) : nodes[i].content = nodes[j].content => i = j
  BY <1>6 DEF EachContentOnce
<1>9. EachContentOnce(old)
  <2> SUFFICES ASSUME NEW i \in 1 .. Len(rest), NEW j \in 1 .. Len(rest),
                      old[i].content = old[j].content
               PROVE  i = j
    BY <1>5 DEF EachContentOnce
  <2> QED BY <1>4, <1>5, <1>7, <1>8
<1>10. Within(old)
  <2>1. 1 .. Len(rest) \subseteq 1 .. MaxNodes
    BY <1>1, <1>3, IndexedHeapAssumption
  <2>2. \A i \in 1 .. Len(rest) : old[i].content \in Elements
    BY <1>2, <1>3, <1>5
  <2> QED BY <1>5, <1>9, <2>1, <2>2 DEF Within
<1>11. Entries(old) = Entries(nodes) \ {nodes[at]}
  <2>1. \A i \in 1 .. Len(nodes) : nodes[i] = nodes[at] => i = at
    BY <1>3, <1>7, <1>8
  <2>2. ASSUME NEW i \in 1 .. Len(rest)
        PROVE  old[i] \in Entries(nodes) \ {nodes[at]}
    BY <1>3, <1>4, <1>5, <1>6, <1>7, <2>1 DEF Entries
  <2>3. ASSUME NEW i \in 1 .. Len(nodes), nodes[i] # nodes[at]
        PROVE  nodes[i] \in Entries(old)
    <3>1. CASE i = Len(nodes)
      BY <1>3, <1>4, <1>5, <3>1 DEF Entries
    <3>2. CASE i # Len(nodes)
      BY <1>5, <1>7, <2>3, <3>2 DEF Entries
    <3> QED BY <3>1, <3>2
  <2> QED BY <1>5, <1>6, <2>2, <2>3 DEF Entries
<1> QED BY <1>1, <1>3, <1>4, <1>5, <1>10, <1>11

\* The removed node was the last.
LEMMA RestOnce ==
  ASSUME TypeOK, EachContentOnce(nodes), NEW rest, WithoutLast(rest, nodes), nodes # <<>>
  PROVE  /\ nodes \in Seq(HeapNodes) /\ Len(nodes) \in Nat \ {0} /\ DOMAIN nodes = 1 .. Len(nodes)
         /\ rest \in Seq(HeapNodes) /\ Len(rest) = Len(nodes) - 1
         /\ \A i \in 1 .. Len(rest) : /\ rest[i] = nodes[i] /\ rest[i] \in HeapNodes
                                      /\ i \in 1 .. Len(nodes) /\ i # Len(nodes)
         /\ EachContentOnce(rest) /\ Entries(rest) = Entries(nodes) \ {nodes[Len(nodes)]}
         /\ Ordered(nodes) => Ordered(rest)
<1>1. nodes \in Seq(HeapNodes) /\ Len(nodes) \in Nat \ {0} /\ DOMAIN nodes = 1 .. Len(nodes)
  <2>1. nodes \in Seq(HeapNodes)
    BY TypeIsSequence
  <2> QED BY <2>1, EmptySeq
<1>2. /\ rest \in Seq(HeapNodes) /\ Len(rest) = Len(nodes) - 1
      /\ \A i \in 1 .. Len(rest) : rest[i] = nodes[i] /\ rest[i] \in HeapNodes
  <2>1. Len(nodes) > 0
    BY <1>1
  <2> QED BY <1>1, <2>1, WithoutLastFacts
<1>3. DOMAIN rest = 1 .. Len(rest) /\ Len(rest) \in Nat
  BY <1>2
<1>4. /\ \A i \in 1 .. Len(nodes) : i = Len(nodes) \/ i \in 1 .. Len(rest)
      /\ \A i \in 1 .. Len(rest) : i \in 1 .. Len(nodes) /\ i # Len(nodes)
      /\ Len(nodes) \in 1 .. Len(nodes)
  <2>1. PICK n \in Nat \ {0} : n = Len(nodes)
    BY <1>1
  <2>2. Len(rest) = n - 1
    BY <1>2, <2>1
  <2>3. /\ \A i \in 1 .. n : i = n \/ i \in 1 .. n - 1
        /\ \A i \in 1 .. n - 1 : i \in 1 .. n /\ i # n
        /\ n \in 1 .. n
    OBVIOUS
  <2> QED BY ONLY <2>1, <2>2, <2>3
<1>5. EachContentOnce(rest)
  BY <1>1, <1>2, <1>3, <1>4 DEF EachContentOnce
<1>6. Entries(rest) = Entries(nodes) \ {nodes[Len(nodes)]}
  <2>1. \A i \in 1 .. Len(nodes) : nodes[i] = nodes[Len(nodes)] => i = Len(nodes)
    BY <1>1, <1>4 DEF EachContentOnce
  <2> QED BY <1>1, <1>2, <1>3, <1>4, <2>1 DEF Entries
<1>7. ASSUME Ordered(nodes)
      PROVE  Ordered(rest)
  <2> SUFFICES ASSUME NEW i \in 1 .. Len(rest), i > 1
               PROVE  rest[Parent(i)].value <= rest[i].value
    BY <1>3 DEF Ordered
  <2>1. Parent(i) \in 1 .. Len(rest)
    BY <1>3 DEF Parent
  <2> QED BY <1>1, <1>2, <1>4, <1>7, <2>1 DEF Ordered
<1> QED BY <1>1, <1>2, <1>4, <1>5, <1>6, <1>7

LEMMA RemovesOne ==
  ASSUME TypeOK, EachContentOnce(nodes), NEW at \in DOMAIN nodes,
         NEW new, new = RemoveNodeAt(nodes, at)
  PROVE  /\ new \in Seq(HeapNodes) /\ Len(new) = Len(nodes) - 1
         /\ EachContentOnce(new) /\ Entries(new) = Entries(nodes) \ {nodes[at]}
         /\ at = 1 /\ Ordered(nodes) => Ordered(new)
<1>1. nodes \in Seq(HeapNodes) /\ Len(nodes) \in Nat /\ at \in 1 .. Len(nodes)
  <2>1. nodes \in Seq(HeapNodes)
    BY TypeIsSequence
  <2> QED BY <2>1
<1>2. CASE at = Len(nodes)
  <2>1. WithoutLast(new, nodes) /\ nodes # <<>>
    BY <1>1, <1>2 DEF RemoveNodeAt, WithoutLast
  <2> QED BY <1>2, <2>1, RestOnce
<1>3. CASE at # Len(nodes)
  <2>1. PICK rest, moved, d, s : Removal(new, nodes, at, rest, moved, d, s)
    <3>1. PICK rest, moved : rest = SubSeq(nodes, 1, Len(nodes) - 1) /\ moved = nodes[Len(nodes)]
      OBVIOUS
    <3>2. PICK d, s : d = Descent(rest, at) /\ s = Sinks(rest, at, moved.value)
      OBVIOUS
    <3>3. at \in 1 .. Len(nodes) - 1
      BY <1>1, <1>3
    <3> QED BY <3>1, <3>2, <3>3 DEF Removal
  <2>2. PICK old : Replaced(old, rest, at, moved)
    BY DEF Replaced
  <2>3. /\ Len(rest) \in Nat /\ Len(nodes) = Len(rest) + 1 /\ DOMAIN old = 1 .. Len(rest)
        /\ EachContentOnce(old) /\ Entries(old) = Entries(nodes) \ {nodes[at]}
    BY <2>1, <2>2, ReplacedFacts DEF Within
  <2>4. \A node \in HeapNodes : node.value \in Nat
    BY NodeFacts
  <2>5. new \in Seq(HeapNodes) /\ Len(new) = Len(rest)
    BY <1>1, <2>1, <2>4, RemoveSinks
  <2>6. s \in Nat /\ Path(d, s, 1 .. Len(rest)) /\ MovedAlong(new, old, d, s)
    BY <1>1, <2>1, <2>2, <2>4, RemoveMoves DEF Replaced
  <2>7. Rearranges(new, old)
    <3>1. DOMAIN new = DOMAIN old
      BY <2>3, <2>5
    <3> QED BY <2>3, <2>6, <3>1, MovedRearranges
  <2>8. EachContentOnce(new)
    BY <2>3, <2>7, StillOnce
  <2>9. Entries(new) = Entries(old)
    BY <2>7, SameEntries DEF Entries
  <2>10. ASSUME at = 1, Ordered(nodes)
         PROVE  Ordered(new)
    BY <1>1, <2>1, <2>4, <2>10, RemoveTopOrders
  <2> QED BY <2>3, <2>5, <2>8, <2>9, <2>10
<1> QED BY <1>2, <1>3

\* How many swaps Remove makes.
SwapsDown(s, at) ==
  s = IF at = Len(nodes) THEN 0
      ELSE Sinks(SubSeq(nodes, 1, Len(nodes) - 1), at, nodes[Len(nodes)].value)

LEMMA RemoveTyped ==
  ASSUME TypeOK, NEW at \in DOMAIN nodes, NEW s, SwapsDown(s, at)
  PROVE  s \in Nat /\ Sink(at)[s] \in Tables
<1>1. nodes \in Seq(HeapNodes) /\ Len(nodes) \in Nat /\ at \in 1 .. Len(nodes)
  <2>1. nodes \in Seq(HeapNodes)
    BY TypeIsSequence
  <2> QED BY <2>1
<1>2. PICK rest, moved : WithoutLast(rest, nodes) /\ moved = nodes[Len(nodes)]
  BY DEF WithoutLast
<1>3. PICK d : IsDescent(d, rest, at)
  BY DEF IsDescent
<1>4. s \in Nat
  <2>1. CASE at = Len(nodes)
    BY <2>1 DEF SwapsDown
  <2>2. CASE at # Len(nodes)
    <3>1. PICK new : new = RemoveNodeAt(nodes, at)
      OBVIOUS
    <3>2. at \in 1 .. Len(nodes) - 1
      BY <1>1, <2>2
    <3>3. Removal(new, nodes, at, rest, moved, d, s)
      BY <1>2, <1>3, <2>2, <3>1, <3>2 DEF SwapsDown, Removal, WithoutLast, IsDescent
    <3>4. \A node \in HeapNodes : node.value \in Nat
      BY NodeFacts
    <3> QED BY <1>1, <3>3, <3>4, PathDown
  <2> QED BY <2>1, <2>2
<1>5. \A n \in Nat : Sink(at)[n] \in Tables
  BY <1>1, <1>2, <1>3, SinkRuns
<1> QED BY <1>4, <1>5

LEMMA RemoveFinds ==
  ASSUME TypeOK, EachContentOnce(nodes), Room, Finds(index, nodes), NEW at \in DOMAIN nodes,
         NEW new, new = RemoveNodeAt(nodes, at), NEW s, SwapsDown(s, at)
  PROVE  Finds(Sink(at)[s], new)
<1>1. /\ nodes \in Seq(HeapNodes) /\ Len(nodes) \in Nat /\ at \in 1 .. Len(nodes)
      /\ nodes # <<>> /\ DOMAIN nodes = 1 .. Len(nodes)
      /\ \A i \in 1 .. Len(nodes) : nodes[i] \in HeapNodes
  <2>1. nodes \in Seq(HeapNodes)
    BY TypeIsSequence
  <2>2. nodes # <<>>
    OBVIOUS
  <2> QED BY <2>1, <2>2
<1>2. PICK rest, moved : WithoutLast(rest, nodes) /\ moved = nodes[Len(nodes)]
  BY DEF WithoutLast
<1>3. PICK d : IsDescent(d, rest, at)
  BY DEF IsDescent
<1>4. PICK table : table = Sink(at)
  OBVIOUS
<1>5. /\ table[0] = Put(Unput(Unput(index, moved.content), nodes[at].content), moved.content, at)
      /\ \A n \in Nat :
           /\ table[n] \in Tables
           /\ table[n + 1] = Exchange(table[n], moved.content, d[n + 1],
                                      rest[d[n + 1]].content, d[n])
  <2>1. at \in 1 .. Len(nodes)
    BY <1>1
  <2>2. table[0] = Put(Unput(Unput(index, moved.content), nodes[at].content), moved.content, at)
    BY <1>2, <1>3, <1>4, <2>1, SinkRuns
  <2>3. ASSUME NEW n \in Nat
        PROVE  /\ table[n] \in Tables
               /\ table[n + 1] = Exchange(table[n], moved.content, d[n + 1],
                                          rest[d[n + 1]].content, d[n])
    <3>1. table[n] \in Tables
      BY ONLY TypeOK, <1>2, <1>3, <1>4, <2>1, SinkRuns
    <3>2. table[n + 1] = Exchange(table[n], moved.content, d[n + 1],
                                  rest[d[n + 1]].content, d[n])
      BY ONLY TypeOK, <1>2, <1>3, <1>4, <2>1, SinkRuns, SMTT(30)
    <3> QED BY <3>1, <3>2
  <2> QED BY <2>2, <2>3
<1>6. moved.content \in Elements /\ nodes[at].content \in Elements
  <2>1. Len(nodes) \in 1 .. Len(nodes)
    BY <1>1
  <2> QED BY <1>1, <1>2, <2>1, NodeFacts
<1>7. /\ table[0][moved.content] = at
      /\ \A x \in Elements : x # moved.content /\ x # nodes[at].content => table[0][x] = index[x]
  <2>1. PICK u \in Tables : u = Unput(index, moved.content)
    BY UnputTyped, TypeIsSequence
  <2>2. PICK w \in Tables : w = Unput(u, nodes[at].content)
    BY UnputTyped
  <2>3. /\ u[moved.content] = 0
        /\ \A x \in Elements : x # moved.content => u[x] = index[x]
    BY <1>6, <2>1, UnputValues, TypeIsSequence
  <2>4. /\ w[moved.content] = 0
        /\ \A x \in Elements : x # moved.content /\ x # nodes[at].content => w[x] = index[x]
    <3>1. w[nodes[at].content] = 0 /\ \A x \in Elements : x # nodes[at].content => w[x] = u[x]
      BY <1>6, <2>2, UnputValues
    <3> QED BY <1>6, <2>3, <3>1
  <2>5. table[0] = Put(w, moved.content, at)
    BY <1>5, <2>1, <2>2
  <2> QED BY <1>6, <2>4, <2>5, PutValues
<1>8. /\ \A i, j \in 1 .. Len(nodes) : nodes[i].content = nodes[j].content => i = j
      /\ \A i \in 1 .. Len(nodes) : nodes[i].content \in Elements /\ index[nodes[i].content] = i
  BY <1>1, NodeFacts DEF EachContentOnce, Finds
<1>9. ASSUME NEW i \in 1 .. Len(nodes), i # Len(nodes), i # at
      PROVE  table[0][nodes[i].content] = i
  <2>1. nodes[i].content # moved.content /\ nodes[i].content # nodes[at].content
    <3>1. Len(nodes) \in 1 .. Len(nodes)
      BY <1>1
    <3> QED BY <1>1, <1>2, <1>8, <1>9, <3>1
  <2> QED BY <1>7, <1>8, <2>1
<1>10. CASE at = Len(nodes)
  <2>1. s = 0
    BY <1>10 DEF SwapsDown
  <2>2. new = rest
    BY <1>2, <1>10 DEF RemoveNodeAt, WithoutLast
  <2>3. /\ DOMAIN rest = 1 .. Len(rest)
        /\ \A i \in 1 .. Len(rest) : rest[i] = nodes[i] /\ i \in 1 .. Len(nodes) /\ i # Len(nodes)
    <3>1. rest \in Seq(HeapNodes)
      BY <1>1, <1>2, RestOnce
    <3>2. DOMAIN rest = 1 .. Len(rest)
      BY <3>1
    <3> QED BY <1>1, <1>2, <3>2, RestOnce
  <2>4. ASSUME NEW i \in 1 .. Len(rest)
        PROVE  table[0][rest[i].content] = i
    <3>1. i \in 1 .. Len(nodes) /\ i # Len(nodes) /\ rest[i] = nodes[i]
      BY <2>3
    <3> QED BY <1>9, <1>10, <3>1
  <2> QED BY <1>4, <2>1, <2>2, <2>3, <2>4 DEF Finds
<1>11. CASE at # Len(nodes)
  <2>1. at \in 1 .. Len(nodes) - 1
    BY <1>1, <1>11
  <2>2. Removal(new, nodes, at, rest, moved, d, s)
    BY <1>2, <1>3, <1>11, <2>1 DEF SwapsDown, Removal, WithoutLast, IsDescent
  <2>3. PICK old : Replaced(old, rest, at, moved)
    BY DEF Replaced
  <2>4. /\ rest \in Seq(HeapNodes) /\ Len(rest) \in Nat /\ Len(nodes) = Len(rest) + 1
        /\ DOMAIN old = 1 .. Len(rest) /\ old[at] = moved /\ Within(old)
        /\ \A i \in 1 .. Len(rest) : rest[i] = nodes[i] /\ (i # at => old[i] = nodes[i])
    BY <2>2, <2>3, ReplacedFacts
  <2>5. \A node \in HeapNodes : node.value \in Nat
    BY NodeFacts
  <2>6. s \in Nat /\ Path(d, s, 1 .. Len(rest)) /\ MovedAlong(new, old, d, s)
    BY <1>1, <2>2, <2>3, <2>5, RemoveMoves DEF Replaced
  <2>7. DOMAIN new = DOMAIN old
    <3>1. new \in Seq(HeapNodes) /\ Len(new) = Len(rest)
      BY <1>1, <2>2, <2>5, RemoveSinks
    <3> QED BY <2>4, <3>1
  <2>8. d[0] = at
    BY <1>1, <2>2, <2>5, PathDown
  <2>9. MovedIndex(table[0], old, d, 0)
    <3>1. ASSUME NEW i \in 1 .. Len(rest), i # at
          PROVE  table[0][old[i].content] = i
      <4>1. i \in 1 .. Len(nodes) /\ i # Len(nodes) /\ old[i] = nodes[i]
        BY <2>4, <3>1
      <4> QED BY <1>9, <3>1, <4>1
    <3>2. 0 \in 0 .. 0 /\ \A k \in 1 .. 0 : FALSE
      OBVIOUS
    <3> QED BY <1>7, <2>4, <2>8, <3>1, <3>2 DEF MovedIndex
  <2>10. ASSUME NEW n \in 0 .. s - 1
         PROVE  table[n + 1] = Exchange(table[n], old[d[0]].content, d[n + 1],
                                        old[d[n + 1]].content, d[n])
    <3>1. n \in Nat /\ n + 1 \in 0 .. s /\ 0 \in 0 .. s /\ n + 1 # 0
      BY <2>6
    <3>2. d[n + 1] \in 1 .. Len(rest) /\ d[n + 1] # at
      BY <2>6, <2>8, <3>1 DEF Path
    <3>3. old[d[n + 1]] = rest[d[n + 1]] /\ old[d[0]] = moved
      BY <2>4, <2>8, <3>2
    <3>4. table[n + 1] = Exchange(table[n], moved.content, d[n + 1], rest[d[n + 1]].content, d[n])
      BY <1>5, <3>1
    <3> QED BY <3>3, <3>4
  <2>11. MovedIndex(table[s], old, d, s)
    <3>1. \A n \in 0 .. s : table[n] \in Tables
      BY <1>5, <2>6
    <3>2. \A n \in 0 .. s - 1 :
            table[n + 1] = Exchange(table[n], old[d[0]].content, d[n + 1],
                                    old[d[n + 1]].content, d[n])
      BY <2>10
    <3>3. Within(old) /\ s \in Nat /\ Path(d, s, DOMAIN old)
      BY <2>4, <2>6
    <3> QED BY ONLY Room, <2>9, <3>1, <3>2, <3>3, MovedAll
  <2>12. \A i \in DOMAIN new : table[s][new[i].content] = i
    BY <2>6, <2>7, <2>11, MovedFinds
  <2> QED BY <1>4, <2>12 DEF Finds
<1> QED BY <1>10, <1>11

-------------------------------------------------------------------------------
(* The steps. *)

LEMMA SequenceTyped ==
  ASSUME NEW heap \in Seq(HeapNodes), Len(heap) <= MaxNodes
  PROVE  \E n \in 0 .. MaxNodes : heap \in [1 .. n -> [content : Elements, value : Values]]
<1>1. Len(heap) \in 0 .. MaxNodes /\ heap \in [1 .. Len(heap) -> HeapNodes]
  BY IndexedHeapAssumption
<1> QED BY <1>1 DEF HeapNodes

LEMMA AddCases ==
  ASSUME NEW c, NEW v, Add(c, v), NEW r, r = Rises(nodes, v)
  PROVE  /\ ~halted /\ HasRoom /\ drawn' = drawn
         /\ \/ /\ nodes' = AddNode(nodes, c, v) /\ index' = Climb(c)[r] /\ halted' = halted
            \/ /\ halted' = TRUE /\ nodes' = nodes /\ index' = index
               /\ ~\A n \in 0 .. r - 1 :
                     {c, nodes[Ancestor(Len(nodes) + 1, n + 1)].content} \subseteq Indexed(Climb(c)[n])
BY DEF Add

LEMMA RemoveSteps ==
  ASSUME NEW at, Remove(at)
  PROVE  /\ nodes' = RemoveNodeAt(nodes, at) /\ halted' = halted
         /\ \E s : SwapsDown(s, at) /\ index' = Sink(at)[s]
BY DEF Remove, SwapsDown

LEMMA InitEstablishes == Init => IInv
<1> SUFFICES ASSUME Init PROVE IInv
  OBVIOUS
<1>1. nodes \in Seq(HeapNodes) /\ Len(nodes) = 0 /\ DOMAIN nodes = {}
  BY DEF Init
<1>2. index \in Tables /\ halted = FALSE /\ drawn = FALSE
  BY IndexedHeapAssumption DEF Init, Tables
<1>3. TypeOK
  <2>1. Len(nodes) <= MaxNodes
    BY <1>1, IndexedHeapAssumption
  <2> QED BY <1>1, <1>2, <2>1, TypeIsSequence
<1> QED BY <1>1, <1>3 DEF IInv, EachContentOnce, HeapProperty, Ordered

LEMMA AddPreserves ==
  ASSUME IInv, NEW c \in Elements \ Contents(nodes), NEW v \in Values, Add(c, v)
  PROVE  IInv'
<1>1. PICK r : r = Rises(nodes, v)
  OBVIOUS
<1>2. CASE /\ nodes' = AddNode(nodes, c, v) /\ index' = Climb(c)[r] /\ halted' = halted
  <2>1. /\ TypeOK /\ HasRoom /\ EachContentOnce(nodes) /\ HeapProperty
        /\ c \notin Contents(nodes) /\ drawn' = drawn
    BY <1>1, AddCases DEF IInv
  <2>2. PICK new : new = AddNode(nodes, c, v)
    OBVIOUS
  <2>3. /\ new \in Seq(HeapNodes) /\ Len(new) <= MaxNodes
        /\ EachContentOnce(new)
        /\ Ordered(nodes) => Ordered(new)
    BY <2>1, <2>2, AddsOne
  <2>4. nodes' = new
    BY <1>2, <2>2
  <2>5. index' \in Tables
    <3>1. PICK last \in Nat \ {0} : Len(nodes) + 1 = last
      BY <2>1, TypeIsSequence
    <3>2. r \in Nat
      BY <1>1, <3>1, RisesFacts
    <3> QED BY <1>2, <2>1, <3>1, <3>2, ClimbRuns
  <2>6. TypeOK'
    <3>1. \E n \in 0 .. MaxNodes : new \in [1 .. n -> [content : Elements, value : Values]]
      BY <2>3, SequenceTyped
    <3>2. halted' \in BOOLEAN /\ drawn' \in BOOLEAN
      BY <1>2, <2>1 DEF TypeOK
    <3> QED BY <2>4, <2>5, <3>1, <3>2 DEF TypeOK, Tables
  <2>7. HeapProperty'
    <3>1. drawn' \/ Ordered(nodes')
      BY <2>1, <2>3, <2>4, Zenon DEF HeapProperty
    <3> QED BY <3>1 DEF HeapProperty
  <2>8. EachContentOnce(nodes')
    BY <2>3, <2>4
  <2> QED BY <2>6, <2>7, <2>8 DEF IInv
<1>3. CASE halted' = TRUE /\ nodes' = nodes /\ index' = index
  <2>1. drawn' = drawn
    BY <1>1, AddCases
  <2> QED BY <1>3, <2>1 DEF IInv, TypeOK, HeapProperty
<1> QED BY <1>1, <1>2, <1>3, AddCases

LEMMA RemovePreserves ==
  ASSUME IInv, NEW at \in DOMAIN nodes, Remove(at), drawn' \in BOOLEAN,
         ~drawn' => ~drawn /\ at = 1
  PROVE  IInv'
<1>1. PICK s : SwapsDown(s, at) /\ index' = Sink(at)[s]
  BY RemoveSteps
<1>2. PICK new : new = RemoveNodeAt(nodes, at)
  OBVIOUS
<1>3. nodes' = new /\ halted' = halted
  BY <1>2, RemoveSteps
<1>4. TypeOK /\ EachContentOnce(nodes) /\ HeapProperty
  BY DEF IInv
<1>5. /\ new \in Seq(HeapNodes) /\ Len(new) = Len(nodes) - 1
      /\ EachContentOnce(new)
      /\ at = 1 /\ Ordered(nodes) => Ordered(new)
  BY <1>2, <1>4, RemovesOne
<1>6. index' \in Tables
  BY <1>1, <1>4, RemoveTyped
<1>7. TypeOK'
  <2>1. Len(nodes) <= MaxNodes /\ Len(nodes) \in Nat /\ MaxNodes \in Nat /\ halted \in BOOLEAN
    BY <1>4, TypeIsSequence, IndexedHeapAssumption
  <2>2. Len(new) <= MaxNodes
    BY <1>5, <2>1
  <2>3. \E n \in 0 .. MaxNodes : new \in [1 .. n -> [content : Elements, value : Values]]
    BY <1>5, <2>2, SequenceTyped
  <2> QED BY <1>3, <1>6, <2>1, <2>3 DEF TypeOK, Tables
<1>8. HeapProperty'
  BY <1>3, <1>4, <1>5 DEF HeapProperty
<1> QED BY <1>3, <1>5, <1>7, <1>8 DEF IInv

\* The ways a step removes a node.
LEMMA Steps ==
  ASSUME TypeOK, Next
  PROVE  \/ \E c \in Elements \ Contents(nodes), v \in Values : Add(c, v)
         \/ /\ ~halted /\ 1 \in DOMAIN nodes /\ Remove(1) /\ drawn' = drawn
         \/ \E at \in DOMAIN nodes : ~halted /\ Remove(at) /\ drawn' = TRUE
         \/ /\ halted' = TRUE /\ UNCHANGED <<nodes, index, drawn>>
            /\ \E c \in Contents(nodes) : index[c] \notin DOMAIN nodes
<1>1. CASE RemoveTop
  <2>1. nodes \in Seq(HeapNodes) /\ nodes # <<>>
    BY <1>1, TypeIsSequence DEF RemoveTop
  <2>2. 1 \in DOMAIN nodes
    BY <2>1
  <2> QED BY <1>1, <2>2 DEF RemoveTop
<1>2. ASSUME NEW at, RemoveAt(at)
      PROVE  \E i \in DOMAIN nodes : ~halted /\ Remove(i) /\ drawn' = TRUE
  BY <1>2 DEF RemoveAt
<1>3. ASSUME NEW c, RemoveContent(c)
      PROVE  \/ \E i \in DOMAIN nodes : ~halted /\ Remove(i) /\ drawn' = TRUE
             \/ /\ halted' = TRUE /\ UNCHANGED <<nodes, index, drawn>>
                /\ \E e \in Contents(nodes) : index[e] \notin DOMAIN nodes
  BY <1>3 DEF RemoveContent
<1> QED BY <1>1, <1>2, <1>3 DEF Next

LEMMA Inductive == IInv /\ [Next]_vars => IInv'
<1> SUFFICES ASSUME IInv, [Next]_vars PROVE IInv'
  OBVIOUS
<1>1. ASSUME NEW c \in Elements \ Contents(nodes), NEW v \in Values, Add(c, v)
      PROVE  IInv'
  BY <1>1, AddPreserves
<1>2. CASE ~halted /\ 1 \in DOMAIN nodes /\ Remove(1) /\ drawn' = drawn
  <2>1. drawn' \in BOOLEAN /\ (~drawn' => ~drawn /\ 1 = 1)
    BY <1>2 DEF IInv, TypeOK
  <2> QED BY <1>2, <2>1, RemovePreserves
<1>3. ASSUME NEW at \in DOMAIN nodes, Remove(at), drawn' = TRUE
      PROVE  IInv'
  BY <1>3, RemovePreserves
<1>4. CASE halted' = TRUE /\ UNCHANGED <<nodes, index, drawn>>
  BY <1>4 DEF IInv, TypeOK, HeapProperty
<1>5. CASE UNCHANGED vars
  BY <1>5 DEF IInv, TypeOK, HeapProperty, vars
<1>6. ASSUME Next
      PROVE  IInv'
  <2>1. TypeOK
    BY DEF IInv
  <2> QED BY <1>1, <1>2, <1>3, <1>4, <1>6, <2>1, Steps
<1> QED BY <1>5, <1>6

THEOREM HeapInvariance == Spec => []IInv
BY InitEstablishes, Inductive, PTL DEF Spec

\* The array and the table keep their types, and no index of the table is out of the
\* array's capacity, for any capacity and any sets of contents and values.
THEOREM HeapTypeCorrect == Spec => []TypeOK
<1>1. IInv => TypeOK
  BY DEF IInv
<1> QED BY <1>1, HeapInvariance, PTL

\* Every addition and every removal of the top restores the heap property (heap.c:56-123,
\* 126-240), until a node is removed from the middle.
THEOREM StaysOrdered == Spec => []HeapProperty
<1>1. IInv => HeapProperty
  BY DEF IInv
<1> QED BY <1>1, HeapInvariance, PTL

-------------------------------------------------------------------------------
(* With room for every content the table always knows the places. *)

LEMMA PlacesKept ==
  ASSUME Room
  PROVE  IInv /\ IndexFinds /\ [Next]_vars => IndexFinds'
<1> SUFFICES ASSUME IInv, IndexFinds, [Next]_vars PROVE IndexFinds'
  OBVIOUS
<1>1. TypeOK /\ EachContentOnce(nodes) /\ Finds(index, nodes) /\ halted = FALSE
  BY DEF IInv, IndexFinds, Finds, TypeOK
<1>2. ASSUME NEW c \in Elements \ Contents(nodes), NEW v \in Values, Add(c, v)
      PROVE  IndexFinds'
  <2>1. PICK r : r = Rises(nodes, v)
    OBVIOUS
  <2>2. PICK new : new = AddNode(nodes, c, v)
    OBVIOUS
  <2>3. c \notin Contents(nodes) /\ HasRoom
    BY <1>2, <2>1, AddCases
  <2>4. /\ Finds(Climb(c)[r], new)
        /\ \A n \in 0 .. r - 1 :
             {c, nodes[Ancestor(Len(nodes) + 1, n + 1)].content} \subseteq Indexed(Climb(c)[n])
    BY <1>1, <2>1, <2>2, <2>3, AddFinds
  <2>5. nodes' = new /\ index' = Climb(c)[r] /\ halted' = halted
    BY <1>2, <2>1, <2>2, <2>4, AddCases
  <2>6. Finds(index', nodes')
    BY <2>4, <2>5
  <2> QED BY <1>1, <2>5, <2>6 DEF IndexFinds, Finds
<1>3. ASSUME NEW at \in DOMAIN nodes, Remove(at)
      PROVE  IndexFinds'
  <2>1. PICK s : SwapsDown(s, at) /\ index' = Sink(at)[s]
    BY <1>3, RemoveSteps
  <2>2. PICK new : new = RemoveNodeAt(nodes, at)
    OBVIOUS
  <2>3. nodes' = new /\ halted' = halted
    BY <1>3, <2>2, RemoveSteps
  <2>4. Finds(Sink(at)[s], new)
    BY <1>1, <2>1, <2>2, RemoveFinds
  <2>5. Finds(index', nodes')
    BY <2>1, <2>3, <2>4
  <2> QED BY <1>1, <2>3, <2>5 DEF IndexFinds, Finds
<1>4. ASSUME NEW c \in Contents(nodes), index[c] \notin DOMAIN nodes
      PROVE  FALSE
  BY <1>1, <1>4 DEF Contents, Finds
<1>5. CASE UNCHANGED vars
  BY <1>5 DEF IndexFinds, vars
<1>6. CASE Next
  BY <1>1, <1>2, <1>3, <1>4, <1>6, Steps
<1> QED BY <1>5, <1>6

\* Wherever swaps, additions and removals moved the nodes, the index of a content in the
\* heap is the place of its node, and no assertion on the table fails (heap.c:88-104,
\* 157-180), as long as the table has room for every content there is; without that room
\* NeverHalts is refuted.
THEOREM PlacesFound ==
  ASSUME Indexing, IsFiniteSet(Elements), Cardinality(Elements) <= MaxNodes
  PROVE  Spec => []IndexFinds
<1>1. Init => IndexFinds
  BY DEF Init, IndexFinds
<1>2. IInv /\ IndexFinds /\ [Next]_vars => IndexFinds'
  BY PlacesKept DEF Room
<1> QED BY <1>1, <1>2, HeapInvariance, PTL DEF Spec

-------------------------------------------------------------------------------
(* The refinement of the priority queue. *)

LEMMA FewEntries ==
  ASSUME TypeOK
  PROVE  Cardinality(Entries(nodes)) \in Nat /\ Cardinality(Entries(nodes)) <= Len(nodes)
<1>1. PICK n \in Nat : Len(nodes) = n /\ DOMAIN nodes = 1 .. n
  <2>1. nodes \in Seq(HeapNodes)
    BY TypeIsSequence
  <2> QED BY <2>1
<1>2. IsFiniteSet(1 .. n) /\ Cardinality(1 .. n) = n
  <2>1. IsFiniteSet(1 .. n) /\ Cardinality(1 .. n) = IF 1 > n THEN 0 ELSE n - 1 + 1
    BY FS_Interval
  <2> QED BY <2>1
<1> DEFINE f == [i \in 1 .. n |-> nodes[i]]
<1>3. f \in Surjection(1 .. n, Entries(nodes))
  BY <1>1 DEF Surjection, Entries
<1>4. IsFiniteSet(Entries(nodes)) /\ Cardinality(Entries(nodes)) <= n
  <2> HIDE DEF f
  <2> QED BY <1>2, <1>3, FS_Surjection
<1> QED BY <1>1, <1>4, FS_CardinalityType

LEMMA RemovalRefines ==
  ASSUME IInv, NEW at \in DOMAIN nodes, Remove(at)
  PROVE  nodes[at] \in Entries(nodes) /\ Entries(nodes') = Entries(nodes) \ {nodes[at]}
<1>1. PICK new : new = RemoveNodeAt(nodes, at) /\ nodes' = new
  BY RemoveSteps
<1>2. Entries(new) = Entries(nodes) \ {nodes[at]}
  BY <1>1, RemovesOne DEF IInv
<1> QED BY <1>1, <1>2 DEF Entries

LEMMA SameCardinality == \A S : Abstract!Cardinality(S) = Cardinality(S)
BY DEF Abstract!Cardinality, Cardinality

LEMMA HeapStepRefines ==
  IInv /\ [Next]_vars => [Abstract!Next]_<<Entries(nodes), drawn>>
<1> SUFFICES ASSUME IInv, [Next]_vars PROVE [Abstract!Next]_<<Entries(nodes), drawn>>
  OBVIOUS
<1>0. TypeOK /\ EachContentOnce(nodes) /\ HeapProperty
  BY DEF IInv
<1>1. ASSUME NEW c \in Elements \ Contents(nodes), NEW v \in Values, Add(c, v)
      PROVE  [Abstract!Next]_<<Entries(nodes), drawn>>
  <2>1. PICK r : r = Rises(nodes, v)
    OBVIOUS
  <2>2. c \notin Contents(nodes) /\ HasRoom /\ drawn' = drawn
    BY <1>1, <2>1, AddCases
  <2>3. CASE nodes' = nodes
    BY <2>2, <2>3
  <2>4. CASE nodes' = AddNode(nodes, c, v)
    <3>1. Entries(nodes') = Entries(nodes) \cup {[content |-> c, value |-> v]}
      <4>1. PICK new : new = AddNode(nodes, c, v) /\ nodes' = new
        BY <2>4
      <4>2. Entries(new) = Entries(nodes) \cup {Node(c, v)}
        BY <1>0, <2>2, <4>1, AddsOne
      <4> QED BY <4>1, <4>2 DEF Node
    <3>2. Cardinality(Entries(nodes)) < MaxNodes
      <4>1. Len(nodes) \in Nat /\ MaxNodes \in Nat /\ Len(nodes) < MaxNodes
        BY <1>0, <2>2, TypeIsSequence, IndexedHeapAssumption DEF HasRoom
      <4> QED BY <1>0, <4>1, FewEntries
    <3>3. \A node \in Entries(nodes) : node.content # c
      BY <2>2 DEF Contents, Entries
    <3>4. Abstract!Add
      <4>1. \E e \in Elements, w \in Values :
              /\ \A node \in Entries(nodes) : node.content # e
              /\ Entries(nodes') = Entries(nodes) \cup {[content |-> e, value |-> w]}
        BY <3>1, <3>3
      <4> QED BY <2>2, <3>2, <4>1, SameCardinality DEF Abstract!Add, Entries
    <3> QED BY <3>4 DEF Abstract!Next
  <2> QED BY <1>1, <2>1, <2>3, <2>4, AddCases
<1>2. ASSUME 1 \in DOMAIN nodes, Remove(1), drawn' = drawn
      PROVE  Abstract!Next
  <2>1. nodes[1] \in Entries(nodes) /\ Entries(nodes') = Entries(nodes) \ {nodes[1]}
    BY <1>2, RemovalRefines
  <2>2. drawn \/ \A node \in Entries(nodes) : nodes[1].value <= node.value
    <3>1. ASSUME Ordered(nodes)
          PROVE  \A node \in Entries(nodes) : nodes[1].value <= node.value
      <4>1. Valued(nodes)
        BY <1>0, NodesValued
      <4>2. DOMAIN nodes = 1 .. Len(nodes)
        BY <4>1 DEF Valued
      <4>3. \A i \in 1 .. Len(nodes) : nodes[1].value <= nodes[i].value
        BY <3>1, <4>1, TopIsLeast
      <4> QED BY <4>2, <4>3 DEF Entries
    <3> QED BY <1>0, <3>1, Zenon DEF HeapProperty
  <2>3. Abstract!Remove
    BY <1>2, <2>1, <2>2 DEF Abstract!Remove, Entries
  <2> QED BY <2>3 DEF Abstract!Next
<1>3. ASSUME NEW at \in DOMAIN nodes, Remove(at), drawn' = TRUE
      PROVE  Abstract!Next
  <2>1. nodes[at] \in Entries(nodes) /\ Entries(nodes') = Entries(nodes) \ {nodes[at]}
    BY <1>3, RemovalRefines
  <2>2. Abstract!Draw
    BY <1>3, <2>1 DEF Abstract!Draw, Entries
  <2> QED BY <2>2 DEF Abstract!Next
<1>4. CASE UNCHANGED <<nodes, drawn>>
  BY <1>4
<1>5. CASE Next
  BY <1>0, <1>1, <1>2, <1>3, <1>4, <1>5, Steps
<1> QED BY <1>4, <1>5 DEF vars

\* A heap returns what was added, each node once and the smallest first as long as nobody
\* draws one out of turn, at any capacity, even with a table that is too small: it is the
\* priority queue its comments promise (heap.c:56-58, 123-125, 237).
THEOREM HeapIsPriorityQueue == Spec => IsPriorityQueue
<1>1. Init => Abstract!Init
  BY DEF Init, Abstract!Init
<1>2. IInv /\ [Next]_vars => [Abstract!Next]_<<{nodes[i] : i \in DOMAIN nodes}, drawn>>
  BY HeapStepRefines DEF Entries
<1> QED BY <1>1, <1>2, HeapInvariance, PTL DEF Spec, IsPriorityQueue, Abstract!Spec
====
