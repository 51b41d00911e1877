---------------------------- MODULE DataTheorems -----------------------------
(***************************************************************************)
(* Facts about data that several proofs need: induction on the naturals,   *)
(* loops that end, functions defined by recursion, and the array of a heap *)
(* with a node added or removed.                                           *)
(***************************************************************************)
EXTENDS Heap, WellFoundedInduction, SequenceTheorems, TLAPS

(* Induction, about a set in place of a predicate so that it can be cited. *)

LEMMA Smallest ==
  ASSUME NEW S \in SUBSET Nat, S # {}
  PROVE  \E n \in S : \A m \in S : n <= m
<1> DEFINE R == OpToRel(<, Nat)
<1>1. PICK n \in S : \A m \in S : <<m, n>> \notin R
  <2> HIDE DEF R
  <2>1. IsWellFoundedOn(R, Nat)
    BY NatLessThanWellFounded DEF R
  <2> QED BY <2>1, WFMin
<1>2. \A m \in S : ~(m < n)
  BY <1>1 DEF OpToRel
<1> QED BY <1>2

LEMMA Induction ==
  ASSUME NEW S, 0 \in S, \A n \in Nat : n \in S => n + 1 \in S
  PROVE  \A n \in Nat : n \in S
<1> SUFFICES ASSUME Nat \ S # {} PROVE FALSE
  OBVIOUS
<1>1. PICK n \in Nat \ S : \A m \in Nat \ S : n <= m
  BY Smallest
<1>2. n # 0 /\ n - 1 \in Nat /\ n - 1 \notin Nat \ S
  BY <1>1
<1> QED BY <1>1, <1>2

-------------------------------------------------------------------------------
(* A function f that starts with a and whose n-th step is Step[n] is well  *)
(* defined: finite runs can be prolonged, and those that are long enough   *)
(* agree.                                                                  *)

Iterates(f, a, Step) == f = [n \in Nat |-> IF n = 0 THEN a ELSE Step[n][f[n - 1]]]
Runs(g, n, a, Step) == g[0] = a /\ \A i \in 1 .. n : g[i] = Step[i][g[i - 1]]

LEMMA RunsAgree ==
  ASSUME NEW g, NEW h, NEW n \in Nat, NEW m \in Nat, NEW a, NEW Step,
         Runs(g, n, a, Step), Runs(h, m, a, Step)
  PROVE  \A i \in Nat : i <= n /\ i <= m => g[i] = h[i]
<1> DEFINE Same == {i \in Nat : i <= n /\ i <= m => g[i] = h[i]}
<1>1. 0 \in Same
  BY DEF Runs
<1>2. ASSUME NEW i \in Nat, i \in Same
      PROVE  i + 1 \in Same
  <2> SUFFICES ASSUME i + 1 <= n, i + 1 <= m PROVE g[i + 1] = h[i + 1]
    OBVIOUS
  <2>1. g[i] = h[i] /\ i + 1 \in 1 .. n /\ i + 1 \in 1 .. m /\ i + 1 - 1 = i
    BY <1>2
  <2> QED BY <2>1 DEF Runs
<1>3. \A i \in Nat : i \in Same
  <2> HIDE DEF Same
  <2> QED BY <1>1, <1>2, Induction
<1> QED BY <1>3

LEMMA RunExists ==
  ASSUME NEW T, NEW a \in T, NEW Step \in [Nat -> [T -> T]], NEW n \in Nat
  PROVE  \E g \in [0 .. n -> T] : Runs(g, n, a, Step)
<1> DEFINE Long == {m \in Nat : \E g \in [0 .. m -> T] : Runs(g, m, a, Step)}
<1>1. 0 \in Long
  <2>1. Runs([i \in 0 .. 0 |-> a], 0, a, Step)
    BY DEF Runs
  <2> QED BY <2>1
<1>2. ASSUME NEW m \in Nat, m \in Long
      PROVE  m + 1 \in Long
  <2>1. PICK g \in [0 .. m -> T] : Runs(g, m, a, Step)
    BY <1>2
  <2> DEFINE h == [i \in 0 .. m + 1 |-> IF i = m + 1 THEN Step[m + 1][g[m]] ELSE g[i]]
  <2>2. h \in [0 .. m + 1 -> T]
    OBVIOUS
  <2>3. Runs(h, m + 1, a, Step)
    BY <2>1 DEF Runs
  <2> QED BY <2>2, <2>3
<1>3. n \in Long
  <2> HIDE DEF Long
  <2> QED BY <1>1, <1>2, Induction
<1> QED BY <1>3

LEMMA Iteration ==
  ASSUME NEW T, NEW a \in T, NEW Step \in [Nat -> [T -> T]]
  PROVE  \E f \in [Nat -> T] : Iterates(f, a, Step)
<1> DEFINE run[n \in Nat] == CHOOSE g \in [0 .. n -> T] : Runs(g, n, a, Step)
<1> DEFINE f == [n \in Nat |-> run[n][n]]
<1>1. \A n \in Nat : run[n] \in [0 .. n -> T] /\ Runs(run[n], n, a, Step)
  BY RunExists
<1> HIDE DEF run
<1>2. f \in [Nat -> T] /\ f[0] = a
  BY <1>1 DEF Runs
<1>3. ASSUME NEW n \in Nat
      PROVE  f[n + 1] = Step[n + 1][f[n]]
  <2>1. run[n + 1][n] = run[n][n]
    BY <1>1, RunsAgree
  <2>2. run[n + 1][n + 1] = Step[n + 1][run[n + 1][n]]
    BY <1>1 DEF Runs
  <2> QED BY <2>1, <2>2
<1> HIDE DEF f
<1>4. ASSUME NEW n \in Nat
      PROVE  f[n] = IF n = 0 THEN a ELSE Step[n][f[n - 1]]
  <2>1. CASE n = 0
    BY <1>2, <2>1
  <2>2. CASE n # 0
    <3>1. n - 1 \in Nat /\ n - 1 + 1 = n
      BY <2>2
    <3> QED BY <1>3, <3>1, <2>2
  <2> QED BY <2>1, <2>2
<1>5. f = [n \in Nat |-> f[n]]
  BY <1>2
<1>6. Iterates(f, a, Step)
  BY <1>4, <1>5 DEF Iterates
<1> QED BY <1>2, <1>6

LEMMA FunctionIsSequence ==
  ASSUME NEW S, NEW n \in Nat, NEW f \in [1 .. n -> S]
  PROVE  f \in Seq(S) /\ Len(f) = n /\ DOMAIN f = 1 .. n
BY SeqDef, LenProperties

\* The first time a loop may end.
LEMMA First ==
  ASSUME NEW max \in Nat, NEW S \in SUBSET (0 .. max), S # {}
  PROVE  \E n \in 0 .. max : n \in S /\ \A k \in 0 .. n - 1 : k \notin S
<1>1. PICK n \in S : \A m \in S : n <= m
  BY Smallest
<1>2. n \in Nat /\ n <= max /\ \A k \in 0 .. n - 1 : ~(n <= k)
  OBVIOUS
<1> QED BY <1>1, <1>2
-------------------------------------------------------------------------------
(***************************************************************************)
(* The array, which any sequence of nodes is: a node that was added rises  *)
(* along its ancestors, the last one that takes the place of a removed one *)
(* sinks along the smaller children. Both only move entries along a path.  *)
(***************************************************************************)

LEMMA AncestorRuns ==
  ASSUME NEW i \in Nat
  PROVE  /\ Ancestor(i, 0) = i
         /\ \A n \in Nat : /\ Ancestor(i, n) \in Nat
                           /\ Ancestor(i, n + 1) = Parent(Ancestor(i, n))
<1> DEFINE Climbs(f) == f = [k \in Nat |-> IF k = 0 THEN i ELSE Parent(f[k - 1])]
<1> DEFINE place == CHOOSE f : Climbs(f)
<1>1. PICK f \in [Nat -> Nat] : Climbs(f)
  <2> DEFINE Step == [n \in Nat |-> [s \in Nat |-> Parent(s)]]
  <2>1. PICK f \in [Nat -> Nat] : Iterates(f, i, Step)
    <3>1. Step \in [Nat -> [Nat -> Nat]]
      BY DEF Parent
    <3> HIDE DEF Step
    <3> QED BY <3>1, Iteration
  <2>2. \A k \in Nat \ {0} : Step[k][f[k - 1]] = Parent(f[k - 1])
    BY <2>1
  <2> HIDE DEF Step
  <2> QED BY <2>1, <2>2 DEF Iterates
<1>2. \A n \in Nat : Ancestor(i, n) = place[n]
  BY DEF Ancestor
<1>4. Climbs(place)
  <2> HIDE DEF Climbs
  <2> QED BY <1>1
<1> HIDE DEF place
<1>3. place[0] = i /\ \A n \in Nat : place[n + 1] = Parent(place[n])
  <2>1. \A n \in Nat : n + 1 \in Nat /\ n + 1 # 0 /\ n + 1 - 1 = n
    OBVIOUS
  <2> QED BY <1>4, <2>1
<1> DEFINE Typed == {n \in Nat : place[n] \in Nat}
<1>5. 0 \in Typed /\ \A n \in Nat : n \in Typed => n + 1 \in Typed
  BY <1>3 DEF Parent
<1>6. \A n \in Nat : n \in Typed
  <2> HIDE DEF Typed
  <2> QED BY <1>5, Induction
<1> QED BY <1>2, <1>3, <1>6

\* The path of a new last node that rises: its places, up to the one where it rests.
LEMMA RisesFacts ==
  ASSUME NEW heap, NEW value, NEW last \in Nat \ {0}, Len(heap) + 1 = last
  PROVE  /\ Rises(heap, value) \in 0 .. last
         /\ \A k \in 0 .. Rises(heap, value) - 1 :
              /\ Ancestor(last, k) # 1
              /\ ~(heap[Ancestor(last, k + 1)].value <= value)
         /\ \/ Ancestor(last, Rises(heap, value)) = 1
            \/ heap[Ancestor(last, Rises(heap, value) + 1)].value <= value
<1> DEFINE Rests(n) == Ancestor(last, n) = 1 \/ heap[Ancestor(last, n + 1)].value <= value
           Resting == {n \in 0 .. last : Rests(n)}
<1>1. Resting # {}
  <2> DEFINE Short == {n \in Nat : \/ \E k \in 0 .. n : Ancestor(last, k) = 1
                                   \/ Ancestor(last, n) > 1 /\ Ancestor(last, n) + n <= last}
  <2>0. Ancestor(last, 0) = last
    BY AncestorRuns
  <2>1. 0 \in Short
    BY <2>0
  <2>2. ASSUME NEW n \in Nat, n \in Short
        PROVE  n + 1 \in Short
    <3>1. CASE \E k \in 0 .. n : Ancestor(last, k) = 1
      BY <3>1
    <3>2. CASE Ancestor(last, n) > 1 /\ Ancestor(last, n) + n <= last
      <4>0. last \in Nat
        OBVIOUS
      <4>1. Ancestor(last, n) \in Nat /\ Ancestor(last, n + 1) = Ancestor(last, n) \div 2
        BY <4>0, AncestorRuns DEF Parent
      <4>2. Ancestor(last, n + 1) \in Nat \ {0} /\ Ancestor(last, n + 1) < Ancestor(last, n)
        BY <3>2, <4>1
      <4>3. Ancestor(last, n + 1) = 1 \/ Ancestor(last, n + 1) > 1
        BY <4>2
      <4> QED BY <3>2, <4>1, <4>2, <4>3
    <3> QED BY <2>2, <3>1, <3>2
  <2>3. last \in Short
    <3> HIDE DEF Short
    <3> QED BY <2>1, <2>2, Induction
  <2>4. \E k \in 0 .. last : Ancestor(last, k) = 1
    BY <2>3, AncestorRuns
  <2> QED BY <2>4
<1>2. \E n \in 0 .. last : Rests(n) /\ \A k \in 0 .. n - 1 : ~Rests(k)
  <2>1. PICK n \in 0 .. last : n \in Resting /\ \A k \in 0 .. n - 1 : k \notin Resting
    <3> HIDE DEF Resting
    <3>1. Resting \in SUBSET (0 .. last)
      BY DEF Resting
    <3>2. last \in Nat
      OBVIOUS
    <3> QED BY <1>1, <3>1, <3>2, First
  <2>2. n \in 0 .. last /\ \A k \in 0 .. n - 1 : k \in 0 .. last
    OBVIOUS
  <2> HIDE DEF Rests
  <2> QED BY <2>1, <2>2
<1>3. Rises(heap, value) = CHOOSE n \in 0 .. last : Rests(n) /\ \A k \in 0 .. n - 1 : ~Rests(k)
  BY DEF Rises, Iterations
<1> HIDE DEF Rests
<1>4. /\ Rises(heap, value) \in 0 .. last /\ Rests(Rises(heap, value))
      /\ \A k \in 0 .. Rises(heap, value) - 1 : ~Rests(k)
  BY <1>2, <1>3
<1> QED BY <1>4 DEF Rests

\* Its places get smaller and smaller.
LEMMA Climbing ==
  ASSUME NEW last \in Nat \ {0}, NEW r \in Nat,
         \A k \in 0 .. r - 1 : Ancestor(last, k) # 1
  PROVE  /\ \A k \in 0 .. r : Ancestor(last, k) \in 1 .. last
         /\ \A j, k \in 0 .. r : j < k => Ancestor(last, k) < Ancestor(last, j)
<1> DEFINE Down == {k \in Nat : k <= r => /\ Ancestor(last, k) \in 1 .. last
                                         /\ \A j \in 0 .. k - 1 : Ancestor(last, k) < Ancestor(last, j)}
<1>1. 0 \in Down
  <2>1. Ancestor(last, 0) = last
    BY AncestorRuns
  <2> QED BY <2>1
<1>2. ASSUME NEW k \in Nat, k \in Down
      PROVE  k + 1 \in Down
  <2> SUFFICES ASSUME k + 1 <= r
               PROVE  /\ Ancestor(last, k + 1) \in 1 .. last
                      /\ \A j \in 0 .. k : Ancestor(last, k + 1) < Ancestor(last, j)
    OBVIOUS
  <2>1. Ancestor(last, k) \in 2 .. last
    BY <1>2
  <2>2. Ancestor(last, k + 1) = Ancestor(last, k) \div 2
    BY AncestorRuns DEF Parent
  <2>3. Ancestor(last, k + 1) \in 1 .. last /\ Ancestor(last, k + 1) < Ancestor(last, k)
    BY <2>1, <2>2
  <2>4. \A j \in 0 .. k - 1 : Ancestor(last, k) < Ancestor(last, j) /\ Ancestor(last, j) \in Nat
    <3>1. \A j \in 0 .. k - 1 : Ancestor(last, k) < Ancestor(last, j)
      BY <1>2
    <3>2. \A j \in Nat : Ancestor(last, j) \in Nat
      BY AncestorRuns
    <3> QED BY <3>1, <3>2
  <2>5. ASSUME NEW j \in 0 .. k
        PROVE  Ancestor(last, k + 1) < Ancestor(last, j)
    <3>1. CASE j = k
      BY <2>3, <3>1
    <3>2. CASE j \in 0 .. k - 1
      BY <2>1, <2>3, <2>4, <3>2
    <3> QED BY <3>1, <3>2
  <2> QED BY <2>3, <2>5
<1>3. \A k \in Nat : k \in Down
  <2> HIDE DEF Down
  <2> QED BY <1>1, <1>2, Induction
<1> QED BY <1>3

\* The entry at the first of the places p has moved along them to the last one, p[r], and
\* those it passed have moved by one place towards the first.
MovedAlong(new, old, p, r) ==
  /\ new[p[r]] = old[p[0]]
  /\ \A k \in 0 .. r - 1 : new[p[k]] = old[p[k + 1]]
  /\ \A i \in DOMAIN old : (\A k \in 0 .. r : i # p[k]) => new[i] = old[i]

Path(p, r, places) == /\ \A k \in 0 .. r : p[k] \in places
                      /\ \A j, k \in 0 .. r : p[j] = p[k] => j = k

\* The entries of old in another order.
Rearranges(new, old) ==
  /\ DOMAIN new = DOMAIN old
  /\ \E f \in [DOMAIN old -> DOMAIN old] :
       /\ \A i, j \in DOMAIN old : f[i] = f[j] => i = j
       /\ \A j \in DOMAIN old : \E i \in DOMAIN old : f[i] = j
       /\ \A i \in DOMAIN old : new[i] = old[f[i]]

LEMMA MovedRearranges ==
  ASSUME NEW old, NEW new, DOMAIN new = DOMAIN old, NEW r \in Nat, NEW p,
         Path(p, r, DOMAIN old), MovedAlong(new, old, p, r)
  PROVE  Rearranges(new, old)
<1> DEFINE D == DOMAIN old
           step(i) == CHOOSE k \in 0 .. r - 1 : p[k] = i
           f == [i \in D |-> IF i = p[r] THEN p[0]
                             ELSE IF \E k \in 0 .. r - 1 : p[k] = i THEN p[step(i) + 1] ELSE i]
           Off(i) == \A k \in 0 .. r : p[k] # i
<1>1. /\ 0 \in 0 .. r /\ r \in 0 .. r
      /\ \A k \in 0 .. r - 1 : k \in 0 .. r /\ k + 1 \in 0 .. r /\ k # r
  OBVIOUS
<1>2. \A k \in 0 .. r : k = r \/ k \in 0 .. r - 1
  OBVIOUS
<1>3. p[r] \in D /\ p[0] \in D /\ f[p[r]] = p[0]
  BY <1>1 DEF Path
<1>4. ASSUME NEW k \in 0 .. r - 1
      PROVE  p[k] \in D /\ p[k + 1] \in D /\ f[p[k]] = p[k + 1]
  <2>1. p[k] \in D /\ p[k + 1] \in D /\ p[k] # p[r]
    BY <1>1 DEF Path
  <2>2. step(p[k]) \in 0 .. r - 1 /\ p[step(p[k])] = p[k]
    OBVIOUS
  <2>3. step(p[k]) = k
    BY <1>1, <2>2 DEF Path
  <2> QED BY <2>1, <2>3
<1>5. \A i \in D : Off(i) => f[i] = i
  BY <1>1
<1>6. ASSUME NEW i \in D
      PROVE  Off(i) \/ i = p[r] \/ \E k \in 0 .. r - 1 : i = p[k]
  BY <1>2
<1> HIDE DEF f
<1>7. f \in [D -> D]
  <2>1. \A i \in D : f[i] \in D
    BY <1>3, <1>4, <1>5, <1>6
  <2> QED BY <2>1 DEF f
<1>8. \A i \in D : new[i] = old[f[i]]
  BY <1>3, <1>4, <1>5, <1>6 DEF MovedAlong
<1>9. ASSUME NEW j \in D
      PROVE  \E i \in D : f[i] = j
  <2>1. CASE Off(j)
    BY <1>5, <2>1
  <2>2. ASSUME NEW k \in 0 .. r, j = p[k]
        PROVE  \E i \in D : f[i] = j
    <3>1. CASE k = 0
      BY <1>3, <2>2, <3>1
    <3>2. CASE k # 0
      <4>1. k - 1 \in 0 .. r - 1 /\ k - 1 + 1 = k
        BY <3>2
      <4> QED BY <1>4, <2>2, <4>1
    <3> QED BY <3>1, <3>2
  <2> QED BY <2>1, <2>2
<1>10. \A k \in 0 .. r : ~Off(p[k])
  OBVIOUS
<1>11. ASSUME NEW i \in D, NEW j \in D, f[i] = f[j]
       PROVE  i = j
  <2>1. CASE Off(i)
    <3>1. Off(f[j])
      BY <1>5, <1>11, <2>1
    <3>2. Off(j)
      BY <1>1, <1>3, <1>4, <1>6, <1>10, <3>1
    <3> QED BY <1>5, <1>11, <2>1, <3>2
  <2>2. CASE Off(j)
    <3>1. Off(f[i])
      BY <1>5, <1>11, <2>2
    <3>2. Off(i)
      BY <1>1, <1>3, <1>4, <1>6, <1>10, <3>1
    <3> QED BY <1>5, <1>11, <2>2, <3>2
  <2>3. CASE ~Off(i) /\ ~Off(j)
    <3>1. CASE i = p[r]
      <4>1. \A k \in 0 .. r - 1 : p[k + 1] # p[0]
        BY <1>1 DEF Path
      <4> QED BY <1>3, <1>4, <1>6, <1>11, <2>3, <3>1, <4>1
    <3>2. CASE j = p[r]
      <4>1. \A k \in 0 .. r - 1 : p[k + 1] # p[0]
        BY <1>1 DEF Path
      <4> QED BY <1>3, <1>4, <1>6, <1>11, <2>3, <3>2, <4>1
    <3>3. ASSUME NEW k \in 0 .. r - 1, NEW l \in 0 .. r - 1, i = p[k], j = p[l]
          PROVE  i = j
      <4>1. p[k + 1] = p[l + 1]
        BY <1>4, <1>11, <3>3
      <4>2. k + 1 = l + 1
        BY <1>1, <4>1 DEF Path
      <4>3. k = l
        BY <4>2
      <4> QED BY <3>3, <4>3
    <3> QED BY <1>6, <2>3, <3>1, <3>2, <3>3
  <2> QED BY <2>1, <2>2, <2>3
<1> QED BY <1>7, <1>8, <1>9, <1>11 DEF Rearranges

\* What another order leaves as it is: the set of entries, and that none comes twice.
LEMMA SameEntries ==
  ASSUME NEW old, NEW new, Rearranges(new, old)
  PROVE  /\ {new[i] : i \in DOMAIN new} = {old[i] : i \in DOMAIN old}
         /\ \A i \in DOMAIN new : \E j \in DOMAIN old : new[i] = old[j]
BY DEF Rearranges

\* No two nodes hold the same one of some contents.
OnceIn(heap, C) ==
  \A i, j \in DOMAIN heap :
    heap[i].content \in C /\ heap[i].content = heap[j].content => i = j

LEMMA StillOnceIn ==
  ASSUME NEW old, NEW new, Rearranges(new, old), NEW C, OnceIn(old, C)
  PROVE  OnceIn(new, C)
BY DEF Rearranges, OnceIn

Up(last) == [k \in Nat |-> Ancestor(last, k)]

\* A node that was added as the last one has risen r places; those it passed are one lower.
Risen(new, heap, node, last, r) ==
  /\ Ancestor(last, r) \in 1 .. last /\ new[Ancestor(last, r)] = node
  /\ \A k \in 0 .. r - 1 : /\ Ancestor(last, k) \in 1 .. last
                           /\ Ancestor(last, k + 1) \in 1 .. Len(heap)
                           /\ new[Ancestor(last, k)] = heap[Ancestor(last, k + 1)]
  /\ \A i \in 1 .. last : (\A k \in 0 .. r : i # Ancestor(last, k)) =>
       i \in 1 .. Len(heap) /\ new[i] = heap[i]

LEMMA AddNodeRises ==
  ASSUME NEW S, NEW heap \in Seq(S), NEW content, NEW value, Node(content, value) \in S,
         NEW last \in Nat \ {0}, Len(heap) + 1 = last,
         NEW new, new = AddNode(heap, content, value),
         NEW r, r = Rises(heap, value)
  PROVE  /\ new \in Seq(S) /\ Len(new) = last
         /\ Risen(new, heap, Node(content, value), last, r)
<1>1. /\ r \in 0 .. last
      /\ \A k \in 0 .. r - 1 : Ancestor(last, k) # 1
  BY RisesFacts
<1>2. /\ \A k \in 0 .. r : Ancestor(last, k) \in 1 .. last
      /\ \A j, k \in 0 .. r : j < k => Ancestor(last, k) < Ancestor(last, j)
  <2>1. r \in Nat
    BY <1>1
  <2> QED BY <1>1, <2>1, Climbing
<1>3. Ancestor(last, 0) = last /\ \A k \in Nat : Ancestor(last, k + 1) = Parent(Ancestor(last, k))
  BY AncestorRuns
<1>5. \A k \in 1 .. r : Ancestor(last, k) \in 1 .. Len(heap)
  <2> TAKE k \in 1 .. r
  <2>1. 0 \in 0 .. r /\ k \in 0 .. r /\ 0 < k
    BY <1>1
  <2> QED BY <1>2, <1>3, <2>1
<1> DEFINE passed == {Ancestor(last, n) : n \in 0 .. r - 1}
<1>6. new = [i \in 1 .. last |-> CASE i = Ancestor(last, r) -> Node(content, value)
                                   [] i \in passed -> heap[Parent(i)]
                                   [] OTHER -> heap[i]]
  BY DEF AddNode
<1>7. /\ Ancestor(last, r) \in 1 .. last
      /\ new[Ancestor(last, r)] = Node(content, value)
  BY <1>1, <1>2, <1>6
<1>8. ASSUME NEW k \in 0 .. r - 1
      PROVE  /\ Ancestor(last, k) \in 1 .. last /\ Ancestor(last, k + 1) \in 1 .. Len(heap)
             /\ new[Ancestor(last, k)] = heap[Ancestor(last, k + 1)]
  <2>1. k \in 0 .. r /\ r \in 0 .. r /\ k < r /\ k + 1 \in 1 .. r /\ k \in Nat
    BY <1>1
  <2>2. Ancestor(last, k) # Ancestor(last, r) /\ Ancestor(last, k) \in passed
    BY <1>2, <2>1
  <2>3. Ancestor(last, k) \in 1 .. last
    BY <1>2, <2>1
  <2>4. new[Ancestor(last, k)] = heap[Parent(Ancestor(last, k))]
    BY <1>6, <2>2, <2>3
  <2> QED BY <1>3, <1>5, <2>1, <2>3, <2>4
<1>9. ASSUME NEW i \in 1 .. last, \A k \in 0 .. r : i # Ancestor(last, k)
      PROVE  i \in 1 .. Len(heap) /\ new[i] = heap[i]
  <2>1. i # last /\ i # Ancestor(last, r) /\ i \notin passed
    <3>1. 0 \in 0 .. r /\ r \in 0 .. r /\ \A k \in 0 .. r - 1 : k \in 0 .. r
      BY <1>1
    <3> QED BY <1>3, <1>9, <3>1
  <2> QED BY <1>6, <2>1
<1>10. new \in Seq(S) /\ Len(new) = last
  <2>1. ASSUME NEW i \in 1 .. last
        PROVE  new[i] \in S
    <3>1. CASE \A k \in 0 .. r : i # Ancestor(last, k)
      BY <1>9, <3>1
    <3>2. ASSUME NEW k \in 0 .. r, i = Ancestor(last, k)
          PROVE  new[i] \in S
      <4>1. k = r \/ k \in 0 .. r - 1
        BY <1>1
      <4> QED BY <1>7, <1>8, <3>2, <4>1
    <3> QED BY <3>1, <3>2
  <2>2. new = [i \in 1 .. last |-> new[i]]
    BY <1>6
  <2>3. new \in [1 .. last -> S]
    BY <2>1, <2>2
  <2> QED BY <2>3, FunctionIsSequence
<1> QED BY <1>7, <1>8, <1>9, <1>10 DEF Risen

LEMMA AddNodeMoves ==
  ASSUME NEW S, NEW heap \in Seq(S), NEW content, NEW value, Node(content, value) \in S,
         NEW last \in Nat \ {0}, Len(heap) + 1 = last,
         NEW new, new = AddNode(heap, content, value),
         NEW r, r = Rises(heap, value),
         NEW old, old = Append(heap, Node(content, value))
  PROVE  r \in Nat /\ Path(Up(last), r, 1 .. last) /\ MovedAlong(new, old, Up(last), r)
<1>1. Risen(new, heap, Node(content, value), last, r)
  BY AddNodeRises
<1>2. /\ r \in 0 .. last
      /\ \A k \in 0 .. r - 1 : Ancestor(last, k) # 1
  BY RisesFacts
<1>3. /\ \A k \in 0 .. r : Ancestor(last, k) \in 1 .. last
      /\ \A j, k \in 0 .. r : j < k => Ancestor(last, k) < Ancestor(last, j)
  <2>1. r \in Nat
    BY <1>2
  <2> QED BY <1>2, <2>1, Climbing
<1>4. Path(Up(last), r, 1 .. last)
  <2>1. ASSUME NEW j \in 0 .. r, NEW k \in 0 .. r, Ancestor(last, j) = Ancestor(last, k)
        PROVE  j = k
    <3>1. j < k \/ k < j \/ j = k
      OBVIOUS
    <3> QED BY <1>3, <2>1, <3>1
  <2> QED BY <1>2, <1>3, <2>1 DEF Path, Up
<1>5. /\ DOMAIN old = 1 .. last /\ old[last] = Node(content, value)
      /\ \A i \in 1 .. Len(heap) : old[i] = heap[i]
  OBVIOUS
<1>6. \A k \in 0 .. r : Up(last)[k] = Ancestor(last, k)
  BY DEF Up
<1>7. r \in 0 .. r /\ 0 \in 0 .. r /\ \A k \in 0 .. r - 1 : k \in 0 .. r /\ k + 1 \in 0 .. r
  BY <1>2
<1>8. Ancestor(last, 0) = last
  BY AncestorRuns
<1>9. new[Up(last)[r]] = old[Up(last)[0]]
  BY <1>1, <1>5, <1>6, <1>7, <1>8 DEF Risen
<1>10. ASSUME NEW k \in 0 .. r - 1
       PROVE  new[Up(last)[k]] = old[Up(last)[k + 1]]
  BY <1>1, <1>5, <1>6, <1>7 DEF Risen
<1>11. ASSUME NEW i \in 1 .. last, \A k \in 0 .. r : i # Up(last)[k]
       PROVE  new[i] = old[i]
  <2>1. i \in 1 .. Len(heap) /\ new[i] = heap[i]
    BY <1>1, <1>6, <1>11 DEF Risen
  <2> QED BY <1>5, <2>1
<1>12. MovedAlong(new, old, Up(last), r)
  BY <1>5, <1>9, <1>10, <1>11 DEF MovedAlong
<1> QED BY <1>2, <1>4, <1>12

LEMMA AddNodeOrders ==
  ASSUME NEW S, NEW heap \in Seq(S), \A node \in S : node.value \in Nat,
         NEW content, NEW value \in Nat, Node(content, value) \in S, Ordered(heap)
  PROVE  Ordered(AddNode(heap, content, value))
<1> PICK last \in Nat \ {0} : Len(heap) + 1 = last
  OBVIOUS
<1> PICK new : new = AddNode(heap, content, value)
  OBVIOUS
<1> PICK r : r = Rises(heap, value)
  OBVIOUS
<1>0. Len(heap) \in Nat
  OBVIOUS
<1>1. /\ new \in Seq(S) /\ Len(new) = last
      /\ Risen(new, heap, Node(content, value), last, r)
  BY <1>0, AddNodeRises
<1>2. /\ r \in 0 .. last
      /\ \A k \in 0 .. r - 1 : /\ Ancestor(last, k) # 1
                               /\ ~(heap[Ancestor(last, k + 1)].value <= value)
      /\ Ancestor(last, r) = 1 \/ heap[Ancestor(last, r + 1)].value <= value
  BY RisesFacts
<1>3. /\ \A k \in 0 .. r : Ancestor(last, k) \in 1 .. last
      /\ \A j, k \in 0 .. r : j < k => Ancestor(last, k) < Ancestor(last, j)
  <2>1. r \in Nat
    BY <1>2
  <2> QED BY <1>2, <2>1, Climbing
<1>4. /\ Ancestor(last, 0) = last
      /\ \A k \in Nat : Ancestor(last, k) \in Nat /\ Ancestor(last, k + 1) = Parent(Ancestor(last, k))
  BY AncestorRuns
<1>5. /\ DOMAIN new = 1 .. last
      /\ \A i \in 1 .. Len(heap) : heap[i].value \in Nat
  <2>1. \A i \in 1 .. Len(heap) : heap[i] \in S
    BY <1>0
  <2>2. DOMAIN new = 1 .. last
    BY <1>1
  <2> QED BY <2>1, <2>2
<1>7. /\ 0 \in 0 .. r /\ r \in 0 .. r /\ r \in Nat
      /\ \A k \in 0 .. r - 1 : k \in 0 .. r /\ k + 1 \in 0 .. r /\ k \in Nat /\ k + 1 \in Nat
  BY <1>2
<1>9. new[Ancestor(last, r)].value = value
  BY <1>1 DEF Risen, Node
<1>10. \A k \in 0 .. r - 1 : /\ Ancestor(last, k + 1) \in 1 .. Len(heap)
                             /\ new[Ancestor(last, k)] = heap[Ancestor(last, k + 1)]
  BY <1>1 DEF Risen
<1>11. \A i \in 1 .. last : (\A k \in 0 .. r : i # Ancestor(last, k)) =>
         i \in 1 .. Len(heap) /\ new[i] = heap[i]
  BY <1>1 DEF Risen
<1>12. \A i \in 1 .. Len(heap) : i > 1 => heap[Parent(i)].value <= heap[i].value
  BY DEF Ordered
<1>13. \A i \in 1 .. last :
         i > 1 => Parent(i) \in 1 .. last /\ Parent(i) < i /\ Parent(i) \in 1 .. Len(heap)
  BY <1>0 DEF Parent
<1> SUFFICES ASSUME NEW i \in 1 .. last, i > 1
             PROVE  new[Parent(i)].value <= new[i].value
  BY <1>5 DEF Ordered
<1>14. CASE i = Ancestor(last, r)
  <2>1. Parent(i) = Ancestor(last, r + 1) /\ heap[Parent(i)].value <= value
    <3>1. Parent(i) = Ancestor(last, r + 1)
      BY <1>4, <1>7, <1>14
    <3> QED BY <1>2, <1>14, <3>1
  <2>2. \A k \in 0 .. r : Parent(i) # Ancestor(last, k)
    <3> TAKE k \in 0 .. r
    <3>1. k = r \/ k < r
      BY <1>2
    <3>2. i <= Ancestor(last, k) /\ Ancestor(last, k) \in Nat
      BY <1>3, <1>7, <1>14, <3>1
    <3> QED BY <1>13, <3>2
  <2>3. new[Parent(i)] = heap[Parent(i)]
    BY <1>11, <1>13, <2>2
  <2> QED BY <1>9, <1>14, <2>1, <2>3
<1>15. ASSUME NEW k \in 0 .. r - 1, i = Ancestor(last, k)
       PROVE  new[Parent(i)].value <= new[i].value
  <2>0. k \in Nat /\ k + 1 \in Nat /\ k + 1 \in 1 .. r
    BY <1>2
  <2>1. Parent(i) = Ancestor(last, k + 1) /\ new[i] = heap[Ancestor(last, k + 1)]
    BY <1>4, <1>10, <1>15, <2>0
  <2>2. ~(new[i].value <= value) /\ new[i].value \in Nat
    BY <1>2, <1>5, <1>10, <2>0, <2>1
  <2>3. CASE k + 1 = r
    BY <1>9, <2>1, <2>2, <2>3
  <2>4. CASE k + 1 # r
    <3>1. k + 1 \in 0 .. r - 1
      BY <1>2, <2>4
    <3>2. new[Parent(i)] = heap[Ancestor(last, k + 1 + 1)]
      BY <1>10, <2>1, <3>1
    <3>3. Ancestor(last, k + 1 + 1) = Parent(Ancestor(last, k + 1)) /\ Ancestor(last, k + 1) # 1
      BY <1>2, <1>4, <2>0, <3>1
    <3> QED BY <1>10, <1>12, <2>0, <2>1, <3>2, <3>3
  <2> QED BY <2>3, <2>4
<1>16. CASE \A k \in 0 .. r : i # Ancestor(last, k)
  <2>1. i \in 1 .. Len(heap) /\ new[i] = heap[i]
    BY <1>11, <1>16
  <2>2. heap[Parent(i)].value <= heap[i].value
    BY <1>12, <2>1
  <2>3. CASE \A k \in 0 .. r : Parent(i) # Ancestor(last, k)
    BY <1>11, <1>13, <2>1, <2>2, <2>3
  <2>4. ASSUME NEW k \in 0 .. r, Parent(i) = Ancestor(last, k)
        PROVE  new[Parent(i)].value <= new[i].value
    <3>1. k # 0
      BY <1>0, <1>4, <1>13, <2>1, <2>4
    <3>2. k - 1 \in 0 .. r - 1 /\ k - 1 + 1 = k /\ k \in 1 .. r
      BY <1>2, <3>1
    <3>3. ~(heap[Parent(i)].value <= value) /\ heap[Parent(i)].value \in Nat
      BY <1>2, <1>5, <1>10, <2>4, <3>2
    <3>4. CASE k = r
      BY <1>5, <1>9, <2>1, <2>2, <2>4, <3>3, <3>4
    <3>5. CASE k # r
      <4>1. k \in 0 .. r - 1 /\ k \in Nat
        BY <1>2, <3>5
      <4>2. new[Parent(i)] = heap[Parent(Parent(i))] /\ Parent(i) # 1
        <5>1. Parent(i) # 1 /\ new[Parent(i)] = heap[Ancestor(last, k + 1)]
          BY <1>2, <1>10, <2>4, <4>1
        <5> QED BY <1>4, <2>4, <4>1, <5>1
      <4>3. Parent(i) \in 1 .. Len(heap) /\ Parent(i) > 1
        BY <1>13, <4>2
      <4>4. heap[Parent(Parent(i))].value <= heap[Parent(i)].value
        BY <1>12, <4>3
      <4>5. Parent(Parent(i)) \in 1 .. Len(heap)
        BY <1>0, <1>13, <4>3
      <4> QED BY <1>5, <2>1, <2>2, <4>2, <4>3, <4>4, <4>5
    <3> QED BY <3>4, <3>5
  <2> QED BY <2>3, <2>4
<1>17. \A k \in 0 .. r : k = r \/ k \in 0 .. r - 1
  BY <1>2
<1> QED BY <1>14, <1>15, <1>16, <1>17

\* What the values of a heap are compared as.
Valued(heap) == /\ Len(heap) \in Nat /\ DOMAIN heap = 1 .. Len(heap)
                /\ \A i \in 1 .. Len(heap) : heap[i].value \in Nat

LEMMA SmallerChildFacts ==
  ASSUME NEW heap, Valued(heap), NEW i \in Nat,
         NEW c, c = SmallerChild(heap, i)
  PROVE  /\ c \in 0 .. Len(heap)
         /\ c = 0 => \A d \in 1 .. Len(heap) : d # FirstChild(i) /\ d # SecondChild(i)
         /\ c # 0 => /\ c = FirstChild(i) \/ c = SecondChild(i)
                     /\ \A d \in 1 .. Len(heap) : d = FirstChild(i) \/ d = SecondChild(i) =>
                          heap[c].value <= heap[d].value
<1> DEFINE children == {FirstChild(i), SecondChild(i)} \cap DOMAIN heap
           Least(x) == \A d \in children :
             heap[x].value < heap[d].value \/ (heap[x].value = heap[d].value /\ x <= d)
<1>1. c = IF children = {} THEN 0 ELSE CHOOSE x \in children : Least(x)
  BY DEF SmallerChild
<1>2. DOMAIN heap = 1 .. Len(heap) /\ Len(heap) \in Nat
  BY DEF Valued
<1>3. \A d \in 1 .. Len(heap) : heap[d].value \in Nat
  BY DEF Valued
<1>4. \A d : d \in children <=> d \in 1 .. Len(heap) /\ (d = FirstChild(i) \/ d = SecondChild(i))
  BY <1>2
<1> HIDE DEF children
<1>5. CASE children = {}
  BY <1>1, <1>2, <1>4, <1>5
<1>6. CASE children # {}
  <2>1. \E x \in children : Least(x)
    <3>1. CASE FirstChild(i) \in children /\ SecondChild(i) \in children
      <4>1. FirstChild(i) <= SecondChild(i) /\ FirstChild(i) \in Nat /\ SecondChild(i) \in Nat
        BY DEF FirstChild, SecondChild
      <4>2. heap[FirstChild(i)].value \in Nat /\ heap[SecondChild(i)].value \in Nat
        BY <1>3, <1>4, <3>1
      <4>3. CASE heap[FirstChild(i)].value <= heap[SecondChild(i)].value
        <5>1. Least(FirstChild(i))
          BY <1>4, <4>1, <4>2, <4>3
        <5> QED BY <3>1, <5>1
      <4>4. CASE ~(heap[FirstChild(i)].value <= heap[SecondChild(i)].value)
        <5>1. Least(SecondChild(i))
          BY <1>4, <4>1, <4>2, <4>4
        <5> QED BY <3>1, <5>1
      <4> QED BY <4>3, <4>4
    <3>2. ASSUME NEW x \in children, \A d \in children : d = x
          PROVE  Least(x)
      BY <1>3, <1>4, <3>2
    <3> QED BY <1>4, <1>6, <3>1, <3>2
  <2>2. c \in children /\ Least(c)
    <3> HIDE DEF Least
    <3> QED BY <1>1, <1>6, <2>1
  <2> QED BY <1>3, <1>4, <2>2
<1> QED BY <1>5, <1>6

\* The path of a node that sinks.
IsDescent(d, heap, at) == d = Descent(heap, at)
IsSinks(s, heap, at, value) == s = Sinks(heap, at, value)

LEMMA DescentRuns ==
  ASSUME NEW heap, Valued(heap), NEW at \in Nat,
         NEW d, IsDescent(d, heap, at)
  PROVE  d[0] = at /\ \A n \in Nat : d[n] \in Nat /\ d[n + 1] = SmallerChild(heap, d[n])
<1> DEFINE Sinking(f) == f = [n \in Nat |-> IF n = 0 THEN at ELSE SmallerChild(heap, f[n - 1])]
<1>0. \A i \in Nat : SmallerChild(heap, i) \in Nat
  BY SmallerChildFacts DEF Valued
<1>1. PICK f \in [Nat -> Nat] : Sinking(f)
  <2> DEFINE Step == [n \in Nat |-> [s \in Nat |-> SmallerChild(heap, s)]]
  <2>1. PICK f \in [Nat -> Nat] : Iterates(f, at, Step)
    <3>1. Step \in [Nat -> [Nat -> Nat]]
      BY <1>0
    <3> HIDE DEF Step
    <3> QED BY <3>1, Iteration
  <2>2. \A k \in Nat \ {0} : Step[k][f[k - 1]] = SmallerChild(heap, f[k - 1])
    BY <2>1
  <2> HIDE DEF Step
  <2> QED BY <2>1, <2>2 DEF Iterates
<1>2. d = CHOOSE g : Sinking(g)
  BY DEF Descent, IsDescent
<1>4. Sinking(d)
  <2> HIDE DEF Sinking
  <2> QED BY <1>1, <1>2
<1>3. d[0] = at /\ \A n \in Nat : d[n + 1] = SmallerChild(heap, d[n])
  <2>1. \A n \in Nat : n + 1 \in Nat /\ n + 1 # 0 /\ n + 1 - 1 = n
    OBVIOUS
  <2> QED BY <1>4, <2>1
<1> DEFINE Typed == {n \in Nat : d[n] \in Nat}
<1>5. 0 \in Typed /\ \A n \in Nat : n \in Typed => n + 1 \in Typed
  BY <1>0, <1>3
<1>6. \A n \in Nat : n \in Typed
  <2> HIDE DEF Typed
  <2> QED BY <1>5, Induction
<1> QED BY <1>3, <1>6

LEMMA SinksFacts ==
  ASSUME NEW heap, Valued(heap),
         NEW at \in 1 .. Len(heap), NEW value,
         NEW d, IsDescent(d, heap, at), NEW s, IsSinks(s, heap, at, value)
  PROVE  /\ s \in 0 .. Len(heap)
         /\ \A k \in 0 .. s - 1 : d[k + 1] # 0 /\ ~(value <= heap[d[k + 1]].value)
         /\ d[s + 1] = 0 \/ value <= heap[d[s + 1]].value
<1> DEFINE Rests(n) == d[n + 1] = 0 \/ value <= heap[d[n + 1]].value
           Resting == {n \in 0 .. Len(heap) : Rests(n)}
<1>len. Len(heap) \in Nat
  BY DEF Valued
<1>at. at \in Nat
  BY <1>len
<1>0. d[0] = at
  BY <1>at, DescentRuns
<1>typed. \A n \in Nat : d[n] \in Nat
  BY <1>at, DescentRuns
<1>next. ASSUME NEW n \in Nat
      PROVE  d[n + 1] = SmallerChild(heap, d[n])
  BY <1>at, DescentRuns
<1>1. Resting # {}
  <2> DEFINE Deep == {n \in Nat : \/ \E k \in 0 .. n - 1 : d[k + 1] = 0
                                  \/ n < d[n] /\ d[n] <= Len(heap)}
  <2>1. 0 \in Deep
    BY <1>0, <1>len
  <2>2. ASSUME NEW n \in Nat, n \in Deep
        PROVE  n + 1 \in Deep
    <3>1. CASE \E k \in 0 .. n - 1 : d[k + 1] = 0
      BY <3>1
    <3>2. CASE n < d[n] /\ d[n] <= Len(heap)
      <4>0. n + 1 \in Nat
        OBVIOUS
      <4>1. d[n] \in Nat /\ d[n + 1] = SmallerChild(heap, d[n]) /\ d[n + 1] \in Nat
        BY <1>next, <1>typed, <4>0
      <4>2. CASE d[n + 1] = 0
        BY <4>2
      <4>3. CASE d[n + 1] # 0
        <5>1. d[n + 1] <= Len(heap) /\ (d[n + 1] = FirstChild(d[n]) \/ d[n + 1] = SecondChild(d[n]))
          <6>1. d[n + 1] \in 0 .. Len(heap)
          BY <4>1, SmallerChildFacts
          <6>2. d[n + 1] = FirstChild(d[n]) \/ d[n + 1] = SecondChild(d[n])
            BY <4>1, <4>3, SmallerChildFacts
          <6> QED BY <1>len, <6>1, <6>2
        <5>2. n + 1 < d[n + 1]
          BY <3>2, <4>1, <5>1 DEF FirstChild, SecondChild
        <5> QED BY <5>1, <5>2
      <4> QED BY <4>2, <4>3
    <3> QED BY <2>2, <3>1, <3>2
  <2>3. Len(heap) \in Deep
    <3> HIDE DEF Deep
    <3> QED BY <1>len, <2>1, <2>2, Induction
  <2>4. \E k \in 0 .. Len(heap) - 1 : d[k + 1] = 0
    <3>1. ~(Len(heap) < d[Len(heap)] /\ d[Len(heap)] <= Len(heap))
      BY <1>typed, <1>len
    <3> QED BY <2>3, <3>1
  <2>5. PICK k \in 0 .. Len(heap) - 1 : d[k + 1] = 0
    BY <2>4
  <2>6. k \in 0 .. Len(heap)
    BY <1>len
  <2> QED BY <2>5, <2>6
<1>2. \E n \in 0 .. Len(heap) : Rests(n) /\ \A k \in 0 .. n - 1 : ~Rests(k)
  <2>1. PICK n \in 0 .. Len(heap) : n \in Resting /\ \A k \in 0 .. n - 1 : k \notin Resting
    <3> HIDE DEF Resting
    <3>1. Resting \in SUBSET (0 .. Len(heap))
      BY DEF Resting
    <3> QED BY <1>1, <1>len, <3>1, First
  <2>2. n \in 0 .. Len(heap) /\ \A k \in 0 .. n - 1 : k \in 0 .. Len(heap)
    OBVIOUS
  <2> HIDE DEF Rests
  <2> QED BY <2>1, <2>2
<1>3. s = CHOOSE n \in 0 .. Len(heap) : Rests(n) /\ \A k \in 0 .. n - 1 : ~Rests(k)
  BY DEF IsSinks, Sinks, Iterations, IsDescent
<1> HIDE DEF Rests
<1>4. s \in 0 .. Len(heap) /\ Rests(s) /\ \A k \in 0 .. s - 1 : ~Rests(k)
  BY <1>2, <1>3
<1> QED BY <1>4 DEF Rests

\* Its places get larger and larger, each a child of the one before.
LEMMA Sinking ==
  ASSUME NEW heap, Valued(heap),
         NEW at \in 1 .. Len(heap), NEW d, IsDescent(d, heap, at),
         NEW s \in Nat, \A k \in 0 .. s - 1 : d[k + 1] # 0
  PROVE  /\ d[0] = at
         /\ \A k \in 0 .. s : d[k] \in 1 .. Len(heap)
         /\ \A k \in 0 .. s - 1 : d[k + 1] = SmallerChild(heap, d[k]) /\ Parent(d[k + 1]) = d[k]
         /\ \A j, k \in 0 .. s : j < k => d[j] < d[k]
<1>len. Len(heap) \in Nat
  BY DEF Valued
<1>at. at \in Nat
  BY <1>len
<1>0. d[0] = at
  BY <1>at, DescentRuns
<1>typed. \A n \in Nat : d[n] \in Nat
  BY <1>at, DescentRuns
<1>next. ASSUME NEW n \in Nat
      PROVE  d[n + 1] = SmallerChild(heap, d[n])
  BY <1>at, DescentRuns
<1> DEFINE Down == {k \in Nat : k <= s => /\ d[k] \in 1 .. Len(heap)
                                         /\ \A j \in 0 .. k - 1 : d[j] < d[k]}
<1>1. 0 \in Down
  BY <1>0, <1>len
<1>2. ASSUME NEW k \in 0 .. s - 1
      PROVE  /\ d[k + 1] = SmallerChild(heap, d[k])
             /\ d[k + 1] \in 1 .. Len(heap) /\ Parent(d[k + 1]) = d[k]
             /\ d[k] # 0 => d[k] < d[k + 1]
  <2>1. k \in Nat /\ k + 1 \in Nat
    OBVIOUS
  <2>2. d[k] \in Nat /\ d[k + 1] = SmallerChild(heap, d[k]) /\ d[k + 1] # 0
    BY <1>next, <1>typed, <2>1
  <2>3. /\ d[k + 1] \in 0 .. Len(heap)
        /\ d[k + 1] = FirstChild(d[k]) \/ d[k + 1] = SecondChild(d[k])
    BY <2>2, SmallerChildFacts
  <2> QED BY <2>2, <2>3 DEF Parent, FirstChild, SecondChild
<1>3. ASSUME NEW k \in Nat, k \in Down
      PROVE  k + 1 \in Down
  <2> SUFFICES ASSUME k + 1 <= s
               PROVE  d[k + 1] \in 1 .. Len(heap) /\ \A j \in 0 .. k : d[j] < d[k + 1]
    OBVIOUS
  <2>1. k \in 0 .. s - 1
    OBVIOUS
  <2>2. d[k] \in 1 .. Len(heap) /\ \A j \in 0 .. k - 1 : d[j] < d[k]
    BY <1>3
  <2>3. d[k + 1] \in 1 .. Len(heap) /\ d[k] < d[k + 1]
    BY <1>2, <2>1, <2>2
  <2>4. ASSUME NEW j \in 0 .. k
        PROVE  d[j] < d[k + 1]
    <3>1. CASE j = k
      BY <2>3, <3>1
    <3>2. CASE j # k
      <4>1. j \in 0 .. k - 1 /\ d[j] \in Nat
        BY <1>typed, <3>2
      <4> QED BY <2>2, <2>3, <4>1
    <3> QED BY <3>1, <3>2
  <2> QED BY <2>3, <2>4
<1>4. \A k \in Nat : k \in Down
  <2> HIDE DEF Down
  <2> QED BY <1>1, <1>3, Induction
<1>5. \A k \in 0 .. s : d[k] \in 1 .. Len(heap)
  BY <1>4
<1>6. \A j, k \in 0 .. s : j < k => d[j] < d[k]
  BY <1>4
<1> QED BY <1>0, <1>2, <1>5, <1>6

\* The node at a place below the last is removed: the last one, moved, takes its place in the
\* rest and sinks s places along d.
Removal(new, heap, at, rest, moved, d, s) ==
  /\ at \in 1 .. Len(heap) - 1 /\ new = RemoveNodeAt(heap, at)
  /\ rest = SubSeq(heap, 1, Len(heap) - 1) /\ moved = heap[Len(heap)]
  /\ d = Descent(rest, at) /\ s = Sinks(rest, at, moved.value)

\* Those it passed are one higher.
Sunk(new, rest, moved, d, s) ==
  /\ new[d[s]] = moved
  /\ \A k \in 0 .. s - 1 : new[d[k]] = rest[d[k + 1]]
  /\ \A i \in 1 .. Len(rest) : (\A k \in 0 .. s : i # d[k]) => new[i] = rest[i]

LEMMA RestFacts ==
  ASSUME NEW S, NEW heap \in Seq(S), NEW at, NEW new, NEW rest, NEW moved, NEW d, NEW s,
         \A node \in S : node.value \in Nat,
         Removal(new, heap, at, rest, moved, d, s)
  PROVE  /\ rest \in Seq(S) /\ Len(rest) \in Nat /\ Len(heap) = Len(rest) + 1
         /\ at \in 1 .. Len(rest)
         /\ \A i \in 1 .. Len(rest) : rest[i] = heap[i] /\ rest[i] \in S
         /\ Valued(rest) /\ moved \in S /\ moved.value \in Nat
<1>1. Len(heap) \in Nat /\ at \in 1 .. Len(heap) - 1 /\ rest = SubSeq(heap, 1, Len(heap) - 1)
      /\ moved = heap[Len(heap)]
  BY DEF Removal
<1>2. /\ rest \in Seq(S) /\ Len(rest) = Len(heap) - 1
      /\ \A i \in 1 .. Len(heap) - 1 : rest[i] = heap[i]
  BY <1>1
<1>3. \A i \in 1 .. Len(heap) : heap[i] \in S
  OBVIOUS
<1>4. DOMAIN rest = 1 .. Len(rest)
  BY <1>2
<1>5. /\ Len(heap) \in 1 .. Len(heap) /\ Len(rest) \in Nat /\ Len(heap) = Len(rest) + 1
      /\ at \in 1 .. Len(rest)
  BY <1>1, <1>2
<1>6. \A i \in 1 .. Len(rest) : rest[i] = heap[i] /\ rest[i] \in S
  BY <1>2, <1>3, <1>5
<1>7. moved \in S
  BY <1>1, <1>3, <1>5
<1> QED BY <1>2, <1>4, <1>5, <1>6, <1>7 DEF Valued

LEMMA PathDown ==
  ASSUME NEW S, NEW heap \in Seq(S), NEW at, NEW new, NEW rest, NEW moved, NEW d, NEW s,
         \A node \in S : node.value \in Nat,
         Removal(new, heap, at, rest, moved, d, s)
  PROVE  /\ IsDescent(d, rest, at) /\ s \in 0 .. Len(rest) /\ s \in Nat
         /\ \A k \in 0 .. s - 1 : d[k + 1] # 0 /\ ~(moved.value <= rest[d[k + 1]].value)
         /\ d[s + 1] = 0 \/ moved.value <= rest[d[s + 1]].value
         /\ d[0] = at
         /\ \A k \in 0 .. s : d[k] \in 1 .. Len(rest)
         /\ \A k \in 0 .. s - 1 : d[k + 1] = SmallerChild(rest, d[k]) /\ Parent(d[k + 1]) = d[k]
         /\ \A j, k \in 0 .. s : j < k => d[j] < d[k]
<1>1. at \in 1 .. Len(rest) /\ Valued(rest) /\ Len(rest) \in Nat
  BY RestFacts
<1>2. IsDescent(d, rest, at) /\ IsSinks(s, rest, at, moved.value)
  BY DEF IsDescent, IsSinks, Removal
<1>3. /\ s \in 0 .. Len(rest)
      /\ \A k \in 0 .. s - 1 : d[k + 1] # 0 /\ ~(moved.value <= rest[d[k + 1]].value)
      /\ d[s + 1] = 0 \/ moved.value <= rest[d[s + 1]].value
  BY <1>1, <1>2, SinksFacts
<1>4. s \in Nat
  BY <1>1, <1>3
<1>5. \A k \in 0 .. s - 1 : d[k + 1] # 0
  BY <1>3
<1>6. /\ d[0] = at
      /\ \A k \in 0 .. s : d[k] \in 1 .. Len(rest)
      /\ \A k \in 0 .. s - 1 : d[k + 1] = SmallerChild(rest, d[k]) /\ Parent(d[k + 1]) = d[k]
      /\ \A j, k \in 0 .. s : j < k => d[j] < d[k]
  BY <1>1, <1>2, <1>4, <1>5, Sinking
<1> QED BY <1>2, <1>3, <1>4, <1>6

LEMMA RemoveSinks ==
  ASSUME NEW S, NEW heap \in Seq(S), NEW at, NEW new, NEW rest, NEW moved, NEW d, NEW s,
         \A node \in S : node.value \in Nat,
         Removal(new, heap, at, rest, moved, d, s)
  PROVE  /\ new \in Seq(S) /\ Len(new) = Len(rest)
         /\ Sunk(new, rest, moved, d, s)
<1>1. /\ rest \in Seq(S) /\ Len(rest) \in Nat /\ Len(heap) = Len(rest) + 1
      /\ at \in 1 .. Len(rest) /\ moved \in S
      /\ \A i \in 1 .. Len(rest) : rest[i] = heap[i] /\ rest[i] \in S
  BY RestFacts
<1>2. /\ s \in Nat
      /\ \A k \in 0 .. s : d[k] \in 1 .. Len(rest)
      /\ \A k \in 0 .. s - 1 : d[k + 1] = SmallerChild(rest, d[k])
      /\ \A j, k \in 0 .. s : j < k => d[j] < d[k]
  BY PathDown
<1> DEFINE passed == {d[n] : n \in 0 .. s - 1}
<1> DEFINE Result(r, m, e, t) ==
             [i \in DOMAIN r |-> CASE i = e[t] -> m
                                   [] i \in {e[n] : n \in 0 .. t - 1} -> r[SmallerChild(r, i)]
                                   [] OTHER -> r[i]]
<1>3. new = Result(rest, moved, d, s)
  <2> DEFINE r == SubSeq(heap, 1, Len(heap) - 1)
             m == heap[Len(heap)]
  <2>1. at # Len(heap)
    BY <1>1
  <2>2. RemoveNodeAt(heap, at) = Result(r, m, Descent(r, at), Sinks(r, at, m.value))
    BY <2>1, Zenon DEF RemoveNodeAt
  <2> HIDE DEF Result
  <2> QED BY <2>2 DEF Removal
<1>4. DOMAIN rest = 1 .. Len(rest)
  BY <1>1
<1>5. new[d[s]] = moved /\ d[s] \in 1 .. Len(rest)
  <2>1. d[s] \in 1 .. Len(rest)
    BY <1>2
  <2>2. \A n \in 0 .. s - 1 : d[n] # d[s]
    <3>1. \A n \in 0 .. s - 1 : n \in 0 .. s /\ s \in 0 .. s /\ n < s
      BY <1>2
    <3> QED BY <1>2, <3>1
  <2> QED BY <1>3, <1>4, <2>1, <2>2
<1>6. ASSUME NEW k \in 0 .. s - 1
      PROVE  /\ d[k] \in 1 .. Len(rest) /\ d[k + 1] \in 1 .. Len(rest)
             /\ new[d[k]] = rest[d[k + 1]]
  <2>1. k \in 0 .. s /\ s \in 0 .. s /\ k + 1 \in 0 .. s /\ k < s
    BY <1>2
  <2>2. d[k] # d[s] /\ d[k] \in passed /\ d[k] \in 1 .. Len(rest) /\ d[k + 1] \in 1 .. Len(rest)
    BY <1>2, <2>1
  <2>3. new[d[k]] = rest[SmallerChild(rest, d[k])]
    BY <1>3, <1>4, <2>2
  <2> QED BY <1>2, <2>2, <2>3
<1>7. ASSUME NEW i \in 1 .. Len(rest), \A k \in 0 .. s : i # d[k]
      PROVE  new[i] = rest[i]
  <2>1. i # d[s] /\ i \notin passed
    BY <1>2, <1>7
  <2> QED BY <1>3, <1>4, <2>1
<1>8. new \in Seq(S) /\ Len(new) = Len(rest)
  <2>1. ASSUME NEW i \in 1 .. Len(rest)
        PROVE  new[i] \in S
    <3>1. CASE \A k \in 0 .. s : i # d[k]
      BY <1>1, <1>7, <3>1
    <3>2. ASSUME NEW k \in 0 .. s, i = d[k]
          PROVE  new[i] \in S
      <4>1. k = s \/ k \in 0 .. s - 1
        BY <1>2
      <4> QED BY <1>1, <1>5, <1>6, <3>2, <4>1
    <3> QED BY <3>1, <3>2
  <2>2. new = [i \in 1 .. Len(rest) |-> new[i]]
    BY <1>3, <1>4
  <2>3. new \in [1 .. Len(rest) -> S]
    BY <2>1, <2>2
  <2> QED BY <1>1, <2>3, FunctionIsSequence
<1> QED BY <1>5, <1>6, <1>7, <1>8 DEF Sunk

LEMMA RemoveMoves ==
  ASSUME NEW S, NEW heap \in Seq(S), NEW at, NEW new, NEW rest, NEW moved, NEW d, NEW s,
         \A node \in S : node.value \in Nat,
         Removal(new, heap, at, rest, moved, d, s),
         NEW old, old = [rest EXCEPT ![at] = moved]
  PROVE  s \in Nat /\ Path(d, s, 1 .. Len(rest)) /\ MovedAlong(new, old, d, s)
<1>1. /\ rest \in Seq(S) /\ Len(rest) \in Nat /\ at \in 1 .. Len(rest)
  BY RestFacts
<1>2. /\ s \in Nat /\ d[0] = at
      /\ \A k \in 0 .. s : d[k] \in 1 .. Len(rest)
      /\ \A j, k \in 0 .. s : j < k => d[j] < d[k]
  BY PathDown
<1>3. Sunk(new, rest, moved, d, s)
  BY RemoveSinks
<1>4. ASSUME NEW j \in 0 .. s, NEW k \in 0 .. s, d[j] = d[k]
      PROVE  j = k
  <2>1. j < k \/ k < j \/ j = k
    OBVIOUS
  <2>2. d[j] \in Nat /\ d[k] \in Nat
    BY <1>2
  <2> QED BY <1>2, <1>4, <2>1, <2>2
<1>5. Path(d, s, 1 .. Len(rest))
  BY <1>2, <1>4 DEF Path
<1>6. /\ DOMAIN old = 1 .. Len(rest) /\ old[at] = moved
      /\ \A i \in 1 .. Len(rest) : i # at => old[i] = rest[i]
  BY <1>1
<1>7. 0 \in 0 .. s /\ s \in 0 .. s /\ \A k \in 0 .. s - 1 : k + 1 \in 0 .. s /\ k + 1 # 0
  BY <1>2
<1>8. new[d[s]] = old[d[0]]
  BY <1>2, <1>3, <1>6 DEF Sunk
<1>9. ASSUME NEW k \in 0 .. s - 1
      PROVE  new[d[k]] = old[d[k + 1]]
  <2>1. d[k + 1] # at /\ d[k + 1] \in 1 .. Len(rest)
    BY <1>2, <1>4, <1>7
  <2> QED BY <1>3, <1>6, <2>1 DEF Sunk
<1>10. ASSUME NEW i \in 1 .. Len(rest), \A k \in 0 .. s : i # d[k]
       PROVE  new[i] = old[i]
  <2>1. i # at
    BY <1>2, <1>7, <1>10
  <2> QED BY <1>3, <1>6, <1>10, <2>1 DEF Sunk
<1> QED BY <1>2, <1>5, <1>6, <1>8, <1>9, <1>10 DEF MovedAlong

LEMMA RemoveTopOrders ==
  ASSUME NEW S, NEW heap \in Seq(S), NEW at, NEW new, NEW rest, NEW moved, NEW d, NEW s,
         \A node \in S : node.value \in Nat,
         Removal(new, heap, at, rest, moved, d, s), at = 1, Ordered(heap)
  PROVE  Ordered(new)
<1>1. /\ Len(rest) \in Nat /\ Len(heap) = Len(rest) + 1 /\ Valued(rest) /\ moved.value \in Nat
      /\ at \in 1 .. Len(rest)
      /\ \A i \in 1 .. Len(rest) : rest[i] = heap[i]
  BY RestFacts
<1>2. /\ s \in Nat /\ d[0] = 1
      /\ \A k \in 0 .. s - 1 : ~(moved.value <= rest[d[k + 1]].value)
      /\ d[s + 1] = 0 \/ moved.value <= rest[d[s + 1]].value
      /\ \A k \in 0 .. s : d[k] \in 1 .. Len(rest)
      /\ \A k \in 0 .. s - 1 : d[k + 1] = SmallerChild(rest, d[k]) /\ Parent(d[k + 1]) = d[k]
      /\ \A j, k \in 0 .. s : j < k => d[j] < d[k]
  BY PathDown
<1>3. d[s + 1] = SmallerChild(rest, d[s])
  <2>1. IsDescent(d, rest, at) /\ at \in Nat /\ s \in Nat
    BY <1>1, PathDown
  <2> QED BY <1>1, <2>1, DescentRuns
<1>4. /\ new[d[s]] = moved
      /\ \A k \in 0 .. s - 1 : new[d[k]] = rest[d[k + 1]]
      /\ \A i \in 1 .. Len(rest) : (\A k \in 0 .. s : i # d[k]) => new[i] = rest[i]
  BY RemoveSinks DEF Sunk
<1>5. DOMAIN new = 1 .. Len(rest)
  <2>1. new \in Seq(S) /\ Len(new) = Len(rest)
    BY RemoveSinks
  <2> QED BY <2>1
<1>6. \A i \in 1 .. Len(rest) : i > 1 =>
        Parent(i) \in 1 .. Len(rest) /\ rest[Parent(i)].value <= rest[i].value
  <2> TAKE i \in 1 .. Len(rest)
  <2> HAVE i > 1
  <2>1. Parent(i) \in 1 .. Len(rest) /\ i \in 1 .. Len(heap)
    BY <1>1 DEF Parent
  <2>2. DOMAIN heap = 1 .. Len(heap)
    OBVIOUS
  <2>3. heap[Parent(i)].value <= heap[i].value
    BY <2>1, <2>2 DEF Ordered
  <2> QED BY <1>1, <2>1, <2>3
<1>7. \A i \in 1 .. Len(rest) : rest[i].value \in Nat
  BY <1>1 DEF Valued
<1>8. 0 \in 0 .. s /\ s \in 0 .. s /\ \A k \in 0 .. s - 1 : k \in 0 .. s /\ k + 1 \in 0 .. s
  BY <1>2
<1>9. \A k \in 0 .. s : k = s \/ k \in 0 .. s - 1
  BY <1>2
\* The smaller child of a place on the path.
<1>10. ASSUME NEW k \in 0 .. s, NEW c, c = SmallerChild(rest, d[k]),
              NEW i \in 1 .. Len(rest), Parent(i) = d[k]
       PROVE  c # 0 /\ rest[c].value <= rest[i].value
  <2>1. d[k] \in Nat /\ (i = FirstChild(d[k]) \/ i = SecondChild(d[k]))
    <3>1. d[k] \in Nat /\ i \in Nat /\ d[k] = i \div 2
      BY <1>2, <1>10 DEF Parent
    <3>2. i = 2 * (i \div 2) \/ i = 2 * (i \div 2) + 1
      BY <3>1
    <3> QED BY <3>1, <3>2 DEF FirstChild, SecondChild
  <2> QED BY <1>1, <1>10, <2>1, SmallerChildFacts
\* Where a node on the path came from, and where one beside it is.
<1>11. ASSUME NEW i \in 1 .. Len(rest), i > 1, NEW k \in 0 .. s, Parent(i) = d[k],
              NEW l \in 0 .. s, i = d[l]
       PROVE  l = k + 1
  <2>1. l # 0
    BY <1>2, <1>11
  <2>2. l - 1 \in 0 .. s - 1 /\ l - 1 + 1 = l /\ l - 1 \in 0 .. s
    BY <1>2, <2>1
  <2>3. Parent(i) = d[l - 1]
    BY <1>2, <1>11, <2>2
  <2>4. ~(l - 1 < k) /\ ~(k < l - 1)
    <3>1. d[k] \in Nat /\ d[l - 1] \in Nat /\ d[k] = d[l - 1]
      BY <1>2, <1>11, <2>2, <2>3
    <3> QED BY <1>2, <2>2, <3>1
  <2> QED BY <2>2, <2>4
<1> SUFFICES ASSUME NEW i \in 1 .. Len(rest), i > 1
             PROVE  new[Parent(i)].value <= new[i].value
  BY <1>5 DEF Ordered
<1>12. CASE \A k \in 0 .. s : Parent(i) # d[k]
  <2>1. \A k \in 0 .. s : i # d[k]
    <3> SUFFICES ASSUME NEW k \in 0 .. s, i = d[k] PROVE FALSE
      OBVIOUS
    <3>1. k # 0
      BY <1>2
    <3>2. k - 1 \in 0 .. s - 1 /\ k - 1 + 1 = k /\ k - 1 \in 0 .. s
      BY <1>2, <3>1
    <3> QED BY <1>2, <1>12, <3>2
  <2> QED BY <1>4, <1>6, <1>12, <2>1
<1>13. CASE Parent(i) = d[s]
  <2>1. \A l \in 0 .. s : i # d[l]
    <3> SUFFICES ASSUME NEW l \in 0 .. s, i = d[l] PROVE FALSE
      OBVIOUS
    <3>1. l = s + 1
      BY <1>8, <1>11, <1>13
    <3> QED BY <1>2, <3>1
  <2>2. new[i] = rest[i] /\ new[Parent(i)] = moved
    BY <1>4, <1>13, <2>1
  <2>3. d[s + 1] # 0 /\ rest[d[s + 1]].value <= rest[i].value
    BY <1>3, <1>8, <1>10, <1>13
  <2>4. d[s + 1] \in 1 .. Len(rest)
    <3>1. d[s] \in Nat
      BY <1>2, <1>8
    <3>2. d[s + 1] \in 0 .. Len(rest)
      BY <1>1, <1>3, <3>1, SmallerChildFacts
    <3> QED BY <1>1, <2>3, <3>2
  <2>5. rest[d[s + 1]].value \in Nat /\ rest[i].value \in Nat
    BY <1>7, <2>4
  <2> QED BY <1>1, <1>2, <2>2, <2>3, <2>5
<1>14. ASSUME NEW k \in 0 .. s - 1, Parent(i) = d[k]
       PROVE  new[Parent(i)].value <= new[i].value
  <2>1. new[Parent(i)] = rest[d[k + 1]] /\ d[k + 1] \in 1 .. Len(rest)
    BY <1>2, <1>4, <1>8, <1>14
  <2>2. d[k + 1] = SmallerChild(rest, d[k])
    BY <1>2
  <2>3. CASE i = d[k + 1]
    <3>1. CASE k + 1 = s
      <4>1. new[i] = moved
        BY <1>4, <2>3, <3>1
      <4> QED BY <1>1, <1>2, <1>7, <2>1, <4>1
    <3>2. CASE k + 1 # s
      <4>1. k + 1 \in 0 .. s - 1
        BY <1>2, <3>2
      <4>2. /\ new[i] = rest[d[k + 1 + 1]] /\ d[k + 1 + 1] \in 1 .. Len(rest)
            /\ Parent(d[k + 1 + 1]) = d[k + 1]
        BY <1>2, <1>4, <1>8, <2>3, <4>1
      <4>3. d[k + 1 + 1] > 1
        <5>1. k + 1 + 1 \in 0 .. s /\ 0 < k + 1 + 1
          BY <4>1, <1>8
        <5> QED BY <1>2, <1>8, <4>2, <5>1
      <4> QED BY <1>6, <2>1, <4>2, <4>3
    <3> QED BY <3>1, <3>2
  <2>4. CASE i # d[k + 1]
    <3>1. \A l \in 0 .. s : i # d[l]
      BY <1>8, <1>11, <1>14, <2>4
    <3>2. new[i] = rest[i]
      BY <1>4, <3>1
    <3>3. rest[d[k + 1]].value <= rest[i].value
      BY <1>8, <1>10, <1>14, <2>2
    <3> QED BY <2>1, <3>2, <3>3
  <2> QED BY <2>3, <2>4
<1> QED BY <1>9, <1>12, <1>13, <1>14

\* The top of an ordered heap has the least value.
LEMMA TopIsLeast ==
  ASSUME NEW heap, Valued(heap), Ordered(heap)
  PROVE  \A i \in 1 .. Len(heap) : heap[1].value <= heap[i].value
<1> DEFINE Above == {n \in Nat : \A i \in 1 .. Len(heap) :
                                   i <= n => heap[1].value <= heap[i].value}
<1>1. 0 \in Above
  BY DEF Valued
<1>2. ASSUME NEW n \in Nat, n \in Above
      PROVE  n + 1 \in Above
  <2> SUFFICES ASSUME NEW i \in 1 .. Len(heap), i = n + 1
               PROVE  heap[1].value <= heap[i].value
    BY <1>2 DEF Valued
  <2>1. CASE i = 1
    BY <2>1 DEF Valued
  <2>2. CASE i > 1
    <3>1. Parent(i) \in 1 .. Len(heap) /\ Parent(i) <= n
      BY <2>2 DEF Parent, Valued
    <3>2. heap[1].value <= heap[Parent(i)].value
      BY <1>2, <3>1
    <3>3. heap[Parent(i)].value <= heap[i].value
      BY <2>2 DEF Ordered, Valued
    <3>4. 1 \in 1 .. Len(heap) /\ \A j \in 1 .. Len(heap) : heap[j].value \in Nat
      BY DEF Valued
    <3> QED BY <3>1, <3>2, <3>3, <3>4
  <2> QED BY <2>1, <2>2 DEF Valued
<1>3. Len(heap) \in Above
  <2> HIDE DEF Above
  <2> QED BY <1>1, <1>2, Induction DEF Valued
<1> QED BY <1>3 DEF Valued

-------------------------------------------------------------------------------
(* What adding and removing do to the contents of an array. *)

LEMMA AddNodeTyped ==
  ASSUME NEW S, NEW heap \in Seq(S), NEW content, NEW value, Node(content, value) \in S
  PROVE  AddNode(heap, content, value) \in Seq(S)
         /\ Len(AddNode(heap, content, value)) = Len(heap) + 1
<1>1. PICK last \in Nat \ {0} : Len(heap) + 1 = last
  OBVIOUS
<1> QED BY <1>1, AddNodeRises

LEMMA AddNodeOnce ==
  ASSUME NEW S, NEW heap \in Seq(S), NEW content, NEW value, Node(content, value) \in S,
         NEW new, new = AddNode(heap, content, value),
         NEW C, OnceIn(heap, C), content \in C => content \notin Contents(heap)
  PROVE  OnceIn(new, C) /\ Contents(new) = Contents(heap) \cup {content}
<1>1. PICK last \in Nat \ {0} : Len(heap) + 1 = last
  OBVIOUS
<1>2. PICK old : old = Append(heap, Node(content, value))
  OBVIOUS
<1>3. PICK r : r = Rises(heap, value)
  OBVIOUS
<1>4. new \in Seq(S) /\ Len(new) = last
  BY <1>1, <1>3, AddNodeRises
<1>5. r \in Nat /\ Path(Up(last), r, 1 .. last) /\ MovedAlong(new, old, Up(last), r)
  BY <1>1, <1>2, <1>3, AddNodeMoves
<1>6. /\ DOMAIN old = 1 .. last /\ old[last] = Node(content, value)
      /\ \A i \in 1 .. last : i # last => i \in DOMAIN heap /\ old[i] = heap[i]
      /\ DOMAIN heap \subseteq 1 .. last /\ last \notin DOMAIN heap
  BY <1>1, <1>2
<1>7. Rearranges(new, old)
  <2>1. DOMAIN new = DOMAIN old
    BY <1>4, <1>6
  <2> QED BY <1>5, <1>6, <2>1, MovedRearranges
<1>8. old[last].content = content
  BY <1>6 DEF Node
<1>9. OnceIn(old, C)
  <2>1. content \in C => \A i \in DOMAIN heap : heap[i].content # content
    BY DEF Contents
  <2> QED BY <1>6, <1>8, <2>1 DEF OnceIn
<1>10. Contents(old) = Contents(heap) \cup {content}
  <2>1. last \in DOMAIN old
    BY <1>6
  <2>2. \A i \in DOMAIN heap : i \in DOMAIN old /\ old[i].content = heap[i].content
    BY <1>6
  <2>3. \A i \in DOMAIN old : i = last \/ (i \in DOMAIN heap /\ old[i].content = heap[i].content)
    BY <1>6
  <2> QED BY <1>8, <2>1, <2>2, <2>3 DEF Contents
<1>11. Contents(new) = Contents(old)
  BY <1>7 DEF Rearranges, Contents
<1> QED BY <1>7, <1>9, <1>10, <1>11, StillOnceIn

LEMMA RemoveNodeAtTyped ==
  ASSUME NEW S, NEW heap \in Seq(S), \A node \in S : node.value \in Nat,
         NEW at \in 1 .. Len(heap), NEW new, new = RemoveNodeAt(heap, at)
  PROVE  new \in Seq(S) /\ Len(new) = Len(heap) - 1
<1>1. CASE at = Len(heap)
  BY <1>1 DEF RemoveNodeAt
<1>2. CASE at # Len(heap)
  <2>1. PICK rest, moved : rest = SubSeq(heap, 1, Len(heap) - 1) /\ moved = heap[Len(heap)]
    OBVIOUS
  <2>2. PICK d, s : d = Descent(rest, at) /\ s = Sinks(rest, at, moved.value)
    OBVIOUS
  <2>3. at \in 1 .. Len(heap) - 1
    BY <1>2
  <2>4. Removal(new, heap, at, rest, moved, d, s)
    BY <2>1, <2>2, <2>3 DEF Removal
  <2>5. new \in Seq(S) /\ Len(new) = Len(rest)
    BY <2>4, RemoveSinks
  <2>6. Len(heap) = Len(rest) + 1 /\ Len(rest) \in Nat
    BY <2>4, RestFacts
  <2> QED BY <2>5, <2>6
<1> QED BY <1>1, <1>2

\* In an array of equal values a new node stays where it is put, behind all others.
LEMMA AddNodeBehind ==
  ASSUME NEW S, NEW heap \in Seq(S), NEW content, NEW value, Node(content, value) \in S,
         value \in Nat, \A i \in 1 .. Len(heap) : heap[i].value = value,
         NEW new, new = AddNode(heap, content, value)
  PROVE  \A i \in 1 .. Len(heap) : i \in DOMAIN new /\ new[i] = heap[i]
<1>1. PICK last \in Nat \ {0} : Len(heap) + 1 = last
  OBVIOUS
<1>2. PICK r : r = Rises(heap, value)
  OBVIOUS
<1>3. /\ r \in 0 .. last
      /\ \A k \in 0 .. r - 1 :
           Ancestor(last, k) # 1 /\ ~(heap[Ancestor(last, k + 1)].value <= value)
  BY <1>1, <1>2, RisesFacts
<1>4. Ancestor(last, 0) = last
  BY AncestorRuns
<1>5. DOMAIN new = 1 .. last /\ Risen(new, heap, Node(content, value), last, r)
  BY <1>1, <1>2, AddNodeRises
<1>6. r = 0
  <2> SUFFICES ASSUME r # 0 PROVE FALSE
    OBVIOUS
  <2>1. 0 \in 0 .. r - 1 /\ 0 + 1 = 1
    BY <1>3
  <2>2. ~(heap[Ancestor(last, 0 + 1)].value <= value)
    BY <1>3, <2>1
  <2>3. Ancestor(last, 0 + 1) \in 1 .. Len(heap)
    BY <1>5, <2>1 DEF Risen
  <2> QED BY <2>2, <2>3
<1>7. \A i \in 1 .. last : i # last => i \in 1 .. Len(heap) /\ new[i] = heap[i]
  <2>1. \A k \in 0 .. r : Ancestor(last, k) = last
    BY <1>4, <1>6
  <2> QED BY <1>5, <2>1 DEF Risen
<1>8. \A i \in 1 .. Len(heap) : i \in 1 .. last /\ i # last
  BY <1>1
<1> QED BY <1>5, <1>7, <1>8

\* A removal leaves the places above the removed node as they are.
LEMMA RemoveNodeAtOnce ==
  ASSUME NEW S, NEW heap \in Seq(S), \A node \in S : node.value \in Nat,
         NEW at \in 1 .. Len(heap), NEW new, new = RemoveNodeAt(heap, at),
         NEW C, OnceIn(heap, C)
  PROVE  /\ OnceIn(new, C)
         /\ heap[at].content \in C => heap[at].content \notin Contents(new)
         /\ Contents(new) \subseteq Contents(heap)
         /\ Contents(heap) \ {heap[at].content} \subseteq Contents(new)
         /\ \A i \in 1 .. at - 1 : i \in DOMAIN new /\ new[i] = heap[i]
<1>0. DOMAIN heap = 1 .. Len(heap) /\ Len(heap) \in Nat
  OBVIOUS
<1>1. CASE at = Len(heap)
  <2>1. /\ DOMAIN new = 1 .. Len(heap) - 1
        /\ \A i \in 1 .. Len(heap) - 1 : new[i] = heap[i]
    BY <1>1 DEF RemoveNodeAt
  <2>2. \A i \in 1 .. Len(heap) : i = at \/ i \in 1 .. Len(heap) - 1
    BY <1>1
  <2>3. \A i \in 1 .. Len(heap) - 1 : i \in DOMAIN heap /\ i # at
    <3>1. Len(heap) \in Nat
      OBVIOUS
    <3>2. \A i \in 1 .. Len(heap) - 1 : i \in 1 .. Len(heap) /\ i # Len(heap)
      BY ONLY <3>1
    <3> QED BY <1>0, <1>1, <3>2
  <2>4. OnceIn(new, C)
    BY <2>1, <2>3 DEF OnceIn
  <2>5. ASSUME heap[at].content \in C, NEW i \in 1 .. Len(heap) - 1
        PROVE  heap[i].content # heap[at].content
    BY <1>0, <2>3, <2>5 DEF OnceIn
  <2>6. /\ heap[at].content \in C => heap[at].content \notin Contents(new)
        /\ Contents(new) \subseteq Contents(heap)
        /\ Contents(heap) \ {heap[at].content} \subseteq Contents(new)
    <3>1. /\ Contents(new) = {heap[i].content : i \in 1 .. Len(heap) - 1}
          /\ Contents(heap) = {heap[i].content : i \in 1 .. Len(heap)}
      BY ONLY <1>0, <2>1 DEF Contents
    <3>2. \A i \in 1 .. Len(heap) - 1 : i \in 1 .. Len(heap)
      BY <1>0, <2>3
    <3> QED BY ONLY <2>2, <2>5, <3>1, <3>2
  <2> QED BY <1>1, <2>1, <2>4, <2>6
<1>2. CASE at # Len(heap)
  <2>1. PICK rest, moved : rest = SubSeq(heap, 1, Len(heap) - 1) /\ moved = heap[Len(heap)]
    OBVIOUS
  <2>2. PICK d, s : d = Descent(rest, at) /\ s = Sinks(rest, at, moved.value)
    OBVIOUS
  <2>3. at \in 1 .. Len(heap) - 1
    BY <1>2
  <2>4. Removal(new, heap, at, rest, moved, d, s)
    BY <2>1, <2>2, <2>3 DEF Removal
  <2>5. /\ rest \in Seq(S) /\ Len(rest) \in Nat /\ Len(heap) = Len(rest) + 1
        /\ \A i \in 1 .. Len(rest) : rest[i] = heap[i]
    BY <2>4, RestFacts
  <2>6. PICK old : old = [rest EXCEPT ![at] = moved]
    OBVIOUS
  <2>7. /\ DOMAIN old = 1 .. Len(rest) /\ old[at] = heap[Len(heap)] /\ at \in 1 .. Len(rest)
        /\ \A i \in 1 .. Len(rest) : i # at => old[i] = heap[i]
    <3>1. at \in 1 .. Len(rest) /\ moved = heap[Len(heap)]
      BY <2>1, <2>3, <2>5
    <3>2. DOMAIN rest = 1 .. Len(rest)
      BY <2>5
    <3> QED BY <2>5, <2>6, <3>1, <3>2
  <2>8. new \in Seq(S) /\ Len(new) = Len(rest)
    BY <2>4, RemoveSinks
  <2>9. s \in Nat /\ Path(d, s, 1 .. Len(rest)) /\ MovedAlong(new, old, d, s)
    BY <2>4, <2>6, RemoveMoves
  <2>10. DOMAIN new = DOMAIN old
    BY <2>7, <2>8
  <2>11. Rearranges(new, old)
    BY <2>7, <2>9, <2>10, MovedRearranges
  <2>12. \A i \in 1 .. Len(rest) : i \in DOMAIN heap /\ i # Len(heap)
    BY <1>0, <2>5
  <2>13. Len(heap) \in DOMAIN heap /\ at \in DOMAIN heap
    BY <1>0, <2>5
  <2>14. OnceIn(old, C)
    BY <2>7, <2>12, <2>13 DEF OnceIn
  <2>15. /\ heap[at].content \in C => heap[at].content \notin Contents(old)
         /\ Contents(old) \subseteq Contents(heap)
         /\ Contents(heap) \ {heap[at].content} \subseteq Contents(old)
    <3>1. \A i \in DOMAIN heap : i = at \/ i = Len(heap) \/ (i # at /\ i \in 1 .. Len(rest))
      BY <1>0, <2>5
    <3>2. ASSUME heap[at].content \in C, NEW i \in DOMAIN heap, i # at
          PROVE  heap[i].content # heap[at].content
      BY <2>13, <3>2 DEF OnceIn
    <3>3. \A i \in DOMAIN old : old[i] = heap[Len(heap)] \/ (i # at /\ old[i] = heap[i])
      BY <2>7
    <3>4. ASSUME NEW c \in Contents(old)
          PROVE  c \in Contents(heap) /\ (c \in C => c # heap[at].content)
      <4>1. PICK i \in DOMAIN old : c = old[i].content
        BY DEF Contents
      <4>2. i \in DOMAIN heap
        BY <2>7, <2>12
      <4> QED BY <1>2, <2>13, <3>2, <3>3, <4>1, <4>2 DEF Contents
    <3>5. ASSUME NEW c \in Contents(heap) \ {heap[at].content}
          PROVE  c \in Contents(old)
      <4>1. PICK i \in DOMAIN heap : c = heap[i].content
        BY DEF Contents
      <4> QED BY <2>7, <3>1, <4>1 DEF Contents
    <3> QED BY <3>4, <3>5
  <2>16. Contents(new) = Contents(old)
    BY <2>11 DEF Rearranges, Contents
  <2>17. ASSUME NEW i \in 1 .. at - 1
         PROVE  i \in DOMAIN new /\ new[i] = heap[i]
    <3>1. i \in 1 .. Len(rest) /\ i # at /\ i < at
      BY <2>3, <2>5
    <3>2. \A k \in 0 .. s : at <= d[k]
      <4>1. d[0] = at /\ \A k \in 0 .. s : d[k] \in 1 .. Len(rest)
        BY <2>4, PathDown
      <4>2. \A j, k \in 0 .. s : j < k => d[j] < d[k]
        BY <2>4, PathDown
      <4>3. TAKE k \in 0 .. s
      <4>4. 0 \in 0 .. s /\ (k = 0 \/ 0 < k)
        BY <2>9
      <4>5. CASE k = 0
        BY <2>3, <2>5, <4>1, <4>5
      <4>6. CASE 0 < k
        <5>1. d[0] < d[k] /\ d[k] \in Nat /\ at \in Nat
          BY <2>3, <4>1, <4>2, <4>4, <4>6
        <5> QED BY <4>1, <5>1
      <4> QED BY <4>4, <4>5, <4>6
    <3>3. \A k \in 0 .. s : i # d[k]
      <4>1. at \in Nat /\ \A k \in 0 .. s : d[k] \in Nat
        BY <2>9 DEF Path
      <4> QED BY <3>1, <3>2, <4>1
    <3>4. new[i] = old[i]
      BY <2>7, <2>9, <3>1, <3>3 DEF MovedAlong
    <3> QED BY <2>7, <2>10, <3>1, <3>4
  <2> QED BY <2>11, <2>14, <2>15, <2>16, <2>17, StillOnceIn
<1> QED BY <1>1, <1>2
===============================================================================
