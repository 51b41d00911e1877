-------------------------- MODULE MemClusterProofs ---------------------------
(***************************************************************************)
(* For any tasks, pools, sizes of blocks and memory: the blocks that       *)
(* memory_cluster_init makes do not overlap; no call of the memory cluster *)
(* leaves a lock behind but those of the pools it found empty; the         *)
(* scheduler can meet a call in progress, or a lock that is taken, only    *)
(* after calls overlapped or a lock was left behind; and as long as it has *)
(* not, every block is in one place and every word one task's.             *)
(***************************************************************************)
EXTENDS MemCluster, DataTheorems, FiniteSetTheorems, TLAPS

-------------------------------------------------------------------------------
(* The loop of memory_cluster_init. *)

LEMMA Sizes ==
  /\ numberOfPools \in Nat \ {0} /\ structSize = 3
  /\ \A p \in 1 .. numberOfPools : BlockSize[p] \in Nat \ {0}
BY LayoutAssumption DEF numberOfPools, structSize

States == [memoryArray : Nat, words : Nat, counter : Nat, numSkips : Nat,
           pools : [1 .. numberOfPools -> Seq(Nat)]]

LEMMA PassTyped == ASSUME NEW s \in States PROVE Pass(s) \in States
<1> DEFINE p == (s.counter % numberOfPools) + 1
           required == requiredMemoryForBlock(p)
<1>1. p \in 1 .. numberOfPools
  BY Sizes DEF States
<1>2. required \in Nat
  BY <1>1, Sizes DEF requiredMemoryForBlock
<1>3. s.pools[p] \in Seq(Nat) /\ s.memoryArray + structSize \in Nat
  BY <1>1, Sizes DEF States
<1> HIDE DEF p, required
<1>4. [s.pools EXCEPT ![p] = <<s.memoryArray + structSize>> \o @]
        \in [1 .. numberOfPools -> Seq(Nat)]
  BY <1>1, <1>3 DEF States
<1>5. required <= s.words => s.words - required \in Nat
  BY <1>2 DEF States
<1>7. CASE s.words # 0 /\ required <= s.words
  BY <1>2, <1>4, <1>5, <1>7, Sizes, SMTT(30) DEF Pass, p, required, States
<1>8. CASE ~(s.words # 0 /\ required <= s.words)
  <2>1. Pass(s) = s \/ Pass(s) = [s EXCEPT !.counter = @ + 1, !.numSkips = @ + 1]
    BY <1>8 DEF Pass, p, required
  <2>2. [s EXCEPT !.counter = @ + 1, !.numSkips = @ + 1] \in States
    <3>1. \A x, y \in Nat : [s EXCEPT !.counter = x, !.numSkips = y] \in States
      BY DEF States
    <3>2. s.counter + 1 \in Nat /\ s.numSkips + 1 \in Nat
      BY DEF States
    <3> QED BY <3>1, <3>2
  <2> QED BY <2>1, <2>2
<1> QED BY <1>7, <1>8

LEMMA BeginTyped == Begin \in States
BY LayoutAssumption DEF Begin, States

LEMMA LoopRuns == Loop[0] = Begin /\ \A n \in Nat : Loop[n + 1] = Pass(Loop[n])
<1> DEFINE Step == [n \in Nat |-> [s \in States |-> Pass(s)]]
<1>1. PICK f \in [Nat -> States] : Iterates(f, Begin, Step)
  <2>1. Step \in [Nat -> [States -> States]]
    BY PassTyped
  <2> HIDE DEF Step
  <2> QED BY <2>1, BeginTyped, Iteration
<1>2. f = [n \in Nat |-> IF n = 0 THEN Begin ELSE Pass(f[n - 1])]
  BY <1>1 DEF Iterates
<1>3. Loop = [n \in Nat |-> IF n = 0 THEN Begin ELSE Pass(Loop[n - 1])]
  BY <1>2 DEF Loop
<1>4. ASSUME NEW n \in Nat
      PROVE  Loop[n + 1] = Pass(Loop[n])
  <2>1. n + 1 \in Nat /\ n + 1 # 0 /\ n + 1 - 1 = n
    OBVIOUS
  <2> QED BY <1>3, <2>1
<1> QED BY <1>3, <1>4

\* The blocks made so far lie behind each other in the memory that is used up.
Sound(s) ==
  /\ s \in States /\ s.memoryArray + s.words = MemorySize
  /\ \A p \in 1 .. numberOfPools : \A i \in 1 .. Len(s.pools[p]) :
       /\ structSize < s.pools[p][i] /\ s.pools[p][i] + BlockSize[p] <= s.memoryArray
       /\ \A q \in 1 .. numberOfPools : \A j \in 1 .. Len(s.pools[q]) :
            \/ p = q /\ i = j
            \/ s.pools[p][i] + BlockSize[p] + structSize <= s.pools[q][j]
            \/ s.pools[q][j] + BlockSize[q] + structSize <= s.pools[p][i]

LEMMA PassKeepsSound == ASSUME NEW s, Sound(s), 0 < s.memoryArray PROVE Sound(Pass(s)) /\ 0 < Pass(s).memoryArray
<1> DEFINE p == (s.counter % numberOfPools) + 1
           required == requiredMemoryForBlock(p)
           made == s.memoryArray + structSize
           new == [s.pools EXCEPT ![p] = <<made>> \o @]
<1>1. p \in 1 .. numberOfPools
  BY Sizes DEF Sound, States
<1>2. required = 3 + BlockSize[p] /\ BlockSize[p] \in Nat \ {0} /\ made = s.memoryArray + 3
  BY <1>1, Sizes DEF requiredMemoryForBlock
<1>3. Pass(s) \in States
  BY PassTyped DEF Sound
<1>4. CASE Pass(s).pools = s.pools /\ Pass(s).memoryArray = s.memoryArray /\ Pass(s).words = s.words
  BY <1>3, <1>4 DEF Sound
<1>5. CASE required <= s.words /\ Pass(s).pools = new
           /\ Pass(s).memoryArray = s.memoryArray + required /\ Pass(s).words = s.words - required
  <2>1. s.memoryArray \in Nat /\ s.words \in Nat /\ s.memoryArray + s.words = MemorySize
        /\ s.pools \in [1 .. numberOfPools -> Seq(Nat)]
    BY DEF Sound, States
  <2> DEFINE old(q, i) == IF q = p THEN i - 1 ELSE i
  <2>2. ASSUME NEW q \in 1 .. numberOfPools, NEW i \in 1 .. Len(new[q])
        PROVE  \/ q = p /\ i = 1 /\ new[q][i] = made
               \/ old(q, i) \in 1 .. Len(s.pools[q]) /\ new[q][i] = s.pools[q][old(q, i)]
    <3>1. s.pools[q] \in Seq(Nat)
      BY <2>1
    <3>2. CASE q = p
      <4>1. new[q] = <<made>> \o s.pools[q]
        BY <2>1, <3>2
      <4>2. Len(new[q]) = Len(s.pools[q]) + 1 /\ new[q][1] = made
            /\ \A k \in 1 .. Len(s.pools[q]) : new[q][k + 1] = s.pools[q][k]
        <5> HIDE DEF new, made
        <5> QED BY <3>1, <4>1
      <4>3. CASE i = 1
        BY <3>2, <4>2, <4>3
      <4>4. CASE i # 1
        <5>1. i - 1 \in 1 .. Len(s.pools[q]) /\ i - 1 + 1 = i
          BY <3>1, <4>2, <4>4
        <5> HIDE DEF new, made
        <5> QED BY <3>2, <4>2, <5>1
      <4> QED BY <4>3, <4>4
    <3>3. CASE q # p
      BY <2>1, <3>3
    <3> QED BY <3>2, <3>3
  <2> HIDE DEF new, made, p, required
  <2>3. ASSUME NEW q \in 1 .. numberOfPools, NEW i \in 1 .. Len(s.pools[q])
        PROVE  s.pools[q][i] \in Nat /\ structSize < s.pools[q][i]
               /\ s.pools[q][i] + BlockSize[q] <= s.memoryArray /\ BlockSize[q] \in Nat
    BY <2>1, Sizes, SMTT(30) DEF Sound
  <2>4. ASSUME NEW q \in 1 .. numberOfPools, NEW i \in 1 .. Len(new[q])
        PROVE  structSize < new[q][i] /\ new[q][i] + BlockSize[q] <= s.memoryArray + required
    <3>1. CASE q = p /\ i = 1 /\ new[q][i] = made
      BY <1>2, <2>1, <3>1, Sizes
    <3>2. CASE old(q, i) \in 1 .. Len(s.pools[q]) /\ new[q][i] = s.pools[q][old(q, i)]
      <4> HIDE DEF old
      <4>1. structSize < new[q][i] /\ new[q][i] + BlockSize[q] <= s.memoryArray
            /\ new[q][i] \in Nat /\ BlockSize[q] \in Nat
        BY <2>3, <3>2
      <4> QED BY <1>2, <2>1, <4>1, SMTT(30)
    <3> QED BY <2>2, <3>1, <3>2
  <2>5. ASSUME NEW q \in 1 .. numberOfPools, NEW i \in 1 .. Len(new[q]),
               NEW r \in 1 .. numberOfPools, NEW j \in 1 .. Len(new[r])
        PROVE  \/ q = r /\ i = j
               \/ new[q][i] + BlockSize[q] + structSize <= new[r][j]
               \/ new[r][j] + BlockSize[r] + structSize <= new[q][i]
    <3>1. CASE q = p /\ i = 1 /\ new[q][i] = made
      <4>1. CASE r = p /\ j = 1
        BY <3>1, <4>1
      <4>2. CASE old(r, j) \in 1 .. Len(s.pools[r]) /\ new[r][j] = s.pools[r][old(r, j)]
        <5> HIDE DEF old
        <5>1. new[r][j] + BlockSize[r] <= s.memoryArray
              /\ new[r][j] \in Nat /\ BlockSize[r] \in Nat
          BY <2>3, <4>2
        <5>2. s.memoryArray \in Nat /\ new[q][i] = s.memoryArray + 3 /\ structSize = 3
          BY <1>2, <2>1, <3>1, Sizes
        <5> QED BY <5>1, <5>2
      <4> QED BY <2>2, <4>1, <4>2
    <3>2. CASE old(q, i) \in 1 .. Len(s.pools[q]) /\ new[q][i] = s.pools[q][old(q, i)]
      <4>1. CASE r = p /\ j = 1 /\ new[r][j] = made
        <5> HIDE DEF old
        <5>1. new[q][i] + BlockSize[q] <= s.memoryArray
              /\ new[q][i] \in Nat /\ BlockSize[q] \in Nat
          BY <2>3, <3>2
        <5>2. s.memoryArray \in Nat /\ new[r][j] = s.memoryArray + 3 /\ structSize = 3
          BY <1>2, <2>1, <4>1, Sizes
        <5> QED BY <5>1, <5>2
      <4>2. CASE old(r, j) \in 1 .. Len(s.pools[r]) /\ new[r][j] = s.pools[r][old(r, j)]
        <5>1. \/ q = r /\ old(q, i) = old(r, j)
              \/ new[q][i] + BlockSize[q] + structSize <= new[r][j]
              \/ new[r][j] + BlockSize[r] + structSize <= new[q][i]
          <6> HIDE DEF old
          <6> QED BY <3>2, <4>2 DEF Sound
        <5>2. i \in Nat /\ j \in Nat /\ (q = r /\ old(q, i) = old(r, j) => i = j)
          OBVIOUS
        <5> QED BY <5>1, <5>2
      <4> QED BY <2>2, <4>1, <4>2
    <3> QED BY <2>2, <3>1, <3>2
  <2>6. Pass(s).memoryArray + Pass(s).words = MemorySize /\ 0 < Pass(s).memoryArray
    BY <1>2, <1>5, <2>1
  <2> QED BY <1>3, <1>5, <2>4, <2>5, <2>6 DEF Sound
<1>6. \/ Pass(s).pools = s.pools /\ Pass(s).memoryArray = s.memoryArray /\ Pass(s).words = s.words
      \/ required <= s.words /\ Pass(s).pools = new
         /\ Pass(s).memoryArray = s.memoryArray + required /\ Pass(s).words = s.words - required
  BY DEF Pass, Sound, States
<1> QED BY <1>4, <1>5, <1>6

LEMMA LayoutSound == Sound(Layout)
<1> DEFINE Good == {n \in Nat : Sound(Loop[n]) /\ 0 < Loop[n].memoryArray}
<1>1. 0 \in Good
  <2>1. Begin.memoryArray = 1 /\ Begin.words = MemorySize - 1
        /\ Begin.pools = [p \in 1 .. numberOfPools |-> <<>>]
    BY DEF Begin
  <2>2. Begin.memoryArray + Begin.words = MemorySize
    BY <2>1, LayoutAssumption
  <2>3. \A p \in 1 .. numberOfPools : 1 .. Len(Begin.pools[p]) = {}
    BY <2>1
  <2>4. Sound(Begin)
    BY <2>2, <2>3, BeginTyped DEF Sound
  <2> QED BY <2>1, <2>4, LoopRuns
<1>2. ASSUME NEW n \in Nat, n \in Good
      PROVE  n + 1 \in Good
  BY <1>2, LoopRuns, PassKeepsSound
<1>3. \A n \in Nat : n \in Good
  <2> HIDE DEF Good
  <2> QED BY <1>1, <1>2, Induction
<1>4. MemorySize + numberOfPools \in Nat
  BY LayoutAssumption, Sizes
<1> QED BY <1>3, <1>4 DEF Layout

\* What the rest of the proofs knows of the blocks: each is once in the list of its pool,
LEMMA PoolsFacts ==
  /\ Pools \in Nat \ {0} /\ PoolOf \in [Blocks -> 1 .. Pools]
  /\ FreeAtFirst \in [1 .. Pools -> Seq(Blocks)]
  /\ \A p \in 1 .. Pools : \A i \in 1 .. Len(FreeAtFirst[p]) :
       /\ PoolOf[FreeAtFirst[p][i]] = p
       /\ \A j \in 1 .. Len(FreeAtFirst[p]) : FreeAtFirst[p][j] = FreeAtFirst[p][i] => i = j
  /\ \A b \in Blocks : \E p \in 1 .. Pools : \E i \in 1 .. Len(FreeAtFirst[p]) :
       FreeAtFirst[p][i] = b
<1>1. Pools \in Nat \ {0} /\ structSize = 3 /\ \A p \in 1 .. Pools : BlockSize[p] \in Nat \ {0}
  BY Sizes DEF Pools
<1>2. FreeAtFirst \in [1 .. Pools -> Seq(Nat)]
  BY LayoutSound DEF Sound, States, FreeAtFirst, Pools
<1>3. FreeAtFirst \in [1 .. Pools -> Seq(Blocks)]
  <2>1. \A p \in 1 .. Pools : FreeAtFirst[p] \in Seq(Nat) /\ BlocksOf(p) \subseteq Blocks
    BY <1>2 DEF Blocks, Pools
  <2>2. \A p \in 1 .. Pools : FreeAtFirst[p] \in Seq(Blocks)
    BY <2>1 DEF BlocksOf
  <2> QED BY <1>2, <2>2
<1>4. ASSUME NEW p \in 1 .. Pools, NEW i \in 1 .. Len(FreeAtFirst[p]),
             NEW q \in 1 .. Pools, NEW j \in 1 .. Len(FreeAtFirst[q]),
             FreeAtFirst[p][i] = FreeAtFirst[q][j]
      PROVE  p = q /\ i = j
  <2>1. \/ p = q /\ i = j
        \/ FreeAtFirst[p][i] + BlockSize[p] + structSize <= FreeAtFirst[q][j]
        \/ FreeAtFirst[q][j] + BlockSize[q] + structSize <= FreeAtFirst[p][i]
    BY LayoutSound DEF Sound, FreeAtFirst, Pools
  <2>2. FreeAtFirst[p][i] \in Nat /\ FreeAtFirst[q][j] \in Nat
    BY <1>2, SMTT(30)
  <2> QED BY <1>1, <1>4, <2>1, <2>2, SMTT(30)
<1>5. \A b \in Blocks : \E p \in 1 .. Pools : \E i \in 1 .. Len(FreeAtFirst[p]) :
        FreeAtFirst[p][i] = b
  BY DEF Blocks, BlocksOf, Pools
<1>6. ASSUME NEW p \in 1 .. Pools, NEW i \in 1 .. Len(FreeAtFirst[p])
      PROVE  FreeAtFirst[p][i] \in Blocks /\ PoolOf[FreeAtFirst[p][i]] = p
  <2> DEFINE b == FreeAtFirst[p][i]
  <2>1. b \in Blocks /\ b \in BlocksOf(p)
    BY DEF Blocks, BlocksOf, Pools
  <2>2. \A q \in 1 .. Pools : b \in BlocksOf(q) => q = p
    BY <1>4 DEF BlocksOf
  <2>3. PoolOf[b] = p
    <3> HIDE DEF b
    <3> QED BY <2>1, <2>2 DEF PoolOf, Pools
  <2> QED BY <2>1, <2>3
<1>7. PoolOf \in [Blocks -> 1 .. Pools]
  <2>1. \A b \in Blocks : PoolOf[b] \in 1 .. Pools
    BY <1>5, <1>6
  <2>2. PoolOf = [b \in Blocks |-> PoolOf[b]]
    BY DEF PoolOf
  <2> QED BY <2>1, <2>2
<1> QED BY <1>1, <1>3, <1>4, <1>5, <1>6, <1>7

\* and its words and those of its description are in the memory and nobody else's.
LEMMA BlocksApart ==
  ASSUME NEW b \in Blocks, NEW c \in Blocks
  PROVE  /\ UserWords(b) \subseteq 0 .. MemorySize - 1 /\ UserWords(b) \cap StructWords(c) = {}
         /\ b # c => UserWords(b) \cap UserWords(c) = {}
<1>1. PICK p \in 1 .. Pools : \E i \in 1 .. Len(FreeAtFirst[p]) : FreeAtFirst[p][i] = b
  BY PoolsFacts
<1> PICK i \in 1 .. Len(FreeAtFirst[p]) : FreeAtFirst[p][i] = b
  BY <1>1
<1>2. PICK q \in 1 .. Pools : \E j \in 1 .. Len(FreeAtFirst[q]) : FreeAtFirst[q][j] = c
  BY PoolsFacts
<1> PICK j \in 1 .. Len(FreeAtFirst[q]) : FreeAtFirst[q][j] = c
  BY <1>2
<1>3. PoolOf[b] = p /\ PoolOf[c] = q
  BY <1>1, <1>2, PoolsFacts
<1>4. \/ p = q /\ i = j
      \/ b + BlockSize[p] + structSize <= c
      \/ c + BlockSize[q] + structSize <= b
  BY <1>1, <1>2, LayoutSound DEF Sound, FreeAtFirst, Pools
<1>5. structSize < b /\ structSize < c /\ b + BlockSize[p] <= Layout.memoryArray
  BY <1>1, <1>2, LayoutSound DEF Sound, FreeAtFirst, Pools
<1>6. b \in Nat /\ c \in Nat
  <2>1. FreeAtFirst \in [1 .. Pools -> Seq(Nat)]
    BY LayoutSound DEF Sound, States, FreeAtFirst, Pools
  <2>2. FreeAtFirst[p] \in Seq(Nat) /\ FreeAtFirst[q] \in Seq(Nat)
    BY <2>1
  <2> QED BY <2>2, SMTT(30)
<1>7. BlockSize[p] \in Nat \ {0} /\ BlockSize[q] \in Nat \ {0} /\ structSize = 3
  BY Sizes DEF Pools
<1>8. Layout.memoryArray <= MemorySize /\ Layout.memoryArray \in Nat /\ MemorySize \in Nat
  BY LayoutSound, LayoutAssumption DEF Sound, States
<1>9. UserWords(b) = b .. b + BlockSize[p] - 1 /\ UserWords(c) = c .. c + BlockSize[q] - 1
      /\ StructWords(c) = c - 3 .. c - 1
  BY <1>3, <1>7 DEF UserWords, StructWords
<1>10. p = q /\ i = j => b = c
  BY <1>1, <1>2
<1>11. UserWords(b) \subseteq 0 .. MemorySize - 1
  <2>1. b + BlockSize[p] \in Nat /\ b + BlockSize[p] <= MemorySize
    BY <1>5, <1>6, <1>7, <1>8, SMTT(30)
  <2>2. \A w \in b .. b + BlockSize[p] - 1 : w \in 0 .. MemorySize - 1
    BY <1>6, <1>7, <1>8, <2>1
  <2> QED BY <1>9, <2>2
<1>12. CASE b = c
  BY <1>6, <1>7, <1>9, <1>11, <1>12, SMTT(30)
<1>13. CASE b # c
  <2>1. b + BlockSize[p] + 3 <= c \/ c + BlockSize[q] + 3 <= b
    BY <1>4, <1>7, <1>10, <1>13
  <2>2. UserWords(b) \cap StructWords(c) = {}
    <3>1. CASE b + BlockSize[p] + 3 <= c
      BY <1>6, <1>7, <1>9, <3>1
    <3>2. CASE c + BlockSize[q] + 3 <= b
      BY <1>6, <1>7, <1>9, <3>2
    <3> QED BY <2>1, <3>1, <3>2
  <2>3. UserWords(b) \cap UserWords(c) = {}
    <3>1. CASE b + BlockSize[p] + 3 <= c
      BY <1>6, <1>7, <1>9, <3>1
    <3>2. CASE c + BlockSize[q] + 3 <= b
      BY <1>6, <1>7, <1>9, <3>2
    <3> QED BY <2>1, <3>1, <3>2
  <2> QED BY <1>11, <2>2, <2>3
<1> QED BY <1>12, <1>13

LEMMA PoolsTyped == Pools \in Nat \ {0} /\ PoolOf \in [Blocks -> 1 .. Pools]
BY PoolsFacts

USE LayoutAssumption, ClusterAssumption, PoolsTyped
    DEF Lockable, Table, pools, locks, locals, history

-------------------------------------------------------------------------------
(* Taking and giving back a lock. *)

LEMMA LockKeeps ==
  ASSUME LocksInv, NEW t \in Tasks, NEW l \in Lockable, Lock(t, l), ~Holds(t, l), Holds(t, l)',
         \A k \in Lockable \ {l} : Holds(t, k)' <=> Holds(t, k),
         \A u \in Tasks \ {t}, k \in Lockable : Holds(u, k)' <=> Holds(u, k),
         left' = left
  PROVE  /\ owner' \in [Lockable -> Tasks \cup {NULL}] /\ nested' \in [Lockable -> 0 .. 2]
         /\ OwnsWhatItHolds' /\ HoldsWhatItOwns'
<1> USE DEF LocksInv, Lock, MayLock
<1>1. owner' \in [Lockable -> Tasks \cup {NULL}] /\ nested' \in [Lockable -> 0 .. 2]
  BY DEF TypesOfLocks
<1>2. /\ owner'[l] = t /\ nested'[l] > 0
      /\ \A k \in Lockable \ {l} : owner'[k] = owner[k] /\ nested'[k] = nested[k]
  BY DEF TypesOfLocks
<1>3. OwnsWhatItHolds'
  <2>1. \A u \in Tasks \ {t} : ~Holds(u, l)
    BY DEF OwnsWhatItHolds
  <2> QED BY <1>2, <2>1, SMTT(30) DEF OwnsWhatItHolds
<1>4. l \notin left => owner[l] = NULL
  BY DEF HoldsWhatItOwns
<1>5. l \notin left => nested'[l] = 1
  BY <1>4 DEF HoldsWhatItOwns, TypesOfLocks
<1>6. HoldsWhatItOwns'
  BY <1>2, <1>5 DEF HoldsWhatItOwns, TypesOfLocks
<1> QED BY <1>1, <1>3, <1>6

LEMMA UnlockKeeps ==
  ASSUME LocksInv, NEW t \in Tasks, NEW l \in Lockable, Unlock(l), Holds(t, l), ~Holds(t, l)',
         \A k \in Lockable \ {l} : Holds(t, k)' <=> Holds(t, k),
         \A u \in Tasks \ {t}, k \in Lockable : Holds(u, k)' <=> Holds(u, k),
         left' = left
  PROVE  /\ owner' \in [Lockable -> Tasks \cup {NULL}] /\ nested' \in [Lockable -> 0 .. 2]
         /\ OwnsWhatItHolds' /\ HoldsWhatItOwns'
<1> USE DEF LocksInv, Unlock
<1>1. owner[l] = t /\ nested[l] \in 1 .. 2
  BY DEF OwnsWhatItHolds, TypesOfLocks
<1>2. owner' \in [Lockable -> Tasks \cup {NULL}] /\ nested' \in [Lockable -> 0 .. 2]
  BY <1>1 DEF TypesOfLocks
<1>3. /\ nested'[l] = nested[l] - 1
      /\ owner'[l] = IF nested[l] = 1 THEN NULL ELSE t
      /\ \A k \in Lockable \ {l} : owner'[k] = owner[k] /\ nested'[k] = nested[k]
  BY <1>1 DEF TypesOfLocks
<1>4. OwnsWhatItHolds'
  <2>1. \A u \in Tasks \ {t} : ~Holds(u, l)
    BY <1>1 DEF OwnsWhatItHolds
  <2>2. ASSUME NEW u \in Tasks, NEW k \in Lockable, Holds(u, k)'
        PROVE  owner'[k] = u /\ nested'[k] > 0
    <3>1. k # l /\ Holds(u, k)
      BY <2>1, <2>2
    <3> QED BY <1>3, <3>1 DEF OwnsWhatItHolds
  <2> QED BY <2>2 DEF OwnsWhatItHolds
<1>5. l \notin left => nested[l] = 1
  BY <1>1 DEF HoldsWhatItOwns
<1>6. HoldsWhatItOwns'
  <2>1. \A k \in Lockable : owner'[k] = NULL => nested'[k] = 0
    BY <1>1, <1>3 DEF HoldsWhatItOwns
  <2>2. ASSUME NEW u \in Tasks, NEW k \in Lockable \ left, owner'[k] = u
        PROVE  nested'[k] = 1 /\ Holds(u, k)'
    <3>1. k # l
      BY <1>3, <1>5, <2>2
    <3>2. nested[k] = 1 /\ Holds(u, k)
      BY <1>3, <2>2, <3>1 DEF HoldsWhatItOwns
    <3> QED BY <1>3, <3>1, <3>2
  <2> QED BY <2>1, <2>2 DEF HoldsWhatItOwns
<1> QED BY <1>2, <1>4, <1>6

\* A step that takes no lock and gives none back, and ends no hold but one that is left.
LEMMA LocksStay ==
  ASSUME LocksInv, owner' = owner, nested' = nested,
         \A u \in Tasks, k \in Lockable : Holds(u, k)' => Holds(u, k),
         \A u \in Tasks, k \in Lockable \ left' : Holds(u, k) => Holds(u, k)',
         left \subseteq left'
  PROVE  OwnsWhatItHolds' /\ HoldsWhatItOwns'
<1>1. OwnsWhatItHolds'
  BY DEF LocksInv, OwnsWhatItHolds
<1>2. HoldsWhatItOwns'
  <2>1. \A k \in Lockable : owner[k] # NULL => owner[k] \in Tasks
    BY DEF LocksInv, TypesOfLocks
  <2> QED BY <2>1 DEF LocksInv, HoldsWhatItOwns
<1> QED BY <1>1, <1>2

\* One task moves inside the cluster: who is inside does not change.
LEMMA MoveInside ==
  ASSUME LocksInv, NEW t \in Tasks, NEW label \in Labels \ {"user", "exited"},
         Inside(t), Goto(t, label),
         clusterInUseFLAG' = clusterInUseFLAG, overlapped' = overlapped
  PROVE  pc' \in [Tasks -> Labels] /\ OneInside'
<1>1. pc' \in [Tasks -> Labels] /\ \A u \in Tasks : Inside(u)' <=> Inside(u)
  BY DEF LocksInv, TypesOfLocks, Goto, Inside
<1> QED BY <1>1 DEF LocksInv, OneInside

-------------------------------------------------------------------------------
(* Every step keeps the invariant. *)

LEMMA InitEstablishes == Init => LocksInv
<1> SUFFICES ASSUME Init PROVE LocksInv
  OBVIOUS
<1>1. TypesOfLocks
  BY DEF Init, TypesOfLocks, Labels, Allocates
<1>2. OwnsWhatItHolds /\ HoldsWhatItOwns
  BY DEF Init, OwnsWhatItHolds, HoldsWhatItOwns, Holds
<1>3. OneInside
  BY DEF Init, OneInside, Inside
<1> QED BY <1>1, <1>2, <1>3 DEF LocksInv

\* A task comes in at a place where it holds nothing.
LEMMA EnterKeeps ==
  ASSUME LocksInv, NEW t \in Tasks, NEW label \in {"lockPool", "lockTable", "leave"},
         Enter(t, label), label = "lockTable" => call'[t] = "deallocate",
         owner' = owner, nested' = nested,
         \A u \in Tasks \ {t} : call'[u] = call[u] /\ pool'[u] = pool[u]
  PROVE  pc' \in [Tasks -> Labels] /\ OwnsWhatItHolds' /\ HoldsWhatItOwns' /\ OneInside'
<1>1. /\ pc' \in [Tasks -> Labels] /\ pc[t] = "user" /\ pc'[t] = label
      /\ \A u \in Tasks \ {t} : pc'[u] = pc[u]
  BY DEF LocksInv, TypesOfLocks, Enter, At, Goto, Labels
<1>2. \A k \in Lockable : ~Holds(t, k) /\ ~Holds(t, k)'
  BY <1>1 DEF Holds, Allocates
<1>3. \A u \in Tasks \ {t}, k \in Lockable : Holds(u, k)' <=> Holds(u, k)
  BY <1>1 DEF Holds, Allocates
<1>4. OwnsWhatItHolds' /\ HoldsWhatItOwns'
  <2>1. left' = left
    BY DEF Enter
  <2> QED BY <1>2, <1>3, <2>1, LocksStay
<1>5. Inside(t)' /\ ~Inside(t) /\ \A u \in Tasks \ {t} : Inside(u)' <=> Inside(u)
  BY <1>1 DEF Inside
<1>6. OneInside'
  <2> SUFFICES ASSUME ~overlapped' PROVE OneInside'
    BY DEF OneInside
  <2>1. \A u \in Tasks : ~Inside(u)
    BY DEF Enter
  <2> QED BY <1>5, <2>1 DEF OneInside, Enter
<1> QED BY <1>1, <1>4, <1>6

LEMMA CallsKeep ==
  ASSUME LocksInv, NEW t \in Tasks, Calls(t)
  PROVE  LocksInv'
<1> USE DEF LocksInv
<1>1. ASSUME NEW p \in 1 .. Pools, CallAllocate(t, p)
      PROVE  LocksInv'
  <2>1. pc' \in [Tasks -> Labels] /\ OwnsWhatItHolds' /\ HoldsWhatItOwns' /\ OneInside'
    BY <1>1, EnterKeeps DEF CallAllocate, TypesOfLocks
  <2>2. TypesOfLocks'
    BY <1>1, <2>1 DEF CallAllocate, Enter, TypesOfLocks, Allocates
  <2> QED BY <2>1, <2>2
<1>2. CASE CallRefused(t)
  <2>1. pc' \in [Tasks -> Labels] /\ OwnsWhatItHolds' /\ HoldsWhatItOwns' /\ OneInside'
    BY <1>2, EnterKeeps DEF CallRefused, TypesOfLocks
  <2>2. TypesOfLocks'
    BY <1>2, <2>1 DEF CallRefused, Enter, TypesOfLocks, Allocates
  <2> QED BY <2>1, <2>2
<1>3. ASSUME NEW b \in Blocks \cup {NULL}, CallDeallocate(t, b)
      PROVE  LocksInv'
  <2>1. pc' \in [Tasks -> Labels] /\ OwnsWhatItHolds' /\ HoldsWhatItOwns' /\ OneInside'
    BY <1>3, EnterKeeps DEF CallDeallocate, TypesOfLocks
  <2>2. TypesOfLocks'
    BY <1>3, <2>1 DEF CallDeallocate, Enter, TypesOfLocks, Allocates
  <2> QED BY <2>1, <2>2
<1>4. CASE Exit(t)
  <2>1. /\ pc' \in [Tasks -> Labels] /\ pc[t] = "user" /\ pc'[t] = "exited"
        /\ \A u \in Tasks \ {t} : pc'[u] = pc[u]
    BY <1>4 DEF Exit, At, Goto, TypesOfLocks, Labels
  <2>2. /\ \A u \in Tasks, k \in Lockable : Holds(u, k)' <=> Holds(u, k)
        /\ \A u \in Tasks : Inside(u)' <=> Inside(u)
    BY <1>4, <2>1 DEF Exit, Holds, Allocates, Inside
  <2>3. OwnsWhatItHolds' /\ HoldsWhatItOwns'
    BY <1>4, <2>2, LocksStay DEF Exit
  <2>4. OneInside'
    BY <1>4, <2>2 DEF Exit, OneInside
  <2>5. TypesOfLocks'
    BY <1>4, <2>1 DEF Exit, TypesOfLocks, Allocates
  <2> QED BY <2>3, <2>4, <2>5
<1> QED BY <1>1, <1>2, <1>3, <1>4 DEF Calls

\* Where a task goes inside, when it does.
LEMMA Moved ==
  ASSUME LocksInv, NEW t \in Tasks, NEW label \in Labels, Goto(t, label)
  PROVE  /\ pc' \in [Tasks -> Labels] /\ pc'[t] = label
         /\ \A u \in Tasks \ {t} : pc'[u] = pc[u]
BY DEF LocksInv, TypesOfLocks, Goto

LEMMA LockPoolKeeps ==
  ASSUME LocksInv, NEW t \in Tasks, LockPool(t)
  PROVE  LocksInv'
<1> USE DEF LocksInv, LockPool, At
<1>1. pool[t] \in Lockable \ {Table} /\ UNCHANGED <<call, pool, smallest, block, left>>
  BY DEF TypesOfLocks
<1>2. pc'[t] = "read" /\ \A u \in Tasks \ {t} : pc'[u] = pc[u]
  BY Moved DEF Labels
<1>3. /\ ~Holds(t, pool[t]) /\ Holds(t, pool[t])'
      /\ \A k \in Lockable \ {pool[t]} : ~Holds(t, k) /\ ~Holds(t, k)'
      /\ \A u \in Tasks \ {t}, k \in Lockable : Holds(u, k)' <=> Holds(u, k)
  BY <1>1, <1>2 DEF Holds, Allocates
<1>4. /\ owner' \in [Lockable -> Tasks \cup {NULL}] /\ nested' \in [Lockable -> 0 .. 2]
      /\ OwnsWhatItHolds' /\ HoldsWhatItOwns'
  BY <1>1, <1>3, LockKeeps
<1>5. pc' \in [Tasks -> Labels] /\ OneInside'
  BY MoveInside DEF Labels, Inside
<1>6. TypesOfLocks'
  BY <1>1, <1>4, <1>5 DEF TypesOfLocks, Allocates
<1> QED BY <1>4, <1>5, <1>6

LEMMA LockTableKeeps ==
  ASSUME LocksInv, NEW t \in Tasks, LockTable(t)
  PROVE  LocksInv'
<1> USE DEF LocksInv, LockTable, At
<1>1. pool[t] \in Lockable \ {Table} /\ UNCHANGED <<call, pool, smallest, block, left>>
  BY DEF TypesOfLocks
<1>2. pc'[t] = "table" /\ \A u \in Tasks \ {t} : pc'[u] = pc[u]
  BY Moved DEF Labels
<1>3. /\ ~Holds(t, Table) /\ Holds(t, Table)'
      /\ \A k \in Lockable \ {Table} : Holds(t, k) <=> Holds(t, k)'
      /\ \A u \in Tasks \ {t}, k \in Lockable : Holds(u, k)' <=> Holds(u, k)
  BY <1>1, <1>2 DEF Holds, Allocates
<1>4. /\ owner' \in [Lockable -> Tasks \cup {NULL}] /\ nested' \in [Lockable -> 0 .. 2]
      /\ OwnsWhatItHolds' /\ HoldsWhatItOwns'
  BY <1>1, <1>3, LockKeeps
<1>5. pc' \in [Tasks -> Labels] /\ OneInside'
  BY MoveInside DEF Labels, Inside
<1>6. TypesOfLocks'
  BY <1>1, <1>4, <1>5 DEF TypesOfLocks, Allocates
<1> QED BY <1>4, <1>5, <1>6

\* Whatever is next, the table's lock is given back and the pool's kept.
LEMMA UnlockTableKeeps ==
  ASSUME LocksInv, NEW t \in Tasks, UnlockTable(t)
  PROVE  LocksInv'
<1> USE DEF LocksInv, UnlockTable, At
<1>1. pool[t] \in Lockable \ {Table} /\ UNCHANGED <<call, smallest, block, left>>
  BY DEF TypesOfLocks
<1>2. PICK label \in {"unlockPool", "leave", "lockPool"} :
        /\ Goto(t, label)
        /\ label = "unlockPool" <=> Allocates(t)
        /\ Allocates(t) => pool' = pool
  OBVIOUS
<1>3. pool' \in [Tasks -> 1 .. Pools] /\ \A u \in Tasks \ {t} : pool'[u] = pool[u]
  BY DEF TypesOfLocks
<1>4. /\ pc[t] = "unlockTable" /\ pc' \in [Tasks -> Labels] /\ pc'[t] = label
      /\ \A u \in Tasks \ {t} : pc'[u] = pc[u]
  BY <1>2, Moved DEF Labels
<1>5. \A u \in Tasks \ {t}, k \in Lockable : Holds(u, k)' <=> Holds(u, k)
  BY <1>1, <1>3, <1>4 DEF Holds, Allocates
<1>6. /\ Holds(t, Table) /\ ~Holds(t, Table)'
      /\ \A k \in Lockable \ {Table} : Holds(t, k)' <=> Holds(t, k)
  BY <1>1, <1>2, <1>3, <1>4 DEF Holds, Allocates
<1>7. /\ owner' \in [Lockable -> Tasks \cup {NULL}] /\ nested' \in [Lockable -> 0 .. 2]
      /\ OwnsWhatItHolds' /\ HoldsWhatItOwns'
  BY <1>1, <1>5, <1>6, UnlockKeeps
<1>8. OneInside'
  BY <1>2, <1>4, MoveInside DEF Labels, Inside
<1>9. TypesOfLocks'
  BY <1>1, <1>3, <1>4, <1>7 DEF TypesOfLocks, Allocates
<1> QED BY <1>7, <1>8, <1>9

LEMMA UnlockPoolKeeps ==
  ASSUME LocksInv, NEW t \in Tasks, UnlockPool(t)
  PROVE  LocksInv'
<1> USE DEF LocksInv, UnlockPool, At
<1>1. pool[t] \in Lockable \ {Table} /\ UNCHANGED <<call, pool, smallest, block, left>>
  BY DEF TypesOfLocks
<1>2. pc'[t] = "leave" /\ \A u \in Tasks \ {t} : pc'[u] = pc[u]
  BY Moved DEF Labels
<1>3. /\ Holds(t, pool[t]) /\ ~Holds(t, pool[t])'
      /\ \A k \in Lockable \ {pool[t]} : ~Holds(t, k) /\ ~Holds(t, k)'
      /\ \A u \in Tasks \ {t}, k \in Lockable : Holds(u, k)' <=> Holds(u, k)
  BY <1>1, <1>2 DEF Holds, Allocates
<1>4. /\ owner' \in [Lockable -> Tasks \cup {NULL}] /\ nested' \in [Lockable -> 0 .. 2]
      /\ OwnsWhatItHolds' /\ HoldsWhatItOwns'
  BY <1>1, <1>3, UnlockKeeps
<1>5. pc' \in [Tasks -> Labels] /\ OneInside'
  BY MoveInside DEF Labels, Inside
<1>6. TypesOfLocks'
  BY <1>1, <1>4, <1>5 DEF TypesOfLocks, Allocates
<1> QED BY <1>4, <1>5, <1>6

\* allocate goes on with the lock of the pool it read, or leaves it to look at another pool.
LEMMA ReadKeeps ==
  ASSUME LocksInv, NEW t \in Tasks, Read(t)
  PROVE  LocksInv'
<1> USE DEF LocksInv, Read, At
<1>1. /\ pc[t] = "read" /\ UNCHANGED <<owner, nested, call, smallest>>
      /\ clusterInUseFLAG' = clusterInUseFLAG /\ overlapped' = overlapped
  OBVIOUS
<1>2. CASE Goto(t, "write") /\ pool' = pool /\ left' = left
           /\ DOMAIN block' = Tasks /\ \A u \in Tasks : Allocates(u) \/ block'[u] = block[u]
  <2>1. pc'[t] = "write" /\ \A u \in Tasks \ {t} : pc'[u] = pc[u]
    BY <1>2, Moved DEF Labels
  <2>2. \A u \in Tasks, k \in Lockable : Holds(u, k)' <=> Holds(u, k)
    BY <1>1, <1>2, <2>1 DEF Holds, Allocates
  <2>3. OwnsWhatItHolds' /\ HoldsWhatItOwns'
    BY <1>1, <1>2, <2>2, LocksStay
  <2>4. pc' \in [Tasks -> Labels] /\ OneInside'
    BY <1>1, <1>2, MoveInside DEF Labels, Inside
  <2>5. \A u \in Tasks : Allocates(u)' \/ block'[u] \in Blocks \cup {NULL}
    BY <1>1, <1>2 DEF TypesOfLocks, Allocates
  <2>6. TypesOfLocks'
    BY <1>1, <1>2, <2>4, <2>5 DEF TypesOfLocks
  <2> QED BY <2>3, <2>4, <2>6
<1>3. CASE Allocates(t) /\ Goto(t, "lockPool") /\ pool' = [pool EXCEPT ![t] = NextPool(t)]
           /\ left' = left \cup {pool[t]} /\ block' = block
  <2>1. pc'[t] = "lockPool" /\ \A u \in Tasks \ {t} : pc'[u] = pc[u]
    BY <1>3, Moved DEF Labels
  <2>2. pool' \in [Tasks -> 1 .. Pools] /\ \A u \in Tasks \ {t} : pool'[u] = pool[u]
    BY <1>3 DEF TypesOfLocks, NextPool
  <2>3. \A u \in Tasks \ {t}, k \in Lockable : Holds(u, k)' <=> Holds(u, k)
    BY <1>1, <2>1, <2>2 DEF Holds, Allocates
  <2>4. \A k \in Lockable : ~Holds(t, k)' /\ (Holds(t, k) => k = pool[t])
    BY <1>1, <2>1 DEF Holds
  <2>5. OwnsWhatItHolds' /\ HoldsWhatItOwns'
    BY <1>1, <1>3, <2>3, <2>4, LocksStay
  <2>6. pc' \in [Tasks -> Labels] /\ OneInside'
    BY <1>1, <1>3, MoveInside DEF Labels, Inside
  <2>7. TypesOfLocks'
    <3>1. left' \subseteq 1 .. Pools
      <4>1. left \subseteq 1 .. Pools /\ pool[t] \in 1 .. Pools
        BY DEF TypesOfLocks
      <4> HIDE DEF Read, LocksInv
      <4> QED BY <1>3, <4>1
    <3>2. /\ DOMAIN block' = Tasks
          /\ \A u \in Tasks : Allocates(u)' \/ block'[u] \in Blocks \cup {NULL}
      BY <1>1, <1>3 DEF TypesOfLocks, Allocates
    <3> QED BY <1>1, <2>2, <2>6, <3>1, <3>2 DEF TypesOfLocks
  <2> QED BY <2>5, <2>6, <2>7
<1> QED BY <1>2, <1>3 DEF TypesOfLocks

LEMMA WriteAndUseTableKeep ==
  ASSUME LocksInv, NEW t \in Tasks, Write(t) \/ UseTable(t)
  PROVE  LocksInv'
<1> USE DEF LocksInv, At
<1>1. /\ UNCHANGED <<owner, nested, call, pool, smallest, block, left>>
      /\ clusterInUseFLAG' = clusterInUseFLAG /\ overlapped' = overlapped
  BY DEF Write, UseTable
<1>2. PICK label \in {"lockTable", "unlockPool", "unlockTable"} :
        /\ Goto(t, label)
        /\ \/ pc[t] = "write" /\ label = IF Allocates(t) THEN "lockTable" ELSE "unlockPool"
           \/ pc[t] = "table" /\ label = "unlockTable"
  BY DEF Write, UseTable
<1>3. pc'[t] = label /\ \A u \in Tasks \ {t} : pc'[u] = pc[u]
  BY <1>2, Moved DEF Labels
<1>4. \A u \in Tasks, k \in Lockable : Holds(u, k)' <=> Holds(u, k)
  BY <1>1, <1>2, <1>3 DEF Holds, Allocates
<1>5. OwnsWhatItHolds' /\ HoldsWhatItOwns'
  BY <1>1, <1>4, LocksStay
<1>6. pc' \in [Tasks -> Labels] /\ OneInside'
  BY <1>1, <1>2, MoveInside DEF Labels, Inside
<1>7. TypesOfLocks'
  BY <1>1, <1>6 DEF TypesOfLocks, Allocates
<1> QED BY <1>5, <1>6, <1>7

\* The last of the calls that overlapped takes the flag down when nobody is left.
LEMMA LeaveKeeps ==
  ASSUME LocksInv, NEW t \in Tasks, Leave(t)
  PROVE  LocksInv'
<1> USE DEF LocksInv, Leave, At
<1>1. /\ pc' \in [Tasks -> Labels] /\ pc'[t] = "user"
      /\ \A u \in Tasks \ {t} : pc'[u] = pc[u]
  BY Moved DEF Labels
<1>2. UNCHANGED <<owner, nested, call, pool, smallest, left>>
  OBVIOUS
<1>3. \A u \in Tasks, k \in Lockable : Holds(u, k)' <=> Holds(u, k)
  BY <1>1, <1>2 DEF Holds, Allocates
<1>4. OwnsWhatItHolds' /\ HoldsWhatItOwns'
  BY <1>2, <1>3, LocksStay
<1>5. Inside(t) /\ ~Inside(t)' /\ \A u \in Tasks \ {t} : Inside(u)' <=> Inside(u)
  BY <1>1 DEF Inside
<1>6. OneInside'
  <2> SUFFICES ASSUME ~overlapped' PROVE OneInside'
    BY DEF OneInside
  <2>1. \A u \in Tasks \ {t} : ~Inside(u)
    BY <1>5 DEF OneInside
  <2> QED BY <1>5, <2>1 DEF OneInside
<1>7. TypesOfLocks'
  BY <1>1, <1>2 DEF TypesOfLocks, Allocates
<1> QED BY <1>4, <1>6, <1>7

LEMMA WorksKeep ==
  ASSUME LocksInv, NEW t \in Tasks, Works(t)
  PROVE  LocksInv'
BY LockPoolKeeps, ReadKeeps, WriteAndUseTableKeep, LockTableKeeps, UnlockTableKeeps,
   UnlockPoolKeeps, LeaveKeeps DEF Works

\* A step that moves nobody.
LEMMA NobodyMoves ==
  ASSUME LocksInv, UNCHANGED <<owner, nested, clusterInUseFLAG, pc, call, pool, smallest, block,
                           overlapped, left>>
  PROVE  LocksInv'
<1>1. /\ \A u \in Tasks, k \in Lockable : Holds(u, k)' <=> Holds(u, k)
      /\ \A u \in Tasks : Inside(u)' <=> Inside(u)
  BY DEF Holds, Allocates, Inside
<1>2. OwnsWhatItHolds' /\ HoldsWhatItOwns'
  BY <1>1, LocksStay
<1>3. TypesOfLocks' /\ OneInside'
  BY <1>1 DEF LocksInv, TypesOfLocks, Allocates, OneInside
<1> QED BY <1>2, <1>3 DEF LocksInv

LEMMA NextKeeps == LocksInv /\ [Next]_vars => LocksInv'
<1> SUFFICES ASSUME LocksInv, [Next]_vars PROVE LocksInv'
  OBVIOUS
<1>1. ASSUME NEW t \in Tasks, Calls(t) \/ Works(t)
      PROVE  LocksInv'
  BY <1>1, CallsKeep, WorksKeep
<1>2. ASSUME NEW t \in Tasks, NEW interrupted \in Tasks \cup {NULL}, Reclaim(t, interrupted)
      PROVE  LocksInv'
  BY <1>2, NobodyMoves DEF Reclaim
<1>3. CASE UNCHANGED vars
  BY <1>3, NobodyMoves DEF vars
<1> QED BY <1>1, <1>2, <1>3 DEF Next

-------------------------------------------------------------------------------
(* Blocks. What a step does to one task it does to no other. *)

LEMMA FreeTyped ==
  ASSUME TypeOK, NEW p \in 1 .. Pools
  PROVE  free[p] \in Seq(Blocks) /\ \A i \in 1 .. Len(free[p]) : free[p][i] \in Blocks
<1>1. free[p] \in Seq(Blocks)
  BY DEF TypeOK
<1> QED BY <1>1

LEMMA UsersStay ==
  ASSUME OneUser, allocated' = allocated,
         \A as \in Ways, u \in Tasks, b \in Blocks : Claim(as, u, b)' <=> Claim(as, u, b)
  PROVE  OneUser'
<1> SUFFICES ASSUME NEW b \in Blocks, NEW as \in Ways, NEW t \in Tasks, Claim(as, t, b)'
             PROVE  b \in allocated' /\ \A is \in Ways, u \in Tasks :
                                          Claim(is, u, b)' => as = is /\ t = u
  BY DEF OneUser
<1>1. Claim(as, t, b)
  OBVIOUS
<1>2. b \in allocated /\ \A is \in Ways, u \in Tasks : Claim(is, u, b) => as = is /\ t = u
  BY <1>1 DEF OneUser
<1> QED BY <1>2

\* A step that moves no block and passes none on.
LEMMA BlocksStay ==
  ASSUME TypeOK, FreeOnce, OnTheWayOnce, Somewhere, OneUser, free' = free, allocated' = allocated,
         \A u \in Tasks, b \in Blocks : OnTheWay(u, b)' <=> OnTheWay(u, b),
         \A as \in Ways, u \in Tasks, b \in Blocks : Claim(as, u, b)' <=> Claim(as, u, b)
  PROVE  FreeOnce' /\ OnTheWayOnce' /\ Somewhere' /\ OneUser'
<1>1. \A p \in 1 .. Pools : \A i \in 1 .. Len(free[p]) : free[p][i] \in Blocks
  BY FreeTyped
<1>2. FreeOnce'
  BY <1>1 DEF FreeOnce
<1>3. OnTheWayOnce'
  BY DEF OnTheWayOnce
<1>4. Somewhere'
  BY DEF Somewhere
<1>5. OneUser'
  BY UsersStay
<1> QED BY <1>2, <1>3, <1>4, <1>5

\* The others are on their way with, and claim, what they did.
LEMMA OthersStay ==
  ASSUME NEW u \in Tasks, pc'[u] = pc[u], call'[u] = call[u], block'[u] = block[u],
         held'[u] = held[u], u \in finished' <=> u \in finished, NEW b \in Blocks
  PROVE  /\ OnTheWay(u, b)' <=> OnTheWay(u, b)
         /\ \A as \in Ways : Claim(as, u, b)' <=> Claim(as, u, b)
BY DEF Ways, OnTheWay, OnItsWay, Inside, Allocates, Claim, Promised

\* Who has read a list is alone with its pool.
LEMMA AloneAtPool ==
  ASSUME LocksInv, NEW t \in Tasks, NEW u \in Tasks, At(t, "write"), At(u, "write"),
         pool[t] = pool[u]
  PROVE  t = u
<1>1. pool[t] \in Lockable /\ Holds(t, pool[t]) /\ Holds(u, pool[t])
  BY DEF LocksInv, TypesOfLocks, At, Holds
<1> QED BY <1>1 DEF LocksInv, OwnsWhatItHolds

\* What the invariant of the locks leaves of the types.
LEMMA TypesKept ==
  ASSUME LocksInv', free' \in [1 .. Pools -> Seq(Blocks)], allocated' \subseteq Blocks,
         clusterInUseFLAG' \in BOOLEAN, block' \in [Tasks -> Blocks \cup {NULL}],
         list' \in [Tasks -> Seq(Blocks)], held' \in [Tasks -> SUBSET Blocks],
         finished' \subseteq Tasks, hung' \in BOOLEAN, overlapped' \in BOOLEAN,
         interfered' \in BOOLEAN
  PROVE  TypeOK'
BY DEF LocksInv, TypesOfLocks, TypeOK

OnlyMoves(t) ==
  \A u \in Tasks \ {t} :
    /\ pc'[u] = pc[u] /\ call'[u] = call[u] /\ pool'[u] = pool[u] /\ block'[u] = block[u]
    /\ list'[u] = list[u] /\ held'[u] = held[u] /\ (u \in finished' <=> u \in finished)

LEMMA KnowOn ==
  ASSUME \A u \in Tasks : KnowsBlock(u), NEW t \in Tasks, OnlyMoves(t), KnowsBlock(t)'
  PROVE  \A u \in Tasks : KnowsBlock(u)'
<1>1. ASSUME NEW u \in Tasks \ {t}
      PROVE  KnowsBlock(u)'
  BY DEF KnowsBlock, Allocates, OnlyMoves
<1> QED BY <1>1

Placed == /\ \A t \in Tasks : ListCurrent(t)
          /\ FreeOnce /\ OnTheWayOnce /\ Somewhere /\ OneUser

LEMMA OthersCurrent ==
  ASSUME \A u \in Tasks : ListCurrent(u), NEW t \in Tasks, OnlyMoves(t), free' = free
  PROVE  \A u \in Tasks \ {t} : ListCurrent(u)'
<1> SUFFICES ASSUME NEW u \in Tasks \ {t} PROVE ListCurrent(u)'
  OBVIOUS
<1>1. pc'[u] = pc[u] /\ call'[u] = call[u] /\ pool'[u] = pool[u] /\ block'[u] = block[u]
      /\ list'[u] = list[u]
  BY DEF OnlyMoves
<1>2. ListCurrent(u)
  OBVIOUS
<1> QED BY <1>1, <1>2 DEF ListCurrent, At, Allocates

\* A task that goes from one place to the next keeps what it has.
LEMMA MovesOn ==
  ASSUME TypeOK, Placed, NEW t \in Tasks, OnlyMoves(t), free' = free, allocated' = allocated,
         \A b \in Blocks : OnTheWay(t, b)' <=> OnTheWay(t, b),
         \A as \in Ways, b \in Blocks : Claim(as, t, b)' <=> Claim(as, t, b),
         ListCurrent(t)'
  PROVE  Placed'
<1>1. ASSUME NEW u \in Tasks, NEW b \in Blocks
      PROVE  /\ OnTheWay(u, b)' <=> OnTheWay(u, b)
             /\ \A as \in Ways : Claim(as, u, b)' <=> Claim(as, u, b)
  <2>1. CASE u = t
    BY <2>1
  <2>2. CASE u # t
    BY <2>2, OthersStay DEF OnlyMoves
  <2> QED BY <2>1, <2>2
<1>2. FreeOnce' /\ OnTheWayOnce' /\ Somewhere' /\ OneUser'
  BY <1>1, BlocksStay DEF Placed
<1>3. \A u \in Tasks \ {t} : ListCurrent(u)'
  BY OthersCurrent DEF Placed
<1> QED BY <1>2, <1>3 DEF Placed

LEMMA Quiet ==
  ASSUME BlocksInv, NEW t \in Tasks, OnlyMoves(t), TypeOK', KnowsBlock(t)',
         UNCHANGED <<free, allocated, interfered>>, ~interfered => ListCurrent(t)',
         \A b \in Blocks : OnTheWay(t, b)' <=> OnTheWay(t, b),
         \A as \in Ways, b \in Blocks : Claim(as, t, b)' <=> Claim(as, t, b)
  PROVE  BlocksInv'
<1>1. TypeOK /\ (\A u \in Tasks : KnowsBlock(u)) /\ (~interfered => Placed)
  BY DEF BlocksInv, Placed
<1>2. ~interfered => Placed'
  BY <1>1, MovesOn
<1> QED BY <1>1, <1>2, KnowOn DEF BlocksInv, Placed

LEMMA CallAllocateBlocks ==
  ASSUME LocksInv', BlocksInv, NEW t \in Tasks, NEW p \in 1 .. Pools, CallAllocate(t, p)
  PROVE  BlocksInv'
<1>0. TypeOK /\ (~interfered => Placed) /\ KnowsBlock(t)
  BY DEF BlocksInv, Placed
<1>1. /\ OnlyMoves(t) /\ UNCHANGED <<free, allocated, interfered>>
      /\ pc[t] = "user" /\ pc'[t] = "lockPool" /\ call'[t] = "allocate"
      /\ UNCHANGED <<block, list, held, finished, hung>>
  BY <1>0 DEF CallAllocate, Enter, At, Goto, TypeOK, OnlyMoves
<1>2. TypeOK'
  BY <1>0, <1>1, TypesKept DEF CallAllocate, Enter, TypeOK
<1>3. KnowsBlock(t)'
  BY <1>0, <1>1 DEF KnowsBlock, Allocates
<1>4. ~interfered => ListCurrent(t)'
  BY <1>0, <1>1 DEF Placed, ListCurrent, At, Allocates
<1>5. \A b \in Blocks : OnTheWay(t, b)' <=> OnTheWay(t, b)
  BY <1>0, <1>1 DEF OnTheWay, OnItsWay, Inside, Allocates
<1>6. \A as \in Ways, b \in Blocks : Claim(as, t, b)' <=> Claim(as, t, b)
  BY <1>0, <1>1 DEF Claim, Promised, Allocates
<1> QED BY <1>1, <1>2, <1>3, <1>4, <1>5, <1>6, Quiet

LEMMA CallRefusedBlocks ==
  ASSUME LocksInv', BlocksInv, NEW t \in Tasks, CallRefused(t)
  PROVE  BlocksInv'
<1>0. TypeOK /\ (~interfered => Placed) /\ KnowsBlock(t)
  BY DEF BlocksInv, Placed
<1>1. /\ OnlyMoves(t) /\ UNCHANGED <<free, allocated, interfered>>
      /\ pc[t] = "user" /\ pc'[t] = "leave" /\ call'[t] = "allocate" /\ block'[t] = NULL
      /\ UNCHANGED <<list, held, finished, hung>>
  BY <1>0 DEF CallRefused, Enter, At, Goto, TypeOK, OnlyMoves
<1>2. TypeOK'
  BY <1>0, <1>1, TypesKept DEF CallRefused, Enter, TypeOK
<1>3. KnowsBlock(t)'
  BY <1>0, <1>1 DEF KnowsBlock, Allocates
<1>4. ~interfered => ListCurrent(t)'
  BY <1>0, <1>1 DEF Placed, ListCurrent, At, Allocates
<1>5. \A b \in Blocks : OnTheWay(t, b)' <=> OnTheWay(t, b)
  BY <1>0, <1>1 DEF OnTheWay, OnItsWay, Inside, Allocates
<1>6. \A as \in Ways, b \in Blocks : Claim(as, t, b)' <=> Claim(as, t, b)
  BY <1>0, <1>1 DEF Claim, Promised, Allocates
<1> QED BY <1>1, <1>2, <1>3, <1>4, <1>5, <1>6, Quiet

LEMMA ExitBlocks ==
  ASSUME LocksInv', BlocksInv, NEW t \in Tasks, Exit(t)
  PROVE  BlocksInv'
<1>0. TypeOK /\ (~interfered => Placed) /\ KnowsBlock(t)
  BY DEF BlocksInv, Placed
<1>1. /\ OnlyMoves(t) /\ UNCHANGED <<free, allocated, interfered>>
      /\ pc[t] = "user" /\ pc'[t] = "exited" /\ StackOf[t] # NULL /\ finished' = finished \cup {t}
      /\ UNCHANGED <<call, pool, block, list, held>>
  BY <1>0 DEF Exit, At, Goto, TypeOK, OnlyMoves
<1>2. TypeOK'
  <2>1. finished' \subseteq Tasks
    BY <1>0, <1>1 DEF TypeOK
  <2>2. UNCHANGED <<block, list, held, clusterInUseFLAG, hung, overlapped, interfered>>
    BY DEF Exit
  <2> QED BY <1>0, <1>1, <2>1, <2>2, TypesKept DEF TypeOK
<1>3. KnowsBlock(t)'
  BY <1>0, <1>1 DEF KnowsBlock, Allocates
<1>4. ~interfered => ListCurrent(t)'
  BY <1>0, <1>1 DEF Placed, ListCurrent, At, Allocates
<1>5. \A b \in Blocks : OnTheWay(t, b)' <=> OnTheWay(t, b)
  BY <1>0, <1>1 DEF OnTheWay, OnItsWay, Inside, Allocates
<1>6. \A as \in Ways, b \in Blocks : Claim(as, t, b)' <=> Claim(as, t, b)
  BY <1>0, <1>1 DEF Claim, Promised, Allocates
<1> QED BY <1>1, <1>2, <1>3, <1>4, <1>5, <1>6, Quiet

LEMMA LockPoolBlocks ==
  ASSUME LocksInv', BlocksInv, NEW t \in Tasks, LockPool(t)
  PROVE  BlocksInv'
<1>0. TypeOK /\ (~interfered => Placed) /\ KnowsBlock(t)
  BY DEF BlocksInv, Placed
<1>1. /\ OnlyMoves(t) /\ UNCHANGED <<free, allocated, interfered>>
      /\ pc[t] = "lockPool" /\ pc'[t] = "read"
      /\ UNCHANGED <<call, pool, block, list, held, finished>>
  BY <1>0 DEF LockPool, locals, history, At, Goto, TypeOK, OnlyMoves
<1>2. TypeOK'
  BY <1>0, <1>1, TypesKept DEF LockPool, locals, history, TypeOK
<1>3. KnowsBlock(t)'
  BY <1>0, <1>1 DEF KnowsBlock, Allocates
<1>4. ~interfered => ListCurrent(t)'
  BY <1>0, <1>1 DEF Placed, ListCurrent, At, Allocates
<1>5. \A b \in Blocks : OnTheWay(t, b)' <=> OnTheWay(t, b)
  BY <1>0, <1>1 DEF OnTheWay, OnItsWay, Inside, Allocates
<1>6. \A as \in Ways, b \in Blocks : Claim(as, t, b)' <=> Claim(as, t, b)
  BY <1>0, <1>1 DEF Claim, Promised, Allocates
<1> QED BY <1>1, <1>2, <1>3, <1>4, <1>5, <1>6, Quiet

LEMMA LockTableBlocks ==
  ASSUME LocksInv', BlocksInv, NEW t \in Tasks, LockTable(t)
  PROVE  BlocksInv'
<1>0. TypeOK /\ (~interfered => Placed) /\ KnowsBlock(t)
  BY DEF BlocksInv, Placed
<1>1. /\ OnlyMoves(t) /\ UNCHANGED <<free, allocated, interfered>>
      /\ pc[t] = "lockTable" /\ pc'[t] = "table"
      /\ UNCHANGED <<call, pool, block, list, held, finished>>
  BY <1>0 DEF LockTable, At, Goto, TypeOK, OnlyMoves
<1>2. TypeOK'
  BY <1>0, <1>1, TypesKept DEF LockTable, TypeOK
<1>3. KnowsBlock(t)'
  BY <1>0, <1>1 DEF KnowsBlock, Allocates
<1>4. ~interfered => ListCurrent(t)'
  BY <1>0, <1>1 DEF Placed, ListCurrent, At, Allocates
<1>5. \A b \in Blocks : OnTheWay(t, b)' <=> OnTheWay(t, b)
  BY <1>0, <1>1 DEF OnTheWay, OnItsWay, Inside, Allocates
<1>6. \A as \in Ways, b \in Blocks : Claim(as, t, b)' <=> Claim(as, t, b)
  BY <1>0, <1>1 DEF Claim, Promised, Allocates
<1> QED BY <1>1, <1>2, <1>3, <1>4, <1>5, <1>6, Quiet

LEMMA UnlockTableBlocks ==
  ASSUME LocksInv', BlocksInv, NEW t \in Tasks, UnlockTable(t)
  PROVE  BlocksInv'
<1>0. TypeOK /\ (~interfered => Placed) /\ KnowsBlock(t)
  BY DEF BlocksInv, Placed
<1>1. /\ OnlyMoves(t) /\ UNCHANGED <<free, allocated, interfered>>
      /\ pc[t] = "unlockTable" /\ UNCHANGED <<call, block, list, held, finished>>
      /\ \/ Allocates(t) /\ pc'[t] = "unlockPool"
         \/ ~Allocates(t) /\ block[t] = NULL /\ pc'[t] = "leave"
         \/ ~Allocates(t) /\ block[t] # NULL /\ pc'[t] = "lockPool" /\ pool'[t] = PoolOf[block[t]]
  BY <1>0 DEF UnlockTable, At, Goto, TypeOK, OnlyMoves
<1>2. TypeOK'
  BY <1>0, <1>1, TypesKept DEF UnlockTable, TypeOK
<1>3. KnowsBlock(t)'
  BY <1>0, <1>1 DEF KnowsBlock, Allocates
<1>4. ~interfered => ListCurrent(t)'
  BY <1>0, <1>1 DEF Placed, ListCurrent, At, Allocates
<1>5. \A b \in Blocks : OnTheWay(t, b)' <=> OnTheWay(t, b)
  BY <1>0, <1>1 DEF OnTheWay, OnItsWay, Inside, Allocates
<1>6. \A as \in Ways, b \in Blocks : Claim(as, t, b)' <=> Claim(as, t, b)
  BY <1>0, <1>1 DEF Claim, Promised, Allocates
<1> QED BY <1>1, <1>2, <1>3, <1>4, <1>5, <1>6, Quiet

LEMMA UnlockPoolBlocks ==
  ASSUME LocksInv', BlocksInv, NEW t \in Tasks, UnlockPool(t)
  PROVE  BlocksInv'
<1>0. TypeOK /\ (~interfered => Placed) /\ KnowsBlock(t)
  BY DEF BlocksInv, Placed
<1>1. /\ OnlyMoves(t) /\ UNCHANGED <<free, allocated, interfered>>
      /\ pc[t] = "unlockPool" /\ pc'[t] = "leave"
      /\ UNCHANGED <<call, pool, block, list, held, finished>>
  BY <1>0 DEF UnlockPool, At, Goto, TypeOK, OnlyMoves
<1>2. TypeOK'
  BY <1>0, <1>1, TypesKept DEF UnlockPool, TypeOK
<1>3. KnowsBlock(t)'
  BY <1>0, <1>1 DEF KnowsBlock, Allocates
<1>4. ~interfered => ListCurrent(t)'
  BY <1>0, <1>1 DEF Placed, ListCurrent, At, Allocates
<1>5. \A b \in Blocks : OnTheWay(t, b)' <=> OnTheWay(t, b)
  BY <1>0, <1>1 DEF OnTheWay, OnItsWay, Inside, Allocates
<1>6. \A as \in Ways, b \in Blocks : Claim(as, t, b)' <=> Claim(as, t, b)
  BY <1>0, <1>1 DEF Claim, Promised, Allocates
<1> QED BY <1>1, <1>2, <1>3, <1>4, <1>5, <1>6, Quiet

LEMMA ReadBlocks ==
  ASSUME LocksInv', BlocksInv, NEW t \in Tasks, Read(t)
  PROVE  BlocksInv'
<1>0. TypeOK /\ (~interfered => Placed) /\ KnowsBlock(t)
  BY DEF BlocksInv, Placed
<1>1. /\ pc[t] = "read" /\ UNCHANGED <<free, allocated, call, held, finished, interfered>>
      /\ UNCHANGED <<clusterInUseFLAG, hung, overlapped>>
  BY DEF Read, At
<1> DEFINE blocks == free[pool[t]]
<1>2. blocks \in Seq(Blocks) /\ pool[t] \in 1 .. Pools /\ (~Allocates(t) => block[t] \in Blocks)
  BY <1>0, <1>1, FreeTyped DEF TypeOK, KnowsBlock
<1>3. CASE /\ ~Allocates(t) /\ Goto(t, "write") /\ list' = [list EXCEPT ![t] = <<block[t]>> \o blocks]
           /\ UNCHANGED <<block, pool, left>>
  <2>1. OnlyMoves(t) /\ pc'[t] = "write" /\ list'[t] = <<block[t]>> \o blocks
    BY <1>0, <1>1, <1>3 DEF TypeOK, Goto, OnlyMoves
  <2>2. <<block[t]>> \o blocks \in Seq(Blocks) /\ <<block[t]>> \o blocks # <<>>
        /\ Head(<<block[t]>> \o blocks) = block[t] /\ Tail(<<block[t]>> \o blocks) = blocks
    <3> HIDE DEF blocks
    <3> QED BY <1>2, <1>3, SMTT(30)
  <2>3. list' \in [Tasks -> Seq(Blocks)]
    BY <1>0, <1>3, <2>2 DEF TypeOK
  <2>4. TypeOK'
    BY <1>0, <1>1, <1>3, <2>3, TypesKept DEF TypeOK
  <2>5. KnowsBlock(t)'
    BY <1>0, <1>1, <1>2, <1>3, <2>1 DEF KnowsBlock, Allocates
  <2>6. ~interfered => ListCurrent(t)'
    BY <1>0, <1>1, <1>3, <2>1, <2>2 DEF Placed, ListCurrent, At, Allocates
  <2>7. \A b \in Blocks : OnTheWay(t, b)' <=> OnTheWay(t, b)
    BY <1>1, <1>3, <2>1 DEF OnTheWay, OnItsWay, Inside, Allocates
  <2>8. \A as \in Ways, b \in Blocks : Claim(as, t, b)' <=> Claim(as, t, b)
    BY <1>1, <1>3, <2>1 DEF Claim, Promised, Allocates
  <2> QED BY <1>1, <2>1, <2>4, <2>5, <2>6, <2>7, <2>8, Quiet
<1>4. CASE /\ Allocates(t) /\ blocks = <<>> /\ Goto(t, "lockPool")
           /\ pool' = [pool EXCEPT ![t] = NextPool(t)] /\ UNCHANGED <<block, list>>
  <2>1. OnlyMoves(t) /\ pc'[t] = "lockPool"
    BY <1>0, <1>1, <1>4 DEF TypeOK, Goto, OnlyMoves
  <2>2. TypeOK'
    BY <1>0, <1>1, <1>4, TypesKept DEF TypeOK
  <2>3. KnowsBlock(t)'
    BY <1>0, <1>1, <1>4, <2>1 DEF KnowsBlock, Allocates
  <2>4. ListCurrent(t)'
    BY <1>1, <1>4, <2>1 DEF ListCurrent, At, Allocates
  <2>5. \A b \in Blocks : OnTheWay(t, b)' <=> OnTheWay(t, b)
    BY <1>1, <1>4, <2>1 DEF OnTheWay, OnItsWay, Inside, Allocates
  <2>6. \A as \in Ways, b \in Blocks : Claim(as, t, b)' <=> Claim(as, t, b)
    BY <1>1, <1>4, <2>1 DEF Claim, Promised, Allocates
  <2> QED BY <1>1, <2>1, <2>2, <2>3, <2>4, <2>5, <2>6, Quiet
<1>5. CASE /\ Allocates(t) /\ blocks # <<>> /\ Goto(t, "write")
           /\ block' = [block EXCEPT ![t] = Head(blocks)]
           /\ list' = [list EXCEPT ![t] = Tail(blocks)] /\ UNCHANGED <<pool, left>>
  <2>1. /\ OnlyMoves(t) /\ pc'[t] = "write" /\ block'[t] = Head(blocks)
        /\ list'[t] = Tail(blocks)
    BY <1>0, <1>1, <1>5 DEF TypeOK, Goto, OnlyMoves
  <2>2. Head(blocks) \in Blocks /\ Tail(blocks) \in Seq(Blocks)
        /\ blocks = <<Head(blocks)>> \o Tail(blocks)
    <3> HIDE DEF blocks
    <3> QED BY <1>2, <1>5
  <2>3. list' \in [Tasks -> Seq(Blocks)] /\ block' \in [Tasks -> Blocks \cup {NULL}]
    <3> HIDE DEF blocks
    <3> QED BY <1>0, <1>5, <2>2 DEF TypeOK
  <2>4. TypeOK'
    BY <1>0, <1>1, <2>3, TypesKept DEF TypeOK
  <2>5. KnowsBlock(t)'
    BY <1>0, <1>1, <2>1, <2>2 DEF KnowsBlock, Allocates
  <2>6. ListCurrent(t)'
    BY <1>1, <1>5, <2>1, <2>2 DEF ListCurrent, At, Allocates
  <2>7. \A b \in Blocks : OnTheWay(t, b)' <=> OnTheWay(t, b)
    BY <1>1, <1>5, <2>1 DEF OnTheWay, OnItsWay, Inside, Allocates
  <2>8. \A as \in Ways, b \in Blocks : Claim(as, t, b)' <=> Claim(as, t, b)
    BY <1>1, <1>5, <2>1 DEF Claim, Promised, Allocates
  <2> QED BY <1>1, <2>1, <2>4, <2>5, <2>6, <2>7, <2>8, Quiet
<1> QED BY <1>3, <1>4, <1>5 DEF Read

\* A task that passes a block on to itself: from its memory to its call, or back.
LEMMA PassesOn ==
  ASSUME TypeOK, Placed, NEW t \in Tasks, OnlyMoves(t), free' = free, allocated' = allocated,
         \A b \in Blocks : OnTheWay(t, b)' <=> OnTheWay(t, b),
         \A as \in Ways, b \in Blocks : Claim(as, t, b)' => \E is \in Ways : Claim(is, t, b),
         \A as, is \in Ways, b \in Blocks : Claim(as, t, b)' /\ Claim(is, t, b)' => as = is,
         ListCurrent(t)'
  PROVE  Placed'
<1>1. ASSUME NEW u \in Tasks \ {t}, NEW b \in Blocks
      PROVE  /\ OnTheWay(u, b)' <=> OnTheWay(u, b)
             /\ \A as \in Ways : Claim(as, u, b)' <=> Claim(as, u, b)
  BY OthersStay DEF OnlyMoves
<1>2. \A p \in 1 .. Pools : \A i \in 1 .. Len(free[p]) : free[p][i] \in Blocks
  BY FreeTyped
<1>3. \A u \in Tasks, b \in Blocks : OnTheWay(u, b)' <=> OnTheWay(u, b)
  BY <1>1
<1>4. FreeOnce' /\ OnTheWayOnce' /\ Somewhere'
  <2>1. FreeOnce'
    BY <1>2, <1>3 DEF Placed, FreeOnce
  <2>2. OnTheWayOnce'
    BY <1>3 DEF Placed, OnTheWayOnce
  <2>3. Somewhere'
    BY <1>3 DEF Placed, Somewhere
  <2> QED BY <2>1, <2>2, <2>3
<1>5. OneUser'
  <2> SUFFICES ASSUME NEW b \in Blocks, NEW as \in Ways, NEW u \in Tasks, Claim(as, u, b)'
               PROVE  b \in allocated /\ \A is \in Ways, v \in Tasks :
                                           Claim(is, v, b)' => as = is /\ u = v
    BY DEF OneUser
  <2>1. \A is \in Ways, v \in Tasks : Claim(is, v, b)' => \E iz \in Ways : Claim(iz, v, b)
    BY <1>1
  <2>2. PICK is \in Ways : Claim(is, u, b)
    BY <2>1
  <2>3. b \in allocated /\ \A iz \in Ways, v \in Tasks : Claim(iz, v, b) => is = iz /\ u = v
    BY <2>2 DEF Placed, OneUser
  <2>4. ASSUME NEW iz \in Ways, NEW v \in Tasks, Claim(iz, v, b)'
        PROVE  as = iz /\ u = v
    <3>1. u = v
      BY <2>1, <2>3, <2>4
    <3>2. CASE u = t
      <4>1. Claim(as, t, b)' /\ Claim(iz, t, b)'
        BY <2>4, <3>1, <3>2
      <4> QED BY <3>1, <4>1
    <3>3. CASE u # t
      BY <1>1, <2>3, <2>4, <3>1, <3>3, ZenonT(40)
    <3> QED BY <3>1, <3>2, <3>3
  <2> QED BY <2>3, <2>4
<1>6. \A u \in Tasks \ {t} : ListCurrent(u)'
  BY OthersCurrent DEF Placed
<1> QED BY <1>4, <1>5, <1>6 DEF Placed

LEMMA CallDeallocateBlocks ==
  ASSUME LocksInv', BlocksInv, NEW t \in Tasks, NEW b \in Blocks \cup {NULL}, CallDeallocate(t, b)
  PROVE  BlocksInv'
<1>0. TypeOK /\ (\A u \in Tasks : KnowsBlock(u)) /\ (~interfered => Placed)
  BY DEF BlocksInv, Placed
<1>1. /\ OnlyMoves(t) /\ UNCHANGED <<free, allocated, interfered, list, finished, hung>>
      /\ pc[t] = "user" /\ pc'[t] = "lockTable" /\ call'[t] = "deallocate" /\ block'[t] = b
      /\ b \in held[t] \cup {NULL} /\ held'[t] = held[t] \ {b}
  BY <1>0 DEF CallDeallocate, Enter, At, Goto, TypeOK, OnlyMoves
<1>2. TypeOK'
  <2>1. held' \in [Tasks -> SUBSET Blocks] /\ block' \in [Tasks -> Blocks \cup {NULL}]
    BY <1>0 DEF CallDeallocate, TypeOK
  <2>2. clusterInUseFLAG' \in BOOLEAN /\ overlapped' \in BOOLEAN
    BY <1>0 DEF CallDeallocate, Enter, TypeOK
  <2> QED BY <1>0, <1>1, <2>1, <2>2, TypesKept DEF TypeOK
<1>3. KnowsBlock(t)'
  BY <1>0, <1>1 DEF KnowsBlock, Allocates
<1>4. ASSUME ~interfered
      PROVE  Placed'
  <2>1. ListCurrent(t)'
    BY <1>1 DEF ListCurrent, At, Allocates
  <2>2. \A c \in Blocks : OnTheWay(t, c)' <=> OnTheWay(t, c)
    BY <1>1 DEF OnTheWay, OnItsWay, Inside, Allocates
  <2>3. \A c \in Blocks :
          /\ Claim("memory", t, c)' <=> c \in held[t] /\ c # b
          /\ Claim("call", t, c)' <=> c = b
          /\ Claim("stack", t, c)' <=> Claim("stack", t, c)
          /\ Claim("memory", t, c) <=> c \in held[t]
    BY <1>1 DEF Claim, Promised, Allocates
  <2>4. \A c \in Blocks : ~(c \in held[t] /\ Claim("stack", t, c))
    BY <1>0, <1>4, <2>3 DEF Placed, OneUser, Ways
  <2>5. \A c \in Blocks : c = b => c \in held[t]
    BY <1>1
  <2>6. \A as \in Ways, c \in Blocks : Claim(as, t, c)' => \E is \in Ways : Claim(is, t, c)
    BY <2>3, <2>5 DEF Ways
  <2>7. \A as, is \in Ways, c \in Blocks : Claim(as, t, c)' /\ Claim(is, t, c)' => as = is
    BY <2>3, <2>4, <2>5 DEF Ways
  <2> QED BY <1>0, <1>1, <1>4, <2>1, <2>2, <2>6, <2>7, PassesOn
<1> QED BY <1>0, <1>1, <1>2, <1>3, <1>4, KnowOn DEF BlocksInv, Placed

LEMMA LeaveBlocks ==
  ASSUME LocksInv', BlocksInv, NEW t \in Tasks, Leave(t)
  PROVE  BlocksInv'
<1>0. TypeOK /\ (\A u \in Tasks : KnowsBlock(u)) /\ (~interfered => Placed)
  BY DEF BlocksInv, Placed
<1>1. /\ OnlyMoves(t) /\ UNCHANGED <<free, allocated, interfered, call, list, finished, hung>>
      /\ pc[t] = "leave" /\ pc'[t] = "user" /\ block'[t] = NULL
      /\ held'[t] = IF Allocates(t) THEN held[t] \cup ({block[t]} \ {NULL}) ELSE held[t]
  BY <1>0 DEF Leave, At, Goto, TypeOK, OnlyMoves
<1>2. TypeOK'
  <2>1. held' \in [Tasks -> SUBSET Blocks] /\ block' \in [Tasks -> Blocks \cup {NULL}]
    BY <1>0, SMTT(30) DEF Leave, TypeOK
  <2>2. clusterInUseFLAG' \in BOOLEAN /\ overlapped' \in BOOLEAN
    BY <1>0 DEF Leave, TypeOK
  <2> QED BY <1>0, <1>1, <2>1, <2>2, TypesKept DEF TypeOK
<1>3. KnowsBlock(t)'
  BY <1>0, <1>1 DEF KnowsBlock, Allocates
<1>4. ASSUME ~interfered
      PROVE  Placed'
  <2>1. ListCurrent(t)'
    BY <1>1 DEF ListCurrent, At, Allocates
  <2>2. \A c \in Blocks : OnTheWay(t, c)' <=> OnTheWay(t, c)
    BY <1>1 DEF OnTheWay, OnItsWay, Inside, Allocates
  <2>3. \A c \in Blocks :
          /\ Claim("memory", t, c)' => c \in held[t] \/ Claim("call", t, c)
          /\ ~Claim("call", t, c)'
          /\ Claim("stack", t, c)' <=> Claim("stack", t, c)
          /\ Claim("memory", t, c) <=> c \in held[t]
    BY <1>1 DEF Claim, Promised, Allocates
  <2>4. \A c \in Blocks : ~((c \in held[t] \/ Claim("call", t, c)) /\ Claim("stack", t, c))
    BY <1>0, <1>4, <2>3 DEF Placed, OneUser, Ways
  <2>6. \A as \in Ways, c \in Blocks : Claim(as, t, c)' => \E is \in Ways : Claim(is, t, c)
    BY <2>3 DEF Ways
  <2>7. \A as, is \in Ways, c \in Blocks : Claim(as, t, c)' /\ Claim(is, t, c)' => as = is
    BY <2>3, <2>4 DEF Ways
  <2> QED BY <1>0, <1>1, <1>4, <2>1, <2>2, <2>6, <2>7, PassesOn
<1> QED BY <1>0, <1>1, <1>2, <1>3, <1>4, KnowOn DEF BlocksInv, Placed

LEMMA InFront ==
  ASSUME NEW S, NEW s \in Seq(S), NEW b \in S
  PROVE  /\ <<b>> \o s \in Seq(S) /\ Len(<<b>> \o s) = Len(s) + 1 /\ (<<b>> \o s)[1] = b
         /\ Len(s) \in Nat /\ \A i \in 1 .. Len(s) : (<<b>> \o s)[i + 1] = s[i]
OBVIOUS

LEMMA HeadAndTail ==
  ASSUME NEW S, NEW s \in Seq(S), s # <<>>
  PROVE  s = <<Head(s)>> \o Tail(s)
OBVIOUS

\* A block is put in front of a list.
Pushes(q, b) == free' = [free EXCEPT ![q] = <<b>> \o @]

LEMMA Pushed ==
  ASSUME TypeOK, NEW q \in 1 .. Pools, NEW b \in Blocks, Pushes(q, b)
  PROVE  /\ free' \in [1 .. Pools -> Seq(Blocks)]
         /\ \A p \in 1 .. Pools \ {q} : free'[p] = free[p]
         /\ Len(free'[q]) = Len(free[q]) + 1 /\ free'[q][1] = b /\ Len(free[q]) \in Nat
         /\ \A i \in 1 .. Len(free[q]) : free'[q][i + 1] = free[q][i]
<1>1. free[q] \in Seq(Blocks)
  BY DEF TypeOK
<1>2. /\ <<b>> \o free[q] \in Seq(Blocks) /\ Len(<<b>> \o free[q]) = Len(free[q]) + 1
      /\ (<<b>> \o free[q])[1] = b /\ Len(free[q]) \in Nat
      /\ \A i \in 1 .. Len(free[q]) : (<<b>> \o free[q])[i + 1] = free[q][i]
  BY <1>1, InFront
<1>3. free'[q] = <<b>> \o free[q]
  BY DEF TypeOK, Pushes
<1>4. free' \in [1 .. Pools -> Seq(Blocks)] /\ \A p \in 1 .. Pools \ {q} : free'[p] = free[p]
  BY <1>2 DEF TypeOK, Pushes
<1> QED BY <1>2, <1>3, <1>4

\* It is once in the lists if it was not in one, and nobody has it.
NotFree(b) == \A p \in 1 .. Pools : \A i \in 1 .. Len(free[p]) : free[p][i] # b
LetGo(b) ==
  /\ allocated' \subseteq allocated /\ b \notin allocated'
  /\ \A u \in Tasks, c \in Blocks : OnTheWay(u, c)' => OnTheWay(u, c) /\ c # b
FreeNow(q, b) ==
  /\ \A p \in 1 .. Pools : \A i \in 1 .. Len(free[p]) :
       \E j \in 1 .. Len(free'[p]) : free'[p][j] = free[p][i]
  /\ \E j \in 1 .. Len(free'[q]) : free'[q][j] = b

LEMMA PushedOnce ==
  ASSUME TypeOK, FreeOnce, NEW q \in 1 .. Pools, NEW b \in Blocks, PoolOf[b] = q,
         Pushes(q, b), NotFree(b), LetGo(b)
  PROVE  FreeOnce' /\ FreeNow(q, b)
<1>0. /\ \A p \in 1 .. Pools : \A k \in 1 .. Len(free[p]) :
           /\ free[p][k] \in Blocks /\ PoolOf[free[p][k]] = p /\ free[p][k] \notin allocated'
           /\ \A j \in 1 .. Len(free[p]) : free[p][j] = free[p][k] => k = j
           /\ \A u \in Tasks : ~OnTheWay(u, free[p][k])
      /\ b \notin allocated'
  <2>1. allocated' \subseteq allocated /\ b \notin allocated'
    BY DEF LetGo
  <2>2. \A p \in 1 .. Pools : \A k \in 1 .. Len(free[p]) :
          /\ PoolOf[free[p][k]] = p /\ free[p][k] \notin allocated'
          /\ \A j \in 1 .. Len(free[p]) : free[p][j] = free[p][k] => k = j
          /\ \A u \in Tasks : ~OnTheWay(u, free[p][k])
    BY <2>1 DEF FreeOnce
  <2> QED BY <2>1, <2>2, FreeTyped
<1>1. /\ \A p \in 1 .. Pools \ {q} : free'[p] = free[p]
      /\ Len(free'[q]) = Len(free[q]) + 1 /\ free'[q][1] = b /\ Len(free[q]) \in Nat
      /\ \A i \in 1 .. Len(free[q]) : free'[q][i + 1] = free[q][i]
  BY Pushed
<1>2. ASSUME NEW i \in 1 .. Len(free'[q])
      PROVE  \/ i = 1 /\ free'[q][i] = b
             \/ i - 1 \in 1 .. Len(free[q]) /\ free'[q][i] = free[q][i - 1] /\ free'[q][i] # b
                /\ i # 1
  <2>1. CASE i = 1
    BY <1>1, <2>1
  <2>2. CASE i # 1
    <3>1. i - 1 \in 1 .. Len(free[q]) /\ i - 1 + 1 = i
      BY <1>1, <2>2, SMTT(30)
    <3>2. free'[q][i - 1 + 1] = free[q][i - 1]
      BY <1>1, <3>1
    <3> QED BY <2>2, <3>1, <3>2 DEF NotFree
  <2> QED BY <2>1, <2>2
<1>3. ASSUME NEW p \in 1 .. Pools, NEW i \in 1 .. Len(free'[p])
      PROVE  \E c \in Blocks :
               /\ free'[p][i] = c /\ PoolOf[c] = p /\ c \notin allocated'
               /\ \A j \in 1 .. Len(free'[p]) : free'[p][j] = c => i = j
               /\ c = b \/ \A u \in Tasks : ~OnTheWay(u, c)
  <2>1. \A k \in 1 .. Len(free[p]) :
          /\ free[p][k] \in Blocks /\ PoolOf[free[p][k]] = p /\ free[p][k] \notin allocated'
          /\ \A j \in 1 .. Len(free[p]) : free[p][j] = free[p][k] => k = j
          /\ \A u \in Tasks : ~OnTheWay(u, free[p][k])
    BY <1>0
  <2>2. CASE p # q
    <3>1. free'[p] = free[p] /\ i \in 1 .. Len(free[p])
      BY <1>1, <2>2
    <3> QED BY <2>1, <3>1
  <2>3. CASE p = q
    <3>1. CASE i = 1
      <4>1. free'[p][i] = b /\ \A j \in 1 .. Len(free'[p]) : free'[p][j] = b => j = 1
        BY <1>2, <2>3, <3>1
      <4> QED BY <1>0, <2>3, <3>1, <4>1
    <3>2. CASE i # 1
      <4>1. i - 1 \in 1 .. Len(free[p]) /\ free'[p][i] = free[p][i - 1] /\ free'[p][i] # b
        BY <1>2, <2>3, <3>2
      <4>2. ASSUME NEW j \in 1 .. Len(free'[p]), free'[p][j] = free'[p][i]
            PROVE  i = j
        <5>0. i \in Nat /\ j \in Nat
          OBVIOUS
        <5>1. j - 1 \in 1 .. Len(free[p]) /\ free'[p][j] = free[p][j - 1]
          BY <1>2, <2>3, <4>1, <4>2
        <5>2. i - 1 = j - 1
          BY <2>1, <4>1, <4>2, <5>1
        <5> QED BY <5>0, <5>2
      <4> QED BY <2>1, <4>1, <4>2
    <3> QED BY <3>1, <3>2
  <2> QED BY <2>2, <2>3
<1>4. FreeOnce'
  <2> SUFFICES ASSUME NEW p \in 1 .. Pools, NEW i \in 1 .. Len(free'[p])
               PROVE  (/\ PoolOf[free[p][i]] = p /\ free[p][i] \notin allocated
                       /\ \A j \in 1 .. Len(free[p]) : free[p][j] = free[p][i] => i = j
                       /\ \A t \in Tasks : ~OnTheWay(t, free[p][i]))'
    BY DEF FreeOnce
  <2>1. \A u \in Tasks, c \in Blocks : OnTheWay(u, c)' => OnTheWay(u, c) /\ c # b
    BY DEF LetGo
  <2> QED BY <1>3, <2>1
<1>5. ASSUME NEW p \in 1 .. Pools, NEW i \in 1 .. Len(free[p])
      PROVE  \E j \in 1 .. Len(free'[p]) : free'[p][j] = free[p][i]
  <2>1. CASE p # q
    BY <1>1, <2>1
  <2>2. CASE p = q
    <3>1. i + 1 \in 1 .. Len(free'[p]) /\ free'[p][i + 1] = free[p][i]
      BY <1>1, <2>2
    <3> QED BY <3>1
  <2> QED BY <2>1, <2>2
<1>6. \E j \in 1 .. Len(free'[q]) : free'[q][j] = b
  <2>1. 1 \in 1 .. Len(free'[q])
    BY <1>1
  <2> QED BY <1>1, <2>1
<1> QED BY <1>4, <1>5, <1>6 DEF FreeNow

\* A list that is written back touches no other task that has read one.
LEMMA OthersCurrentAtWrite ==
  ASSUME LocksInv, TypeOK, Placed, NEW t \in Tasks, At(t, "write"), OnlyMoves(t),
         \A p \in 1 .. Pools \ {pool[t]} : free'[p] = free[p]
  PROVE  \A u \in Tasks \ {t} : ListCurrent(u)'
<1> SUFFICES ASSUME NEW u \in Tasks \ {t} PROVE ListCurrent(u)'
  OBVIOUS
<1>1. pc'[u] = pc[u] /\ call'[u] = call[u] /\ pool'[u] = pool[u] /\ block'[u] = block[u]
      /\ list'[u] = list[u]
  BY DEF OnlyMoves
<1>2. ListCurrent(u)
  BY DEF Placed
<1>3. At(u, "write") => free'[pool[u]] = free[pool[u]]
  <2>1. At(u, "write") => pool[u] # pool[t]
    BY AloneAtPool
  <2> QED BY <2>1 DEF TypeOK
<1> QED BY <1>1, <1>2, <1>3 DEF ListCurrent, At, Allocates

\* allocate takes the first block of the list.
LEMMA TakeBlock ==
  ASSUME LocksInv, LocksInv', BlocksInv, NEW t \in Tasks, Write(t), Allocates(t)
  PROVE  BlocksInv'
<1>0. TypeOK /\ (\A u \in Tasks : KnowsBlock(u)) /\ (~interfered => Placed)
  BY DEF BlocksInv, Placed
<1>1. /\ OnlyMoves(t) /\ UNCHANGED <<allocated, interfered, call, pool, block, held, finished>>
      /\ pc[t] = "write" /\ pc'[t] = "lockTable" /\ free' = [free EXCEPT ![pool[t]] = list[t]]
      /\ list' = [list EXCEPT ![t] = <<>>] /\ UNCHANGED <<hung, overlapped, clusterInUseFLAG>>
  BY <1>0 DEF Write, At, Goto, TypeOK, OnlyMoves
<1>2. pool[t] \in 1 .. Pools /\ list[t] \in Seq(Blocks) /\ block[t] \in Blocks
  BY <1>0, <1>1 DEF TypeOK, KnowsBlock
<1>3. TypeOK'
  <2>1. free' \in [1 .. Pools -> Seq(Blocks)] /\ list' \in [Tasks -> Seq(Blocks)]
    BY <1>0, <1>1, <1>2 DEF TypeOK
  <2> QED BY <1>0, <1>1, <2>1, TypesKept DEF TypeOK
<1>4. KnowsBlock(t)'
  BY <1>0, <1>1 DEF KnowsBlock, Allocates
<1>5. ASSUME ~interfered
      PROVE  Placed'
  <2>0. PICK q \in 1 .. Pools, b \in Blocks, taken \in Seq(Blocks) :
          q = pool[t] /\ b = block[t] /\ taken = list[t]
    BY <1>2
  <2>1. free[q] = <<b>> \o taken
    BY <1>0, <1>1, <1>5, <2>0 DEF Placed, ListCurrent, At
  <2>2. free'[q] = taken /\ \A p \in 1 .. Pools \ {q} : free'[p] = free[p]
    BY <1>0, <1>1, <1>2, <2>0 DEF TypeOK
  <2>3. /\ Len(free[q]) = Len(taken) + 1 /\ free[q][1] = b /\ Len(taken) \in Nat
        /\ \A i \in 1 .. Len(taken) : free[q][i + 1] = taken[i]
    BY <2>1, InFront
  <2>4. /\ \A c \in Blocks : OnTheWay(t, c)' <=> c = b
        /\ \A c \in Blocks : ~OnTheWay(t, c)
    BY <1>1, <1>2, <2>0 DEF OnTheWay, OnItsWay, Inside, Allocates
  <2>5. /\ \A as \in Ways, c \in Blocks : Claim(as, t, c)' <=> Claim(as, t, c)
    BY <1>1 DEF Claim, Promised, Allocates
  <2>6. ASSUME NEW u \in Tasks \ {t}, NEW c \in Blocks
        PROVE  /\ OnTheWay(u, c)' <=> OnTheWay(u, c)
               /\ \A as \in Ways : Claim(as, u, c)' <=> Claim(as, u, c)
    BY <1>1, OthersStay DEF OnlyMoves
  <2>7. /\ PoolOf[b] = q /\ b \notin allocated /\ \A u \in Tasks : ~OnTheWay(u, b)
        /\ \A k \in 1 .. Len(free[q]) : free[q][k] = b => k = 1
    <3>1. 1 \in 1 .. Len(free[q])
      BY <2>3
    <3> QED BY <1>0, <1>2, <1>5, <2>3, <3>1 DEF Placed, FreeOnce
  <2>8. FreeOnce'
    <3> SUFFICES ASSUME NEW p \in 1 .. Pools, NEW i \in 1 .. Len(free'[p])
                 PROVE  (/\ PoolOf[free[p][i]] = p /\ free[p][i] \notin allocated
                         /\ \A j \in 1 .. Len(free[p]) : free[p][j] = free[p][i] => i = j
                         /\ \A u \in Tasks : ~OnTheWay(u, free[p][i]))'
      BY DEF FreeOnce
    <3>1. \A k \in 1 .. Len(free[p]) :
            /\ free[p][k] \in Blocks /\ PoolOf[free[p][k]] = p /\ free[p][k] \notin allocated
            /\ \A j \in 1 .. Len(free[p]) : free[p][j] = free[p][k] => k = j
            /\ \A u \in Tasks : ~OnTheWay(u, free[p][k])
      BY <1>0, <1>5, FreeTyped DEF Placed, FreeOnce
    <3>2. \E c \in Blocks :
            /\ free'[p][i] = c /\ PoolOf[c] = p /\ c \notin allocated' /\ c # b
            /\ \A j \in 1 .. Len(free'[p]) : free'[p][j] = c => i = j
            /\ \A u \in Tasks : ~OnTheWay(u, c)
      <4>0. allocated' = allocated
        BY <1>1
      <4>1. CASE p # q
        <5>1. free'[p] = free[p] /\ i \in 1 .. Len(free[p])
          BY <2>2, <4>1
        <5>2. free[p][i] # b
          BY <2>7, <3>1, <4>1, <5>1
        <5> QED BY <3>1, <4>0, <5>1, <5>2
      <4>2. CASE p = q
        <5>0. \A k \in 1 .. Len(taken) : k + 1 \in 1 .. Len(free[q]) /\ taken[k] = free[q][k + 1]
          BY <2>3
        <5>1. /\ i + 1 \in 1 .. Len(free[p]) /\ i + 1 # 1 /\ free'[p][i] = free[p][i + 1]
          BY <2>2, <2>3, <4>2, SMTT(30)
        <5>2. ASSUME NEW j \in 1 .. Len(free'[p]), free'[p][j] = free'[p][i]
              PROVE  i = j
          <6>0. j \in 1 .. Len(taken) /\ free'[p][j] = taken[j]
            BY <2>2, <4>2
          <6>1. j + 1 \in 1 .. Len(free[p]) /\ free'[p][j] = free[p][j + 1]
            BY <4>2, <5>0, <6>0
          <6>2. i + 1 = j + 1
            BY <3>1, <5>1, <5>2, <6>1
          <6> QED BY <2>3, <4>2, <6>2
        <5>3. free'[p][i] # b
          BY <2>7, <4>2, <5>1
        <5> QED BY <3>1, <4>0, <5>1, <5>2, <5>3
      <4> QED BY <4>1, <4>2
    <3>3. \A u \in Tasks, c \in Blocks : c # b => (OnTheWay(u, c)' <=> OnTheWay(u, c))
      BY <2>4, <2>6
    <3> QED BY <3>2, <3>3
  <2>9. OnTheWayOnce'
    <3> SUFFICES ASSUME NEW u \in Tasks, NEW c \in Blocks, OnTheWay(u, c)'
                 PROVE  c \notin allocated /\ \A v \in Tasks : OnTheWay(v, c)' => u = v
      BY <1>1 DEF OnTheWayOnce
    <3>1. CASE c = b
      <4>1. \A v \in Tasks \ {t} : ~OnTheWay(v, b)'
        BY <1>2, <2>6, <2>7
      <4> QED BY <2>7, <3>1, <4>1
    <3>2. CASE c # b
      <4>1. \A v \in Tasks : OnTheWay(v, c)' => v # t /\ OnTheWay(v, c)
        BY <2>4, <2>6, <3>2
      <4> QED BY <1>0, <1>5, <4>1 DEF Placed, OnTheWayOnce
    <3> QED BY <3>1, <3>2
  <2>10. Somewhere'
    <3> SUFFICES ASSUME NEW c \in Blocks
                 PROVE  \/ c \in allocated' \/ \E u \in Tasks : OnTheWay(u, c)'
                        \/ \E p \in 1 .. Pools : \E i \in 1 .. Len(free'[p]) : free'[p][i] = c
      BY DEF Somewhere
    <3>1. CASE c = b
      BY <2>4, <3>1
    <3>2. CASE c # b /\ c \in allocated
      BY <1>1, <3>2
    <3>3. ASSUME c # b, NEW u \in Tasks, OnTheWay(u, c)
          PROVE  OnTheWay(u, c)'
      BY <2>4, <2>6, <3>3
    <3>4. ASSUME c # b, NEW p \in 1 .. Pools, NEW i \in 1 .. Len(free[p]), free[p][i] = c
          PROVE  \E j \in 1 .. Len(free'[p]) : free'[p][j] = c
      <4>1. CASE p # q
        BY <2>2, <3>4, <4>1
      <4>2. CASE p = q
        <5>1. i # 1
          BY <2>3, <3>4, <4>2
        <5>2. i - 1 \in 1 .. Len(taken) /\ i - 1 + 1 = i
          BY <2>3, <4>2, <5>1
        <5>3. taken[i - 1] = c
          BY <2>3, <3>4, <4>2, <5>2
        <5> QED BY <2>2, <4>2, <5>2, <5>3
      <4> QED BY <4>1, <4>2
    <3> QED BY <1>0, <1>5, <3>1, <3>2, <3>3, <3>4 DEF Placed, Somewhere
  <2>11. OneUser'
    <3>1. ASSUME NEW u \in Tasks, NEW c \in Blocks
          PROVE  \A as \in Ways : Claim(as, u, c)' <=> Claim(as, u, c)
      <4>1. CASE u = t
        BY <2>5, <4>1
      <4>2. CASE u # t
        BY <2>6, <4>2
      <4> QED BY <4>1, <4>2
    <3> QED BY <1>0, <1>1, <1>5, <3>1, UsersStay DEF Placed
  <2>12. ListCurrent(t)'
    BY <1>1 DEF ListCurrent, At, Allocates
  <2>13. \A u \in Tasks \ {t} : ListCurrent(u)'
    BY <1>0, <1>1, <1>5, <2>0, <2>2, OthersCurrentAtWrite DEF At
  <2> QED BY <2>8, <2>9, <2>10, <2>11, <2>12, <2>13 DEF Placed
<1> QED BY <1>0, <1>1, <1>3, <1>4, <1>5, KnowOn DEF BlocksInv, Placed

\* deallocate puts its block back.
LEMMA ReturnBlock ==
  ASSUME LocksInv, LocksInv', BlocksInv, NEW t \in Tasks, Write(t), ~Allocates(t)
  PROVE  BlocksInv'
<1>0. TypeOK /\ (\A u \in Tasks : KnowsBlock(u)) /\ (~interfered => Placed)
  BY DEF BlocksInv, Placed
<1>1. /\ OnlyMoves(t) /\ UNCHANGED <<allocated, interfered, call, pool, block, held, finished>>
      /\ pc[t] = "write" /\ pc'[t] = "unlockPool" /\ free' = [free EXCEPT ![pool[t]] = list[t]]
      /\ list' = [list EXCEPT ![t] = <<>>] /\ UNCHANGED <<hung, overlapped, clusterInUseFLAG>>
  BY <1>0 DEF Write, At, Goto, TypeOK, OnlyMoves
<1>2. pool[t] \in 1 .. Pools /\ list[t] \in Seq(Blocks) /\ block[t] \in Blocks
  BY <1>0, <1>1 DEF TypeOK, KnowsBlock
<1>3. TypeOK'
  <2>1. free' \in [1 .. Pools -> Seq(Blocks)] /\ list' \in [Tasks -> Seq(Blocks)]
    BY <1>0, <1>1, <1>2 DEF TypeOK
  <2> QED BY <1>0, <1>1, <2>1, TypesKept DEF TypeOK
<1>4. KnowsBlock(t)'
  BY <1>0, <1>1 DEF KnowsBlock, Allocates
<1>5. ASSUME ~interfered
      PROVE  Placed'
  <2>0. PICK q \in 1 .. Pools, b \in Blocks : q = pool[t] /\ b = block[t]
    BY <1>2
  <2>1. list[t] # <<>> /\ Head(list[t]) = b /\ Tail(list[t]) = free[q] /\ PoolOf[b] = q
    BY <1>0, <1>1, <1>5, <2>0 DEF Placed, ListCurrent, At
  <2>2. list[t] = <<b>> \o free[q]
    BY <1>2, <2>1, HeadAndTail
  <2>3. Pushes(q, b)
    BY <1>1, <2>0, <2>2 DEF Pushes
  <2>4. /\ \A c \in Blocks : OnTheWay(t, c) <=> c = b
        /\ \A c \in Blocks : ~OnTheWay(t, c)'
    BY <1>1, <1>2, <2>0 DEF OnTheWay, OnItsWay, Inside, Allocates
  <2>5. \A as \in Ways, c \in Blocks : Claim(as, t, c)' <=> Claim(as, t, c)
    BY <1>1 DEF Claim, Promised, Allocates
  <2>6. ASSUME NEW u \in Tasks \ {t}, NEW c \in Blocks
        PROVE  /\ OnTheWay(u, c)' <=> OnTheWay(u, c)
               /\ \A as \in Ways : Claim(as, u, c)' <=> Claim(as, u, c)
    BY <1>1, OthersStay DEF OnlyMoves
  <2>7. b \notin allocated /\ \A u \in Tasks \ {t} : ~OnTheWay(u, b)
    BY <1>0, <1>5, <2>4 DEF Placed, OnTheWayOnce
  <2>8. NotFree(b)
    BY <1>0, <1>5, <2>4 DEF Placed, FreeOnce, NotFree
  <2>9. ASSUME NEW u \in Tasks, NEW c \in Blocks, OnTheWay(u, c)'
        PROVE  OnTheWay(u, c) /\ c # b
    <3>1. u # t
      BY <2>4, <2>9
    <3> QED BY <2>6, <2>7, <2>9, <3>1
  <2>10. FreeOnce' /\ FreeNow(q, b)
    <3>1. LetGo(b)
      BY <1>1, <2>7, <2>9 DEF LetGo
    <3>2. TypeOK /\ FreeOnce /\ PoolOf[b] = q
      BY <1>0, <1>5, <2>1 DEF Placed
    <3> QED BY <2>3, <2>8, <3>1, <3>2, PushedOnce
  <2>11. OnTheWayOnce'
    BY <1>0, <1>1, <1>5, <2>9 DEF Placed, OnTheWayOnce
  <2>12. Somewhere'
    <3> SUFFICES ASSUME NEW c \in Blocks
                 PROVE  \/ c \in allocated' \/ \E u \in Tasks : OnTheWay(u, c)'
                        \/ \E p \in 1 .. Pools : \E i \in 1 .. Len(free'[p]) : free'[p][i] = c
      BY DEF Somewhere
    <3>1. CASE c = b
      BY <2>10, <3>1 DEF FreeNow
    <3>2. CASE c # b /\ c \in allocated
      BY <1>1, <3>2
    <3>3. ASSUME c # b, NEW u \in Tasks, OnTheWay(u, c)
          PROVE  OnTheWay(u, c)'
      BY <2>4, <2>6, <3>3
    <3>4. ASSUME NEW p \in 1 .. Pools, NEW i \in 1 .. Len(free[p]), free[p][i] = c
          PROVE  \E j \in 1 .. Len(free'[p]) : free'[p][j] = c
      BY <2>10, <3>4 DEF FreeNow
    <3> QED BY <1>0, <1>5, <3>1, <3>2, <3>3, <3>4 DEF Placed, Somewhere
  <2>13. OneUser'
    <3>1. ASSUME NEW u \in Tasks, NEW c \in Blocks
          PROVE  \A as \in Ways : Claim(as, u, c)' <=> Claim(as, u, c)
      <4>1. CASE u = t
        BY <2>5, <4>1
      <4>2. CASE u # t
        BY <2>6, <4>2
      <4> QED BY <4>1, <4>2
    <3> QED BY <1>0, <1>1, <1>5, <3>1, UsersStay DEF Placed
  <2>14. ListCurrent(t)'
    BY <1>1 DEF ListCurrent, At, Allocates
  <2>15. \A u \in Tasks \ {t} : ListCurrent(u)'
    <3>1. \A p \in 1 .. Pools \ {pool[t]} : free'[p] = free[p]
      BY <1>0, <1>1 DEF TypeOK
    <3> QED BY <1>0, <1>1, <1>5, <3>1, OthersCurrentAtWrite DEF At
  <2> QED BY <2>10, <2>11, <2>12, <2>13, <2>14, <2>15 DEF Placed
<1> QED BY <1>0, <1>1, <1>3, <1>4, <1>5, KnowOn DEF BlocksInv, Placed

\* The table: allocate puts its block in, deallocate takes it out.
LEMMA UseTableBlocks ==
  ASSUME LocksInv', BlocksInv, NEW t \in Tasks, UseTable(t)
  PROVE  BlocksInv'
<1>0. TypeOK /\ (\A u \in Tasks : KnowsBlock(u)) /\ (~interfered => Placed)
  BY DEF BlocksInv, Placed
<1>1. /\ OnlyMoves(t) /\ UNCHANGED <<free, interfered, call, pool, block, list, held, finished>>
      /\ pc[t] = "table" /\ pc'[t] = "unlockTable"
      /\ allocated' = IF Allocates(t) THEN allocated \cup {block[t]} ELSE allocated \ {block[t]}
      /\ UNCHANGED <<hung, overlapped, clusterInUseFLAG>>
  BY <1>0 DEF UseTable, At, Goto, TypeOK, OnlyMoves
<1>2. block[t] \in Blocks \cup {NULL} /\ (Allocates(t) => block[t] \in Blocks)
  BY <1>0, <1>1 DEF TypeOK, KnowsBlock
<1>3. TypeOK'
  <2>1. allocated' \subseteq Blocks
    BY <1>0, <1>1, <1>2 DEF TypeOK
  <2> QED BY <1>0, <1>1, <2>1, TypesKept DEF TypeOK
<1>4. KnowsBlock(t)'
  BY <1>0, <1>1 DEF KnowsBlock, Allocates
<1>5. ASSUME ~interfered
      PROVE  Placed'
  <2>0. PICK b \in Blocks \cup {NULL} : b = block[t]
    BY <1>2
  <2>1. ASSUME NEW u \in Tasks \ {t}, NEW c \in Blocks
        PROVE  /\ OnTheWay(u, c)' <=> OnTheWay(u, c)
               /\ \A as \in Ways : Claim(as, u, c)' <=> Claim(as, u, c)
    BY <1>1, OthersStay DEF OnlyMoves
  <2>2. \A u \in Tasks : ListCurrent(u)'
    <3>1. ListCurrent(t)'
      BY <1>1 DEF ListCurrent, At, Allocates
    <3> QED BY <1>0, <1>1, <1>5, <3>1, OthersCurrent DEF Placed
  <2>3. \A c \in Blocks : /\ Claim("memory", t, c)' <=> Claim("memory", t, c)
                          /\ Claim("stack", t, c)' <=> Claim("stack", t, c)
    BY <1>1 DEF Claim
  <2>4. \A p \in 1 .. Pools : \A i \in 1 .. Len(free[p]) : free[p][i] \in Blocks
    BY <1>0, FreeTyped
  <2>5. CASE Allocates(t)
    <3>1. /\ b \in Blocks /\ allocated' = allocated \cup {b}
          /\ \A c \in Blocks : /\ OnTheWay(t, c) <=> c = b
                               /\ ~OnTheWay(t, c)'
                               /\ ~Claim("call", t, c)
                               /\ Claim("call", t, c)' <=> c = b
      BY <1>1, <1>2, <2>0, <2>5 DEF OnTheWay, OnItsWay, Inside, Allocates, Claim, Promised
    <3>2. b \notin allocated /\ \A u \in Tasks \ {t} : ~OnTheWay(u, b)
      BY <1>0, <1>5, <3>1 DEF Placed, OnTheWayOnce
    <3>3. ASSUME NEW u \in Tasks, NEW c \in Blocks
          PROVE  OnTheWay(u, c)' <=> OnTheWay(u, c) /\ c # b
      <4>1. CASE u = t
        BY <3>1, <4>1
      <4>2. CASE u # t
        BY <2>1, <3>1, <3>2, <4>2
      <4> QED BY <4>1, <4>2
    <3>4. FreeOnce'
      <4>1. \A p \in 1 .. Pools : \A i \in 1 .. Len(free[p]) : free[p][i] # b
        BY <1>0, <1>5, <3>1 DEF Placed, FreeOnce
      <4>2. free' = free
        BY <1>1
      <4>3. FreeOnce
        BY <1>0, <1>5 DEF Placed
      <4> SUFFICES ASSUME NEW p \in 1 .. Pools, NEW i \in 1 .. Len(free[p])
                   PROVE  /\ PoolOf[free[p][i]] = p /\ free[p][i] \notin allocated'
                          /\ \A j \in 1 .. Len(free[p]) : free[p][j] = free[p][i] => i = j
                          /\ \A u \in Tasks : ~OnTheWay(u, free[p][i])'
        BY <4>2 DEF FreeOnce
      <4>4. /\ PoolOf[free[p][i]] = p /\ free[p][i] \notin allocated
            /\ \A j \in 1 .. Len(free[p]) : free[p][j] = free[p][i] => i = j
            /\ \A u \in Tasks : ~OnTheWay(u, free[p][i])
        BY <4>3 DEF FreeOnce
      <4>5. free[p][i] \in Blocks /\ free[p][i] # b
        BY <2>4, <4>1
      <4>6. \A u \in Tasks : ~OnTheWay(u, free[p][i])'
        <5>1. PICK c \in Blocks : c = free[p][i]
          BY <4>5
        <5>2. \A u \in Tasks : ~OnTheWay(u, c)'
          BY <3>3, <4>4, <4>5, <5>1
        <5> QED BY <4>2, <5>1, <5>2
      <4> QED BY <3>1, <4>4, <4>5, <4>6
    <3>5. OnTheWayOnce'
      BY <1>0, <1>5, <3>1, <3>3 DEF Placed, OnTheWayOnce
    <3>6. Somewhere'
      <4>1. free' = free
        BY <1>1
      <4> QED BY <1>0, <1>5, <3>1, <3>3, <4>1 DEF Placed, Somewhere
    <3>7. OneUser'
      <4>1. ASSUME NEW c \in Blocks, NEW as \in Ways, NEW u \in Tasks, Claim(as, u, c)'
            PROVE  \/ c = b /\ as = "call" /\ u = t
                   \/ c # b /\ Claim(as, u, c)
        <5>1. Claim(as, u, c) => c # b
          BY <1>0, <1>5, <3>2 DEF Placed, OneUser
        <5>2. CASE u = t
          <6>1. Claim(as, t, c)'
            BY <4>1, <5>2
          <6> QED BY <2>3, <3>1, <5>1, <5>2, <6>1 DEF Ways
        <5>3. CASE u # t
          BY <2>1, <4>1, <5>1, <5>3
        <5> QED BY <5>2, <5>3
      <4> SUFFICES ASSUME NEW c \in Blocks, NEW as \in Ways, NEW u \in Tasks, Claim(as, u, c)'
                   PROVE  c \in allocated' /\ \A is \in Ways, v \in Tasks :
                                                Claim(is, v, c)' => as = is /\ u = v
        BY DEF OneUser
      <4>2. CASE c = b
        BY <3>1, <4>1, <4>2
      <4>3. CASE c # b
        <5>1. Claim(as, u, c) /\ \A is \in Ways, v \in Tasks : Claim(is, v, c)' => Claim(is, v, c)
          BY <4>1, <4>3
        <5>2. c \in allocated /\ \A is \in Ways, v \in Tasks : Claim(is, v, c) => as = is /\ u = v
          BY <1>0, <1>5, <5>1 DEF Placed, OneUser
        <5>3. c \in allocated'
          BY <3>1, <5>2
        <5> QED BY <5>1, <5>2, <5>3
      <4> QED BY <4>2, <4>3
    <3> QED BY <2>2, <3>4, <3>5, <3>6, <3>7 DEF Placed
  <2>6. CASE ~Allocates(t)
    <3>1. /\ allocated' = allocated \ {b}
          /\ \A c \in Blocks : /\ ~OnTheWay(t, c)
                               /\ OnTheWay(t, c)' <=> c = b
                               /\ Claim("call", t, c) <=> c = b
                               /\ ~Claim("call", t, c)'
      BY <1>1, <1>2, <2>0, <2>6 DEF OnTheWay, OnItsWay, Inside, Allocates, Claim, Promised
    <3>2. \A c \in Blocks : c = b => c \in allocated
      BY <1>0, <1>5, <3>1 DEF Placed, OneUser, Ways
    <3>9. ASSUME NEW as \in Ways, NEW u \in Tasks, NEW c \in Blocks, Claim(as, u, c), c = b
          PROVE  as = "call" /\ u = t
      <4>1. Claim("call", t, c) /\ "call" \in Ways
        BY <3>1, <3>9 DEF Ways
      <4>2. \A is \in Ways, v \in Tasks : Claim(is, v, c) => as = is /\ u = v
        BY <1>0, <1>5, <3>9 DEF Placed, OneUser
      <4> QED BY <4>1, <4>2
    <3>3. ASSUME NEW u \in Tasks, NEW c \in Blocks
          PROVE  OnTheWay(u, c)' <=> (u = t /\ c = b) \/ (c # b /\ OnTheWay(u, c))
      <4>1. CASE u = t
        BY <3>1, <4>1
      <4>2. CASE u # t
        <5>1. OnTheWay(u, c) => c # b
          BY <1>0, <1>5, <3>2 DEF Placed, OnTheWayOnce
        <5> QED BY <2>1, <4>2, <5>1
      <4> QED BY <4>1, <4>2
    <3>4. FreeOnce'
      <4>1. \A p \in 1 .. Pools : \A i \in 1 .. Len(free[p]) : free[p][i] # b
        BY <1>0, <1>5, <2>4, <3>2 DEF Placed, FreeOnce
      <4>2. free' = free
        BY <1>1
      <4>3. FreeOnce
        BY <1>0, <1>5 DEF Placed
      <4> SUFFICES ASSUME NEW p \in 1 .. Pools, NEW i \in 1 .. Len(free[p])
                   PROVE  /\ PoolOf[free[p][i]] = p /\ free[p][i] \notin allocated'
                          /\ \A j \in 1 .. Len(free[p]) : free[p][j] = free[p][i] => i = j
                          /\ \A u \in Tasks : ~OnTheWay(u, free[p][i])'
        BY <4>2 DEF FreeOnce
      <4>4. /\ PoolOf[free[p][i]] = p /\ free[p][i] \notin allocated
            /\ \A j \in 1 .. Len(free[p]) : free[p][j] = free[p][i] => i = j
            /\ \A u \in Tasks : ~OnTheWay(u, free[p][i])
        BY <4>3 DEF FreeOnce
      <4>5. free[p][i] \in Blocks /\ free[p][i] # b
        BY <2>4, <4>1
      <4>6. \A u \in Tasks : ~OnTheWay(u, free[p][i])'
        <5>1. PICK c \in Blocks : c = free[p][i]
          BY <4>5
        <5>2. \A u \in Tasks : ~OnTheWay(u, c)'
          BY <3>3, <4>4, <4>5, <5>1
        <5> QED BY <4>2, <5>1, <5>2
      <4> QED BY <3>1, <4>4, <4>5, <4>6
    <3>5. OnTheWayOnce'
      BY <1>0, <1>5, <3>1, <3>3 DEF Placed, OnTheWayOnce
    <3>6. Somewhere'
      <4>1. free' = free
        BY <1>1
      <4> QED BY <1>0, <1>5, <3>1, <3>3, <4>1 DEF Placed, Somewhere
    <3>7. OneUser'
      <4>1. ASSUME NEW c \in Blocks, NEW as \in Ways, NEW u \in Tasks, Claim(as, u, c)'
            PROVE  Claim(as, u, c) /\ c # b
        <5>1. CASE u = t
          <6>1. Claim(as, t, c)'
            BY <4>1, <5>1
          <6>2. as # "call" /\ Claim(as, t, c)
            BY <2>3, <3>1, <6>1 DEF Ways
          <6>3. c # b
            BY <3>9, <6>2
          <6> QED BY <5>1, <6>2, <6>3
        <5>2. CASE u # t
          <6>1. Claim(as, u, c)
            BY <2>1, <4>1, <5>2
          <6>2. c # b
            BY <3>9, <5>2, <6>1
          <6> QED BY <6>1, <6>2
        <5> QED BY <5>1, <5>2
      <4> SUFFICES ASSUME NEW c \in Blocks, NEW as \in Ways, NEW u \in Tasks, Claim(as, u, c)'
                   PROVE  c \in allocated' /\ \A is \in Ways, v \in Tasks :
                                                Claim(is, v, c)' => as = is /\ u = v
        BY DEF OneUser
      <4>2. c # b /\ Claim(as, u, c) /\ \A is \in Ways, v \in Tasks : Claim(is, v, c)' => Claim(is, v, c)
        BY <4>1
      <4>3. c \in allocated /\ \A is \in Ways, v \in Tasks : Claim(is, v, c) => as = is /\ u = v
        BY <1>0, <1>5, <4>2 DEF Placed, OneUser
      <4>4. c \in allocated'
        BY <3>1, <4>2, <4>3
      <4> QED BY <4>2, <4>3, <4>4
    <3> QED BY <2>2, <3>4, <3>5, <3>6, <3>7 DEF Placed
  <2> QED BY <2>5, <2>6
<1> QED BY <1>0, <1>1, <1>3, <1>4, <1>5, KnowOn DEF BlocksInv, Placed

\* The scheduler frees the stack of a task that has exited.
LEMMA ReclaimBlocks ==
  ASSUME LocksInv', BlocksInv, NEW t \in Tasks, NEW interrupted \in Tasks \cup {NULL}, Reclaim(t, interrupted)
  PROVE  BlocksInv'
<1>0. TypeOK /\ (\A u \in Tasks : KnowsBlock(u)) /\ (~interfered => Placed)
  BY DEF BlocksInv, Placed
<1>1. /\ UNCHANGED <<pc, call, pool, block, list, held, clusterInUseFLAG, overlapped>>
      /\ t \in finished /\ pc[t] = "exited" /\ StackOf[t] \in Blocks
      /\ interfered' = (interfered \/ \E u \in Tasks : Inside(u))
  BY <1>0 DEF Reclaim, MayReclaim, KnowsBlock
<1>3. CASE hung' = TRUE /\ UNCHANGED <<free, allocated, finished>>
  <2>1. TypeOK'
    BY <1>0, <1>1, <1>3, TypesKept DEF TypeOK
  <2>2. \A u \in Tasks : KnowsBlock(u)'
    BY <1>0, <1>1, <1>3 DEF KnowsBlock, Allocates
  <2>3. ASSUME ~interfered'
        PROVE  Placed'
    <3>1. Placed
      BY <1>0, <1>1, <2>3
    <3>2. OnlyMoves(t)
      BY <1>1, <1>3 DEF OnlyMoves
    <3>3. ListCurrent(t)'
      BY <1>1, <1>3, <3>1 DEF Placed, ListCurrent, At, Allocates
    <3>4. \A c \in Blocks : OnTheWay(t, c)' <=> OnTheWay(t, c)
      BY <1>1 DEF OnTheWay, OnItsWay, Inside, Allocates
    <3>5. \A as \in Ways, c \in Blocks : Claim(as, t, c)' <=> Claim(as, t, c)
      BY <1>1, <1>3 DEF Claim, Promised, Allocates
    <3> QED BY <1>0, <1>3, <3>1, <3>2, <3>3, <3>4, <3>5, MovesOn
  <2> QED BY <2>1, <2>2, <2>3 DEF BlocksInv, Placed
<1>4. CASE /\ free' = [free EXCEPT ![PoolOf[StackOf[t]]] = <<StackOf[t]>> \o @]
           /\ allocated' = allocated \ {StackOf[t]} /\ finished' = finished \ {t}
           /\ UNCHANGED hung
  <2>0. PICK q \in 1 .. Pools, b \in Blocks : b = StackOf[t] /\ q = PoolOf[b]
    BY <1>1
  <2>1. Pushes(q, b) /\ allocated' = allocated \ {b}
    BY <1>4, <2>0 DEF Pushes
  <2>2. TypeOK'
    <3>1. free' \in [1 .. Pools -> Seq(Blocks)]
      BY <1>0, <2>1, Pushed
    <3> QED BY <1>0, <1>1, <1>4, <3>1, TypesKept DEF TypeOK
  <2>3. \A u \in Tasks : KnowsBlock(u)'
    BY <1>0, <1>1, <1>4 DEF KnowsBlock, Allocates
  <2>4. ASSUME ~interfered'
        PROVE  Placed'
    <3>1. Placed /\ \A u \in Tasks : ~Inside(u)
      BY <1>0, <1>1, <2>4
    <3>2. \A u \in Tasks, c \in Blocks : ~OnTheWay(u, c) /\ ~OnTheWay(u, c)'
      BY <1>1, <3>1 DEF OnTheWay, OnItsWay, Inside, Allocates
    <3>3. Claim("stack", t, b) /\ "stack" \in Ways
      BY <1>1, <2>0 DEF Claim, Ways
    <3>4. b \in allocated /\ \A as \in Ways, u \in Tasks : Claim(as, u, b) => as = "stack" /\ u = t
      BY <3>1, <3>3 DEF Placed, OneUser
    <3>5. FreeOnce' /\ FreeNow(q, b)
      <4>1. NotFree(b)
        BY <3>1, <3>4 DEF Placed, FreeOnce, NotFree
      <4>2. LetGo(b)
        BY <2>1, <3>2 DEF LetGo
      <4> QED BY <1>0, <2>0, <2>1, <3>1, <4>1, <4>2, PushedOnce DEF Placed
    <3>6. OnTheWayOnce'
      BY <3>2 DEF OnTheWayOnce
    <3>7. Somewhere'
      <4> SUFFICES ASSUME NEW c \in Blocks
                   PROVE  \/ c \in allocated' \/ \E u \in Tasks : OnTheWay(u, c)'
                          \/ \E p \in 1 .. Pools : \E i \in 1 .. Len(free'[p]) : free'[p][i] = c
        BY DEF Somewhere
      <4>1. CASE c = b
        BY <3>5, <4>1 DEF FreeNow
      <4>2. CASE c # b /\ c \in allocated
        BY <2>1, <4>2
      <4>3. ASSUME NEW p \in 1 .. Pools, NEW i \in 1 .. Len(free[p]), free[p][i] = c
            PROVE  \E j \in 1 .. Len(free'[p]) : free'[p][j] = c
        BY <3>5, <4>3 DEF FreeNow
      <4> QED BY <3>1, <3>2, <4>1, <4>2, <4>3 DEF Placed, Somewhere
    <3>8. ASSUME NEW c \in Blocks, NEW as \in Ways, NEW u \in Tasks, Claim(as, u, c)'
          PROVE  Claim(as, u, c) /\ c # b
      <4>1. Claim(as, u, c)
        BY <1>1, <1>4, <3>8 DEF Claim, Promised, Allocates
      <4>2. ~(as = "stack" /\ u = t)
        BY <1>1, <1>4, <3>8 DEF Claim
      <4>3. CASE c = b
        <5>1. Claim(as, u, b)
          BY <4>1, <4>3
        <5> QED BY <3>4, <4>2, <5>1
      <4> QED BY <4>1, <4>3
    <3>9. OneUser'
      <4> SUFFICES ASSUME NEW c \in Blocks, NEW as \in Ways, NEW u \in Tasks, Claim(as, u, c)'
                   PROVE  c \in allocated' /\ \A is \in Ways, v \in Tasks :
                                                Claim(is, v, c)' => as = is /\ u = v
        BY DEF OneUser
      <4>1. c # b /\ Claim(as, u, c) /\ \A is \in Ways, v \in Tasks : Claim(is, v, c)' => Claim(is, v, c)
        BY <3>8
      <4>2. c \in allocated /\ \A is \in Ways, v \in Tasks : Claim(is, v, c) => as = is /\ u = v
        BY <3>1, <4>1 DEF Placed, OneUser
      <4>3. c \in allocated'
        BY <2>1, <4>1, <4>2
      <4> QED BY <4>1, <4>2, <4>3
    <3>10. \A u \in Tasks : ListCurrent(u)'
      BY <1>1, <3>1 DEF ListCurrent, At, Inside
    <3> QED BY <3>5, <3>6, <3>7, <3>9, <3>10 DEF Placed
  <2> QED BY <2>2, <2>3, <2>4 DEF BlocksInv, Placed
<1> QED BY <1>3, <1>4 DEF Reclaim

\* A list without its first blocks.
IsRest(r, s, n) ==
  /\ 1 .. n \subseteq 1 .. Len(s)
  /\ \A i \in 1 .. Len(r) : n + i \in 1 .. Len(s) /\ n + i \notin 1 .. n /\ r[i] = s[n + i]
  /\ \A i \in 1 .. Len(s) : i \in 1 .. n \/ \E j \in 1 .. Len(r) : n + j = i
  /\ \A i, j \in 1 .. Len(r) : n + i = n + j => i = j

LEMMA Rest ==
  ASSUME NEW S, NEW s \in Seq(S), NEW n \in Nat, n <= Len(s), NEW r,
         r = SubSeq(s, n + 1, Len(s))
  PROVE  r \in Seq(S) /\ IsRest(r, s, n)
<1>1. r \in Seq(S) /\ Len(r) = Len(s) - n /\ Len(s) \in Nat
      /\ \A i \in 1 .. Len(r) : r[i] = s[n + i]
  OBVIOUS
<1>2. ASSUME NEW i \in 1 .. Len(s), i \notin 1 .. n
      PROVE  \E j \in 1 .. Len(r) : n + j = i
  <2>1. i - n \in 1 .. Len(r) /\ n + (i - n) = i
    BY <1>1, <1>2
  <2> QED BY <2>1
<1>3. ASSUME NEW i \in 1 .. Len(r)
      PROVE  n + i \in 1 .. Len(s) /\ n + i \notin 1 .. n
  <2>1. i \in Int /\ 1 <= i /\ i <= Len(s) - n
    BY <1>1
  <2> QED BY <1>1, <2>1
<1>4. 1 .. n \subseteq 1 .. Len(s) /\ \A i, j \in 1 .. Len(r) : n + i = n + j => i = j
  BY <1>1
<1> QED BY <1>1, <1>2, <1>3, <1>4 DEF IsRest

LEMMA InitBlocks == Init => BlocksInv
<1> SUFFICES ASSUME Init PROVE BlocksInv
  OBVIOUS
<1>1. PICK taken \in [1 .. Pools -> 0 .. MemorySize] :
        /\ \A p \in 1 .. Pools : taken[p] <= Len(FreeAtFirst[p])
        /\ free = [p \in 1 .. Pools |-> SubSeq(FreeAtFirst[p], taken[p] + 1, Len(FreeAtFirst[p]))]
        /\ Stacks = UNION {{FreeAtFirst[p][i] : i \in 1 .. taken[p]} : p \in 1 .. Pools}
  BY DEF Init
<1>2. ASSUME NEW p \in 1 .. Pools
      PROVE  free[p] \in Seq(Blocks) /\ IsRest(free[p], FreeAtFirst[p], taken[p])
  <2>1. FreeAtFirst[p] \in Seq(Blocks) /\ taken[p] \in Nat /\ taken[p] <= Len(FreeAtFirst[p])
    BY <1>1, PoolsFacts
  <2>2. free[p] = SubSeq(FreeAtFirst[p], taken[p] + 1, Len(FreeAtFirst[p]))
    BY <1>1
  <2> QED BY <2>1, <2>2, Rest
<1>3. /\ owner = [l \in Lockable |-> NULL] /\ pc = [t \in Tasks |-> "user"]
      /\ call = [t \in Tasks |-> "allocate"] /\ block = [t \in Tasks |-> NULL]
      /\ list = [t \in Tasks |-> <<>>] /\ held = [t \in Tasks |-> {}]
      /\ finished = {} /\ ~hung /\ ~overlapped /\ ~interfered /\ ~clusterInUseFLAG
      /\ allocated = Stacks
  BY DEF Init
<1>4. Stacks \subseteq Blocks /\ \A b : b \in Stacks <=> b # NULL /\ \E t \in Tasks : StackOf[t] = b
  BY DEF Stacks
<1>5. TypeOK
  <2>1. free \in [1 .. Pools -> Seq(Blocks)]
    BY <1>1, <1>2
  <2>2. LocksInv
    BY InitEstablishes
  <2>3. list \in [Tasks -> Seq(Blocks)]
    BY <1>3
  <2>4. /\ owner \in [Lockable -> Tasks \cup {NULL}] /\ nested \in [Lockable -> 0 .. 2]
        /\ pc \in [Tasks -> Labels] /\ call \in [Tasks -> {"allocate", "deallocate"}]
        /\ pool \in [Tasks -> 1 .. Pools] /\ smallest \in [Tasks -> 1 .. Pools]
        /\ left \subseteq 1 .. Pools
    BY <2>2 DEF LocksInv, TypesOfLocks
  <2>5. block \in [Tasks -> Blocks \cup {NULL}] /\ held \in [Tasks -> SUBSET Blocks]
        /\ finished \subseteq Tasks /\ allocated \subseteq Blocks
    BY <1>3, <1>4
  <2>6. clusterInUseFLAG \in BOOLEAN /\ hung \in BOOLEAN /\ overlapped \in BOOLEAN
        /\ interfered \in BOOLEAN
    BY DEF Init
  <2> QED BY <2>1, <2>3, <2>4, <2>5, <2>6 DEF TypeOK
<1>6. \A t \in Tasks : KnowsBlock(t) /\ ListCurrent(t) /\ \A b \in Blocks : ~OnTheWay(t, b)
  BY <1>3 DEF KnowsBlock, ListCurrent, OnTheWay, OnItsWay, Inside, Allocates, At
<1>7. ASSUME NEW p \in 1 .. Pools, NEW i \in 1 .. Len(FreeAtFirst[p]),
             NEW q \in 1 .. Pools, NEW j \in 1 .. Len(FreeAtFirst[q]),
             FreeAtFirst[p][i] = FreeAtFirst[q][j]
      PROVE  p = q /\ i = j
  <2>1. p = q
    <3>1. PoolOf[FreeAtFirst[p][i]] = p /\ PoolOf[FreeAtFirst[q][j]] = q
      BY PoolsFacts
    <3> QED BY <1>7, <3>1
  <2> QED BY <1>7, <2>1, PoolsFacts
<1>8. \A p \in 1 .. Pools : \A i \in 1 .. Len(FreeAtFirst[p]) :
        FreeAtFirst[p][i] \in Stacks <=> i \in 1 .. taken[p]
  <2> SUFFICES ASSUME NEW p \in 1 .. Pools, NEW i \in 1 .. Len(FreeAtFirst[p])
               PROVE  FreeAtFirst[p][i] \in Stacks <=> i \in 1 .. taken[p]
    OBVIOUS
  <2>1. i \in 1 .. taken[p] => FreeAtFirst[p][i] \in Stacks
    BY <1>1, SMTT(30)
  <2>2. ASSUME FreeAtFirst[p][i] \in Stacks
        PROVE  i \in 1 .. taken[p]
    <3>1. PICK q \in 1 .. Pools : FreeAtFirst[p][i] \in {FreeAtFirst[q][j] : j \in 1 .. taken[q]}
      BY <1>1, <2>2
    <3>2. PICK j \in 1 .. taken[q] : FreeAtFirst[p][i] = FreeAtFirst[q][j]
      BY <3>1
    <3>3. j \in 1 .. Len(FreeAtFirst[q])
      BY <1>2 DEF IsRest
    <3>4. p = q /\ i = j
      BY <1>7, <3>2, <3>3
    <3> QED BY <3>4
  <2> QED BY <2>1, <2>2
<1>9. FreeOnce
  <2> SUFFICES ASSUME NEW p \in 1 .. Pools, NEW i \in 1 .. Len(free[p])
               PROVE  /\ PoolOf[free[p][i]] = p /\ free[p][i] \notin allocated
                      /\ \A j \in 1 .. Len(free[p]) : free[p][j] = free[p][i] => i = j
                      /\ \A t \in Tasks : ~OnTheWay(t, free[p][i])
    BY DEF FreeOnce
  <2>0. PICK k \in 1 .. Len(FreeAtFirst[p]) : k = taken[p] + i
    BY <1>2 DEF IsRest
  <2>1. PoolOf[free[p][i]] = p /\ free[p][i] \notin allocated
    <3>1. free[p][i] = FreeAtFirst[p][k] /\ k \notin 1 .. taken[p]
      BY <1>2, <2>0 DEF IsRest
    <3>2. PoolOf[FreeAtFirst[p][k]] = p
      BY PoolsFacts
    <3>3. FreeAtFirst[p][k] \notin Stacks
      BY <1>8, <3>1
    <3> QED BY <1>3, <3>1, <3>2, <3>3
  <2>2. ASSUME NEW j \in 1 .. Len(free[p]), free[p][j] = free[p][i]
        PROVE  i = j
    <3>1. PICK l \in 1 .. Len(FreeAtFirst[p]) : l = taken[p] + j
      BY <1>2 DEF IsRest
    <3>2. free[p][i] = FreeAtFirst[p][k] /\ free[p][j] = FreeAtFirst[p][l]
      BY <1>2, <2>0, <3>1 DEF IsRest
    <3>3. k = l
      BY <1>7, <2>2, <3>2
    <3> QED BY <1>2, <2>0, <3>1, <3>3 DEF IsRest
  <2>3. free[p][i] \in Blocks
    BY <1>5, FreeTyped
  <2> QED BY <1>6, <2>1, <2>2, <2>3
<1>10. OnTheWayOnce
  BY <1>6 DEF OnTheWayOnce
<1>11. Somewhere
  <2> SUFFICES ASSUME NEW b \in Blocks, b \notin allocated
               PROVE  \E p \in 1 .. Pools : \E i \in 1 .. Len(free[p]) : free[p][i] = b
    BY DEF Somewhere
  <2>1. PICK p \in 1 .. Pools : \E i \in 1 .. Len(FreeAtFirst[p]) : FreeAtFirst[p][i] = b
    BY PoolsFacts
  <2>2. PICK i \in 1 .. Len(FreeAtFirst[p]) : FreeAtFirst[p][i] = b
    BY <2>1
  <2>3. i \notin 1 .. taken[p]
    BY <1>3, <1>8, <2>2
  <2>4. PICK j \in 1 .. Len(free[p]) : taken[p] + j = i
    BY <1>2, <2>3 DEF IsRest
  <2>5. free[p][j] = b
    BY <1>2, <2>2, <2>4 DEF IsRest
  <2> QED BY <2>5
<1>12. OneUser
  <2>1. \A b \in Blocks, as \in Ways, t \in Tasks : Claim(as, t, b) => as = "stack" /\ b = StackOf[t]
    BY <1>3 DEF Claim, Promised, Allocates
  <2>2. \A b \in Blocks : b # NULL
    OBVIOUS
  <2> SUFFICES ASSUME NEW b \in Blocks, NEW as \in Ways, NEW t \in Tasks, Claim(as, t, b)
               PROVE  b \in allocated /\ \A is \in Ways, u \in Tasks :
                                           Claim(is, u, b) => as = is /\ t = u
    BY DEF OneUser
  <2>3. b \in allocated
    BY <1>3, <1>4, <2>1, <2>2
  <2>4. ASSUME NEW is \in Ways, NEW u \in Tasks, Claim(is, u, b)
        PROVE  as = is /\ t = u
    <3>1. as = "stack" /\ is = "stack" /\ b = StackOf[t] /\ b = StackOf[u]
      BY <2>1, <2>4
    <3> QED BY <2>2, <3>1
  <2> QED BY <2>3, <2>4
<1> QED BY <1>5, <1>6, <1>9, <1>10, <1>11, <1>12 DEF BlocksInv

LEMMA BlocksNextKeeps == IInv /\ [Next]_vars => IInv'
<1> SUFFICES ASSUME LocksInv, BlocksInv, [Next]_vars PROVE LocksInv' /\ BlocksInv'
  BY DEF IInv
<1>1. LocksInv'
  BY NextKeeps
<1>2. ASSUME NEW t \in Tasks, Calls(t) \/ Works(t)
      PROVE  BlocksInv'
  BY <1>1, <1>2, CallAllocateBlocks, CallRefusedBlocks, CallDeallocateBlocks, ExitBlocks,
     LockPoolBlocks, ReadBlocks, TakeBlock, ReturnBlock, LockTableBlocks, UseTableBlocks,
     UnlockTableBlocks, UnlockPoolBlocks, LeaveBlocks DEF Calls, Works
<1>3. ASSUME NEW t \in Tasks, NEW interrupted \in Tasks \cup {NULL}, Reclaim(t, interrupted)
      PROVE  BlocksInv'
  BY <1>1, <1>3, ReclaimBlocks
<1>4. CASE UNCHANGED vars
  <2>1. TypeOK'
    BY <1>1, <1>4 DEF BlocksInv, TypeOK, vars
  <2>2. \A t \in Tasks : /\ KnowsBlock(t)' <=> KnowsBlock(t)
                         /\ ListCurrent(t)' <=> ListCurrent(t)
                         /\ \A b \in Blocks : /\ OnTheWay(t, b)' <=> OnTheWay(t, b)
                                              /\ \A as \in Ways : Claim(as, t, b)' <=> Claim(as, t, b)
    BY <1>4 DEF vars, KnowsBlock, ListCurrent, OnTheWay, OnItsWay, Inside, Allocates, At, Claim,
                Promised
  <2>3. free' = free /\ allocated' = allocated /\ interfered' = interfered
    BY <1>4 DEF vars
  <2>4. ~interfered => FreeOnce' /\ OnTheWayOnce' /\ Somewhere' /\ OneUser'
    BY <2>2, <2>3, BlocksStay DEF BlocksInv
  <2>5. (\A t \in Tasks : KnowsBlock(t)') /\ (~interfered' => \A t \in Tasks : ListCurrent(t)')
    BY <2>2, <2>3 DEF BlocksInv
  <2> QED BY <1>1, <2>1, <2>3, <2>4, <2>5 DEF BlocksInv
<1> QED BY <1>1, <1>2, <1>3, <1>4 DEF Next

-------------------------------------------------------------------------------
\* The inductive invariant: tasks hold the locks their place in memcluster.c calls for
\* (memcluster.c:106-195), and the blocks are where their calls put them.
THEOREM Invariance == Spec => []IInv
<1>1. Init => IInv
  BY InitEstablishes, InitBlocks DEF IInv
<1> QED BY <1>1, BlocksNextKeeps, PTL DEF Spec

\* The only locks that outlive a call are those of pools that allocate found empty
\* (memcluster.c:139-158, 190).
THEOREM LocksComeBack == Spec => []LocksReturned
<1>1. IInv => LocksReturned
  <2> SUFFICES ASSUME LocksInv, NEW l \in Lockable, owner[l] # NULL, l \notin left
               PROVE  Inside(owner[l])
    BY DEF IInv, LocksReturned
  <2>1. PICK t \in Tasks : owner[l] = t
    BY DEF LocksInv, TypesOfLocks
  <2>2. Holds(t, l)
    BY <2>1 DEF LocksInv, HoldsWhatItOwns
  <2> QED BY <2>1, <2>2 DEF Holds, Inside
<1> QED BY <1>1, Invariance, PTL

\* The scheduler frees a stack under somebody's call, or spins on a lock, only after calls
\* overlapped or a lock was left behind (stochasticScheduler.c:600-608).
THEOREM InterferenceNeeds == Spec => InterferesOnlyIf
<1>1. IInv /\ [Next]_vars =>
        [(hung' \/ interfered') /\ ~(hung \/ interfered) => overlapped \/ left # {}]_vars
  <2> SUFFICES ASSUME LocksInv, BlocksInv, Next, hung' \/ interfered', ~hung, ~interfered,
                      ~overlapped, left = {}
               PROVE  FALSE
    BY DEF IInv
  <2>1. PICK t \in Tasks, interrupted \in Tasks \cup {NULL} : Reclaim(t, interrupted)
    BY DEF Next, Calls, Works, CallAllocate, CallRefused, CallDeallocate, Exit, Enter, LockPool,
           Read, Write, LockTable, UseTable, UnlockTable, UnlockPool, Leave
  <2>2. \A u \in Tasks : ~Inside(u)
    BY <2>1 DEF Reclaim, MayReclaim, LocksInv, OneInside
  <2>3. \A l \in Lockable : owner[l] = NULL
    <3> SUFFICES ASSUME NEW l \in Lockable, NEW u \in Tasks, owner[l] = u PROVE FALSE
      BY DEF LocksInv, TypesOfLocks
    <3>1. Holds(u, l)
      BY DEF LocksInv, HoldsWhatItOwns
    <3> QED BY <2>2, <3>1 DEF Holds, Inside
  <2>4. interfered' = FALSE
    BY <2>1, <2>2 DEF Reclaim
  <2>5. hung' = FALSE
    <3>1. StackOf[t] \in Blocks
      BY <2>1 DEF Reclaim, MayReclaim, BlocksInv, KnowsBlock
    <3>2. MayLock(interrupted, Table) /\ MayLock(interrupted, PoolOf[StackOf[t]])
      BY <2>3, <3>1 DEF MayLock
    <3> QED BY <2>1, <3>2 DEF Reclaim
  <2> QED BY <2>4, <2>5
<1> QED BY <1>1, Invariance, PTL DEF Spec, InterferesOnlyIf

\* No block is lost and none comes twice: each is in the list of its pool, in the table or on
\* its way between the two, whatever calls, exits and freeing of stacks interleave
\* (memcluster.c:113-170, 174-230), as long as the scheduler has not freed a stack under a call.
THEOREM BlocksKnown == Spec => []EveryBlockKnown
<1>1. ASSUME BlocksInv, ~interfered, NEW b \in Blocks
      PROVE  \E x : Places(b) = {x}
  <2>1. TypeOK /\ Placed
    BY <1>1 DEF BlocksInv, Placed
  <2>2. \A x : x \in Places(b) <=>
          \/ \E p \in 1 .. Pools : \E i \in DOMAIN free[p] : free[p][i] = b /\ x = <<"pool", p, i>>
          \/ b \in allocated /\ x = <<"table", b>>
          \/ \E t \in Tasks : OnTheWay(t, b) /\ x = <<"task", t>>
    <3>1. \A x : x \in UNION {{<<"pool", p, i>> : i \in {j \in DOMAIN free[p] : free[p][j] = b}} :
                             p \in 1 .. Pools} <=>
                 \E p \in 1 .. Pools : \E i \in DOMAIN free[p] : free[p][i] = b /\ x = <<"pool", p, i>>
      OBVIOUS
    <3>2. \A x : x \in {<<"table", c>> : c \in allocated \cap {b}} <=>
                 b \in allocated /\ x = <<"table", b>>
      OBVIOUS
    <3>3. \A x : x \in {<<"task", t>> : t \in {u \in Tasks : OnItsWay(u) /\ block[u] = b}} <=>
                 \E t \in Tasks : OnTheWay(t, b) /\ x = <<"task", t>>
      BY DEF OnTheWay
    <3> QED BY <3>1, <3>2, <3>3 DEF Places
  <2>3. \A p \in 1 .. Pools : \A i \in DOMAIN free[p] : i \in 1 .. Len(free[p])
    BY <2>1, FreeTyped
  <2>4. CASE b \in allocated
    <3>1. ~\E t \in Tasks : OnTheWay(t, b)
      BY <2>1, <2>4 DEF Placed, OnTheWayOnce
    <3>2. ASSUME NEW p \in 1 .. Pools, NEW i \in DOMAIN free[p]
          PROVE  free[p][i] # b
      BY <2>1, <2>3, <2>4 DEF Placed, FreeOnce
    <3>3. \A x : x \in Places(b) <=> x = <<"table", b>>
      BY <2>2, <2>4, <3>1, <3>2
    <3>4. Places(b) = {<<"table", b>>}
      BY <3>3
    <3> QED BY <3>4
  <2>5. ASSUME NEW t \in Tasks, OnTheWay(t, b)
        PROVE  \E x : Places(b) = {x}
    <3>1. b \notin allocated /\ \A u \in Tasks : OnTheWay(u, b) => t = u
      BY <2>1, <2>5 DEF Placed, OnTheWayOnce
    <3>2. ASSUME NEW p \in 1 .. Pools, NEW i \in DOMAIN free[p]
          PROVE  free[p][i] # b
      BY <2>1, <2>3, <2>5 DEF Placed, FreeOnce
    <3>3. \A x : x \in Places(b) <=> x = <<"task", t>>
      BY <2>2, <2>5, <3>1, <3>2
    <3>4. Places(b) = {<<"task", t>>}
      BY <3>3
    <3> QED BY <3>4
  <2>6. ASSUME NEW p \in 1 .. Pools, NEW i \in 1 .. Len(free[p]), free[p][i] = b
        PROVE  \E x : Places(b) = {x}
    <3>1. b \notin allocated /\ ~\E t \in Tasks : OnTheWay(t, b)
      BY <2>1, <2>6 DEF Placed, FreeOnce
    <3>2. ASSUME NEW q \in 1 .. Pools, NEW j \in DOMAIN free[q], free[q][j] = b
          PROVE  q = p /\ j = i
      <4>1. j \in 1 .. Len(free[q])
        BY <2>3
      <4>2. PoolOf[b] = q /\ PoolOf[b] = p
        BY <2>1, <2>6, <3>2, <4>1 DEF Placed, FreeOnce
      <4> QED BY <2>1, <2>6, <3>2, <4>1, <4>2 DEF Placed, FreeOnce
    <3>3. i \in DOMAIN free[p]
      BY <2>1, FreeTyped
    <3>4. ASSUME NEW x, x \in Places(b)
          PROVE  x = <<"pool", p, i>>
      <4>1. PICK q \in 1 .. Pools : \E j \in DOMAIN free[q] : free[q][j] = b /\ x = <<"pool", q, j>>
        BY <2>2, <3>1, <3>4
      <4>2. PICK j \in DOMAIN free[q] : free[q][j] = b /\ x = <<"pool", q, j>>
        BY <4>1
      <4>3. q = p /\ j = i
        BY <3>2, <4>1, <4>2
      <4> QED BY <4>2, <4>3
    <3>6. <<"pool", p, i>> \in Places(b)
      BY <2>2, <2>6, <3>3
    <3>5. Places(b) = {<<"pool", p, i>>}
      BY <3>4, <3>6
    <3> QED BY <3>5
  <2> QED BY <2>1, <2>4, <2>5, <2>6 DEF Placed, Somewhere
<1>2. IInv => EveryBlockKnown
  BY <1>1, FS_Singleton DEF IInv, EveryBlockKnown
<1> QED BY <1>2, Invariance, PTL

\* What a task was given is in the table, in the cluster's memory and its own word by word
\* (memcluster.c:56-85, 157, 174-191), as long as the scheduler has not freed a stack under a
\* call.
THEOREM NobodySharesWords == Spec => []WordsApart
<1>1. ASSUME BlocksInv, ~interfered, NEW t \in Tasks, NEW b \in held[t]
      PROVE  /\ b \in allocated /\ b \in Blocks
             /\ \A u \in Tasks : \A c \in held[u] : c \in Blocks /\ (t # u => b # c)
  <2>1. \A u \in Tasks : \A c \in held[u] : c \in Blocks /\ Claim("memory", u, c)
    BY <1>1 DEF BlocksInv, TypeOK, Claim
  <2>2. b \in allocated /\ \A u \in Tasks : Claim("memory", u, b) => t = u
    BY <1>1, <2>1 DEF BlocksInv, OneUser, Ways
  <2> QED BY <2>1, <2>2
<1>2. ASSUME BlocksInv
      PROVE  WordsApart
  <2> SUFFICES ASSUME ~interfered, NEW t \in Tasks, NEW b \in held[t]
               PROVE  /\ b \in allocated
                      /\ UserWords(b) \subseteq 0 .. MemorySize - 1
                      /\ \A c \in Blocks : UserWords(b) \cap StructWords(c) = {}
                      /\ \A u \in Tasks : \A c \in held[u] :
                           t # u \/ b # c => UserWords(b) \cap UserWords(c) = {}
    BY DEF WordsApart
  <2>1. /\ b \in allocated /\ b \in Blocks
        /\ \A u \in Tasks : \A c \in held[u] : c \in Blocks /\ (t # u => b # c)
    BY <1>1, <1>2
  <2>2. \A c \in Blocks : /\ UserWords(b) \subseteq 0 .. MemorySize - 1
                          /\ UserWords(b) \cap StructWords(c) = {}
                          /\ b # c => UserWords(b) \cap UserWords(c) = {}
    BY <2>1, BlocksApart
  <2> QED BY <2>1, <2>2
<1> QED BY <1>2, Invariance, PTL DEF IInv
===============================================================================
