------------------------ MODULE ChannelManagerProofs -------------------------
(***************************************************************************)
(* For any keys, values, hash and capacity: the hash table is a bounded    *)
(* multimap that keeps each of its cells in one place.                     *)
(*                                                                         *)
(* For any IDs and channels and any finite number of tasks that connect    *)
(* and disconnect in any order: who asks for one ID meets in one channel,  *)
(* an ID has its channel as long as anybody is connected to it, and the    *)
(* channel is not set up again meanwhile.                                  *)
(***************************************************************************)
EXTENDS ChannelManager, HashTable, DataTheorems, FiniteSetTheorems, TLAPS

-------------------------------------------------------------------------------
(* The hash table, which the channels are kept in. *)

LEMMA TableNumbers ==
  /\ maximumCapacity \in Nat \ {0} /\ numberOfBuckets \in Nat \ {0}
  /\ \A k \in Keys : BucketOf(k) \in Buckets
  /\ \A c \in Cells : c \in CellPointers /\ c # NoCell
  /\ NoCell \in CellPointers /\ NoCell \notin Cells
<1>1. maximumCapacity \in Nat \ {0} /\ numberOfBuckets \in Nat \ {0}
  BY HashTableAssumption
<1>2. ASSUME NEW k \in Keys PROVE BucketOf(k) \in Buckets
  <2>1. Hash[k] \in Nat
    BY HashTableAssumption
  <2> QED BY <1>1, <2>1 DEF BucketOf, Buckets
<1> QED BY <1>1, <1>2 DEF Cells, CellPointers, NoCell, Outside

Walks(links, head, n, cell, length) ==
  /\ cell[0] = head
  /\ \A i \in Nat : cell[i + 1] = IF cell[i] \in Cells THEN links[cell[i]] ELSE NoCell
  /\ \A i \in 0 .. length - 1 : cell[i] \in Cells
  /\ length = n \/ cell[length] \notin Cells
  /\ FirstCells(links, head, n) = [i \in 1 .. length |-> cell[i - 1]]

\* What FirstCells follows: the pointers from a head on, up to the first to no cell.
LEMMA FirstCellsWalk ==
  ASSUME NEW links \in [Cells -> CellPointers], NEW head \in CellPointers, NEW n \in Nat
  PROVE  \E cell \in [Nat -> CellPointers], length \in 0 .. n :
           Walks(links, head, n, cell, length)
<1> DEFINE After(p) == IF p \in Cells THEN links[p] ELSE NoCell
           IsWalk(f) == f = [i \in Nat |-> IF i = 0 THEN head ELSE After(f[i - 1])]
           cell == CHOOSE f : IsWalk(f)
<1>1. cell \in [Nat -> CellPointers] /\ IsWalk(cell)
  <2> DEFINE Step == [i \in Nat |-> [p \in CellPointers |-> After(p)]]
  <2>1. \A p \in CellPointers : After(p) \in CellPointers
    BY TableNumbers
  <2>2. Step \in [Nat -> [CellPointers -> CellPointers]]
    BY <2>1
  <2>3. PICK f \in [Nat -> CellPointers] : Iterates(f, head, Step)
    <3> HIDE DEF Step
    <3> QED BY <2>2, Iteration
  <2>4. \A i \in Nat : f[i] = IF i = 0 THEN head ELSE After(f[i - 1])
    <3>1. f = [i \in Nat |-> IF i = 0 THEN head ELSE Step[i][f[i - 1]]]
      BY <2>3 DEF Iterates
    <3>2. ASSUME NEW i \in Nat, i # 0
          PROVE  Step[i][f[i - 1]] = After(f[i - 1])
      <4>1. f[i - 1] \in CellPointers
        BY <2>3, <3>2
      <4> HIDE DEF After
      <4> QED BY <4>1, <3>2
    <3> HIDE DEF Step, After
    <3> QED BY <3>1, <3>2
  <2>5. IsWalk(f)
    <3> HIDE DEF After
    <3> QED BY <2>4
  <2>6. IsWalk(cell)
    <3> HIDE DEF IsWalk
    <3> QED BY <2>5
  <2>7. ASSUME NEW g, IsWalk(g)
        PROVE  \A i \in Nat : g[i] \in CellPointers
    <3> DEFINE S == {i \in Nat : g[i] \in CellPointers}
    <3>1. 0 \in S
      BY <2>7
    <3>2. ASSUME NEW i \in Nat, i \in S PROVE i + 1 \in S
      <4>1. g[i + 1] = After(g[i])
        <5> HIDE DEF After
        <5> QED BY <2>7
      <4> QED BY <2>1, <3>2, <4>1
    <3>3. \A i \in Nat : i \in S
      <4> HIDE DEF S
      <4> QED BY <3>1, <3>2, Induction
    <3> QED BY <3>3
  <2> HIDE DEF cell
  <2>8. \A i \in Nat : cell[i] \in CellPointers
    <3> HIDE DEF IsWalk
    <3> QED BY <2>6, <2>7
  <2>9. cell = [i \in Nat |-> cell[i]]
    <3> HIDE DEF After
    <3> QED BY <2>6
  <2> QED BY <2>6, <2>8, <2>9
<1>2. FirstCells(links, head, n) =
        SubSeq([i \in 1 .. n |-> cell[i - 1]], 1,
               Cardinality({i \in 1 .. n : cell[i - 1] \in Cells}))
  BY DEF FirstCells
<1> HIDE DEF cell
<1>3. /\ cell[0] = head
      /\ \A i \in Nat : cell[i + 1] = After(cell[i])
  <2> HIDE DEF After
  <2> QED BY <1>1
<1>4. PICK length \in 0 .. n : /\ \A i \in 0 .. length - 1 : cell[i] \in Cells
                               /\ length = n \/ cell[length] \notin Cells
  <2> DEFINE S == {i \in 0 .. n : i = n \/ cell[i] \notin Cells}
  <2>1. n \in S
    OBVIOUS
  <2>2. PICK l \in 0 .. n : l \in S /\ \A i \in 0 .. l - 1 : i \notin S
    <3> S \in SUBSET (0 .. n)
      OBVIOUS
    <3> HIDE DEF S
    <3> QED BY <2>1, First
  <2> QED BY <2>2
<1>5. ASSUME length # n
      PROVE  \A i \in Nat : cell[length + i] \notin Cells
  <2> DEFINE S == {i \in Nat : cell[length + i] \notin Cells}
  <2>1. 0 \in S
    BY <1>4, <1>5
  <2>2. ASSUME NEW i \in Nat, i \in S PROVE i + 1 \in S
    <3>1. cell[length + i + 1] = NoCell
      BY <1>3, <2>2
    <3>2. length + i + 1 = length + (i + 1)
      OBVIOUS
    <3> QED BY <3>1, <3>2, TableNumbers
  <2>3. \A i \in Nat : i \in S
    <3> HIDE DEF S
    <3> QED BY <2>1, <2>2, Induction
  <2> QED BY <2>3
<1>6. {i \in 1 .. n : cell[i - 1] \in Cells} = 1 .. length
  <2>1. ASSUME NEW i \in 1 .. n, cell[i - 1] \in Cells PROVE i \in 1 .. length
    <3>1. CASE length = n
      BY <3>1
    <3>2. CASE length # n
      <4>1. ASSUME i > length PROVE FALSE
        <5>1. i - 1 - length \in Nat /\ length + (i - 1 - length) = i - 1
          BY <4>1
        <5> QED BY <1>5, <2>1, <3>2, <5>1
      <4> QED BY <4>1
    <3> QED BY <3>1, <3>2
  <2>2. ASSUME NEW i \in 1 .. length PROVE i \in 1 .. n /\ cell[i - 1] \in Cells
    BY <1>4
  <2> QED BY <2>1, <2>2
<1>7. Cardinality(1 .. length) = length
  BY FS_Interval
<1>8. FirstCells(links, head, n) = [i \in 1 .. length |-> cell[i - 1]]
  <2> DEFINE s == [i \in 1 .. n |-> cell[i - 1]]
  <2>1. \A i \in 1 .. n : s[i] \in CellPointers
    BY <1>1
  <2>2. s \in Seq(CellPointers) /\ Len(s) = n
    <3>1. s \in [1 .. n -> CellPointers]
      BY <2>1
    <3> HIDE DEF s
    <3> QED BY <3>1, FunctionIsSequence
  <2>3. FirstCells(links, head, n) = SubSeq(s, 1, length)
    BY <1>2, <1>6, <1>7
  <2>4. SubSeq(s, 1, length) = [i \in 1 .. length |-> s[i]]
    <3> HIDE DEF s
    <3> QED BY <2>2
  <2>5. \A i \in 1 .. length : s[i] = cell[i - 1]
    OBVIOUS
  <2> HIDE DEF s
  <2> QED BY <2>3, <2>4, <2>5
<1>9. cell \in [Nat -> CellPointers]
  BY <1>1
<1> HIDE DEF IsWalk
<1>10. Walks(links, head, n, cell, length)
  BY <1>3, <1>4, <1>8 DEF Walks
<1> QED BY <1>9, <1>10

-------------------------------------------------------------------------------
\* What a cell in front of a list makes of it, and what is left without its p-th cell.
Pushed(list, c, new) == /\ Len(new) = Len(list) + 1 /\ new[1] = c
                        /\ \A i \in 1 .. Len(list) : new[i + 1] = list[i]
Dropped(list, p, new) == /\ Len(new) = Len(list) - 1
                         /\ \A i \in 1 .. Len(new) :
                              new[i] = IF i < p THEN list[i] ELSE list[i + 1]
\* Its p-th cell is the first with a key.
Foremost(keys, k, list, p) == keys[list[p]] = k /\ \A i \in 1 .. p - 1 : keys[list[i]] # k
Once(list) == \A i, j \in DOMAIN list : list[i] = list[j] => i = j

\* The cells of a list follow each other from its head; where the last one points.
Linked(links, head, list) == /\ list # <<>> => list[1] = head
                             /\ \A i \in 1 .. Len(list) - 1 : links[list[i]] = list[i + 1]
Last(links, head, list) == IF list = <<>> THEN head ELSE links[list[Len(list)]]

LEMMA FirstCellsLinked ==
  ASSUME NEW links \in [Cells -> CellPointers], NEW head \in CellPointers, NEW n \in Nat,
         NEW list, list = FirstCells(links, head, n)
  PROVE  /\ list \in Seq(Cells) /\ Len(list) \in 0 .. n /\ Linked(links, head, list)
         /\ Len(list) = n \/ Last(links, head, list) \notin Cells
<1>0. PICK cell \in [Nat -> CellPointers], length \in 0 .. n : Walks(links, head, n, cell, length)
  BY FirstCellsWalk
<1>1. /\ cell[0] = head
      /\ \A i \in Nat : cell[i + 1] = IF cell[i] \in Cells THEN links[cell[i]] ELSE NoCell
      /\ \A i \in 0 .. length - 1 : cell[i] \in Cells
      /\ length = n \/ cell[length] \notin Cells
      /\ list = [i \in 1 .. length |-> cell[i - 1]]
  BY <1>0 DEF Walks
<1>2. list \in Seq(Cells) /\ Len(list) = length
  <2>1. \A i \in 1 .. length : i - 1 \in 0 .. length - 1
    OBVIOUS
  <2>2. list \in [1 .. length -> Cells]
    BY <1>1, <2>1
  <2> QED BY <2>2, FunctionIsSequence
<1>3. \A i \in 1 .. length : list[i] = cell[i - 1]
  BY <1>1
<1>4. Linked(links, head, list)
  <2>1. list # <<>> => list[1] = head
    BY <1>1, <1>2, <1>3
  <2>2. ASSUME NEW i \in 1 .. length - 1 PROVE links[list[i]] = list[i + 1]
    <3>1. list[i] = cell[i - 1] /\ list[i + 1] = cell[i] /\ cell[i - 1] \in Cells
      BY <1>1, <1>3
    <3>2. i - 1 \in Nat /\ (i - 1) + 1 = i
      OBVIOUS
    <3> QED BY <1>1, <3>1, <3>2
  <2> QED BY <1>2, <2>1, <2>2 DEF Linked
<1>5. Last(links, head, list) = cell[length]
  <2>1. CASE length = 0
    BY <1>1, <1>2, <2>1 DEF Last
  <2>2. CASE length # 0
    <3>1. length - 1 \in Nat /\ (length - 1) + 1 = length /\ length - 1 \in 0 .. length - 1
      BY <2>2
    <3>2. list[length] = cell[length - 1]
      BY <1>3, <2>2
    <3>3. list # <<>>
      BY <1>2, <2>2
    <3> QED BY <1>1, <1>2, <3>1, <3>2, <3>3 DEF Last
  <2> QED BY <2>1, <2>2
<1> QED BY <1>1, <1>2, <1>4, <1>5

LEMMA LinkedIsFirst ==
  ASSUME NEW links \in [Cells -> CellPointers], NEW head \in CellPointers, NEW n \in Nat,
         NEW list \in Seq(Cells), Len(list) <= n, Linked(links, head, list),
         Len(list) = n \/ Last(links, head, list) \notin Cells
  PROVE  FirstCells(links, head, n) = list
<1>0. PICK cell \in [Nat -> CellPointers], length \in 0 .. n : Walks(links, head, n, cell, length)
  BY FirstCellsWalk
<1>1. /\ cell[0] = head
      /\ \A i \in Nat : cell[i + 1] = IF cell[i] \in Cells THEN links[cell[i]] ELSE NoCell
      /\ \A i \in 0 .. length - 1 : cell[i] \in Cells
      /\ length = n \/ cell[length] \notin Cells
      /\ FirstCells(links, head, n) = [i \in 1 .. length |-> cell[i - 1]]
  BY <1>0 DEF Walks
<1>2. PICK l \in Nat : Len(list) = l /\ \A i \in 1 .. l : list[i] \in Cells
  OBVIOUS
<1>3. \A i \in Nat : i < l => cell[i] = list[i + 1]
  <2> DEFINE S == {i \in Nat : i < l => cell[i] = list[i + 1]}
  <2>1. 0 \in S
    BY <1>1, <1>2 DEF Linked
  <2>2. ASSUME NEW i \in Nat, i \in S PROVE i + 1 \in S
    <3> SUFFICES ASSUME i + 1 < l PROVE cell[i + 1] = list[(i + 1) + 1]
      OBVIOUS
    <3>1. cell[i] = list[i + 1] /\ i + 1 \in 1 .. l - 1 /\ list[i + 1] \in Cells
      BY <1>2, <2>2
    <3>2. links[list[i + 1]] = list[(i + 1) + 1]
      BY <1>2, <3>1 DEF Linked
    <3> QED BY <1>1, <3>1, <3>2
  <2>3. \A i \in Nat : i \in S
    <3> HIDE DEF S
    <3> QED BY <2>1, <2>2, Induction
  <2> QED BY <2>3
<1>4. cell[l] = Last(links, head, list)
  <2>1. CASE l = 0
    BY <1>1, <1>2, <2>1 DEF Last
  <2>2. CASE l # 0
    <3>1. l - 1 \in Nat /\ (l - 1) + 1 = l /\ l - 1 < l /\ list # <<>> /\ list[l] \in Cells
      BY <1>2, <2>2
    <3>2. cell[l - 1] = list[l]
      BY <1>3, <3>1
    <3>3. cell[l] = links[list[l]]
      BY <1>1, <3>1, <3>2
    <3> QED BY <1>2, <3>1, <3>3 DEF Last
  <2> QED BY <2>1, <2>2
<1>5. length = l
  <2>1. ASSUME length < l PROVE FALSE
    <3>1. cell[length] \in Cells
      <4>1. length \in Nat /\ length + 1 \in 1 .. l
        BY <2>1
      <4> QED BY <1>2, <1>3, <2>1, <4>1
    <3> QED BY <1>1, <1>2, <2>1, <3>1
  <2>2. ASSUME l < length PROVE FALSE
    <3>1. cell[l] \in Cells
      BY <1>1, <2>2
    <3> QED BY <1>2, <1>4, <2>2, <3>1
  <2> QED BY <2>1, <2>2
<1>6. list = [i \in 1 .. l |-> list[i]]
  BY <1>2
<1>7. \A i \in 1 .. l : list[i] = cell[i - 1]
  <2> TAKE i \in 1 .. l
  <2>1. i - 1 \in Nat /\ i - 1 < l /\ (i - 1) + 1 = i
    OBVIOUS
  <2> QED BY <1>3, <2>1
<1> QED BY <1>1, <1>5, <1>6, <1>7

\* A list without repetitions fits into the table.
LEMMA ListFits ==
  ASSUME NEW list \in Seq(Cells), Once(list)
  PROVE  Len(list) <= maximumCapacity
<1>1. PICK l \in Nat : Len(list) = l /\ DOMAIN list = 1 .. l /\ \A i \in 1 .. l : list[i] \in Cells
  OBVIOUS
<1>2. list \in Injection(1 .. l, Cells)
  <2>1. list \in [1 .. l -> Cells]
    BY <1>1
  <2> QED BY <1>1, <2>1 DEF Injection, IsInjective, Once
<1>3. IsFiniteSet(1 .. l) /\ Cardinality(1 .. l) = l
  BY FS_Interval
<1>4. IsFiniteSet(Cells) /\ Cardinality(Cells) = maximumCapacity
  BY FS_Interval, TableNumbers DEF Cells
<1>5. Cardinality(1 .. l) <= Cardinality(Cells)
  BY <1>2, <1>3, <1>4, FS_Injection
<1> QED BY <1>1, <1>3, <1>4, <1>5

-------------------------------------------------------------------------------
(* The cells of a list that have a key. *)

Selected(list, keys, k, found) ==
  /\ found[0] = <<>>
  /\ \A i \in 1 .. Len(list) :
       found[i] = IF keys[list[i]] = k THEN Append(found[i - 1], list[i]) ELSE found[i - 1]

LEMMA SelectRuns ==
  ASSUME NEW keys, NEW k, NEW list \in Seq(Cells)
  PROVE  \E found : /\ Selected(list, keys, k, found)
                    /\ \A i \in 0 .. Len(list) : found[i] \in Seq(Cells)
                    /\ Select(keys, k)[list] = found[Len(list)]
<1> DEFINE Longer(before, i) == IF keys[list[i]] = k THEN Append(before, list[i]) ELSE before
           IsRun(f) == f = [i \in Nat |-> IF i = 0 THEN <<>> ELSE Longer(f[i - 1], i)]
           found == CHOOSE f : IsRun(f)
           All == Cells \cup {list[i] : i \in Nat}
           Step == [i \in Nat |-> [before \in Seq(All) |-> Longer(before, i)]]
<1>1. \A i \in Nat, before \in Seq(All) : Longer(before, i) \in Seq(All)
  <2> TAKE i \in Nat, before \in Seq(All)
  <2>1. list[i] \in All
    OBVIOUS
  <2> HIDE DEF All
  <2> QED BY <2>1
<1>2. PICK f \in [Nat -> Seq(All)] : Iterates(f, <<>>, Step)
  <2>1. Step \in [Nat -> [Seq(All) -> Seq(All)]]
    <3> HIDE DEF All, Longer
    <3> QED BY <1>1
  <2>2. <<>> \in Seq(All)
    OBVIOUS
  <2> HIDE DEF Step, All
  <2> QED BY <2>1, <2>2, Iteration
<1>3. IsRun(f)
  <2>1. f = [i \in Nat |-> IF i = 0 THEN <<>> ELSE Step[i][f[i - 1]]]
    BY <1>2 DEF Iterates
  <2>2. \A i \in Nat \ {0} : Step[i][f[i - 1]] = Longer(f[i - 1], i)
    <3> TAKE i \in Nat \ {0}
    <3>1. f[i - 1] \in Seq(All)
      <4> HIDE DEF All
      <4> QED BY <1>2
    <3> HIDE DEF All, Longer
    <3> QED BY <3>1
  <2> HIDE DEF Step, Longer
  <2> QED BY <2>1, <2>2
<1>4. IsRun(found)
  <2> HIDE DEF IsRun
  <2> QED BY <1>3
<1>5. Select(keys, k)[list] = found[Len(list)]
  BY DEF Select
<1> HIDE DEF found
<1>6. Selected(list, keys, k, found)
  <2>1. found[0] = <<>> /\ \A i \in Nat : i # 0 => found[i] = Longer(found[i - 1], i)
    <3> HIDE DEF Longer
    <3> QED BY <1>4
  <2> QED BY <2>1 DEF Selected
<1>7. \A i \in 0 .. Len(list) : found[i] \in Seq(Cells)
  <2> DEFINE S == {i \in Nat : i <= Len(list) => found[i] \in Seq(Cells)}
  <2>1. 0 \in S
    <3>1. found[0] = <<>>
      BY <1>6 DEF Selected
    <3>2. <<>> \in Seq(Cells)
      OBVIOUS
    <3> HIDE DEF Step, All, IsRun
    <3> QED BY <3>1, <3>2
  <2>2. ASSUME NEW i \in Nat, i \in S PROVE i + 1 \in S
    <3> SUFFICES ASSUME i + 1 <= Len(list) PROVE found[i + 1] \in Seq(Cells)
      OBVIOUS
    <3>1. found[i] \in Seq(Cells) /\ list[i + 1] \in Cells /\ i + 1 \in 1 .. Len(list)
      BY <2>2
    <3>2. found[i + 1] = IF keys[list[i + 1]] = k THEN Append(found[i], list[i + 1]) ELSE found[i]
      BY <1>6, <3>1 DEF Selected
    <3> QED BY <3>1, <3>2
  <2>3. \A i \in Nat : i \in S
    <3> HIDE DEF S
    <3> QED BY <2>1, <2>2, Induction
  <2> QED BY <2>3
<1> QED BY <1>5, <1>6, <1>7

\* Whatever goes through the list in that way ends with the same cells.
LEMMA SelectIs ==
  ASSUME NEW keys, NEW k, NEW list \in Seq(Cells), NEW f, Selected(list, keys, k, f)
  PROVE  Select(keys, k)[list] = f[Len(list)]
<1>1. PICK found : Selected(list, keys, k, found) /\ Select(keys, k)[list] = found[Len(list)]
  BY SelectRuns
<1> DEFINE S == {i \in Nat : i <= Len(list) => found[i] = f[i]}
<1>2. 0 \in S
  BY <1>1 DEF Selected
<1>3. ASSUME NEW i \in Nat, i \in S PROVE i + 1 \in S
  <2> SUFFICES ASSUME i + 1 <= Len(list) PROVE found[i + 1] = f[i + 1]
    OBVIOUS
  <2>1. found[i] = f[i] /\ i + 1 \in 1 .. Len(list) /\ (i + 1) - 1 = i
    BY <1>3
  <2> QED BY <1>1, <2>1 DEF Selected
<1>4. \A i \in Nat : i \in S
  <2> HIDE DEF S
  <2> QED BY <1>2, <1>3, Induction
<1> QED BY <1>1, <1>4

LEMMA SelectMembers ==
  ASSUME NEW keys, NEW k, NEW list \in Seq(Cells)
  PROVE  /\ Select(keys, k)[list] \in Seq(Cells)
         /\ \A c : Member(c, Select(keys, k)[list]) <=> Member(c, list) /\ keys[c] = k
<1>1. PICK found : /\ Selected(list, keys, k, found)
                   /\ \A i \in 0 .. Len(list) : found[i] \in Seq(Cells)
                   /\ Select(keys, k)[list] = found[Len(list)]
  BY SelectRuns
<1> DEFINE Passed(i, c) == keys[c] = k /\ \E j \in 1 .. i : list[j] = c
           S == {i \in Nat : i <= Len(list) => \A c : Member(c, found[i]) <=> Passed(i, c)}
<1>2. 0 \in S
  BY <1>1 DEF Selected, Member
<1>3. ASSUME NEW i \in Nat, i \in S PROVE i + 1 \in S
  <2> SUFFICES ASSUME i + 1 <= Len(list), NEW c
               PROVE  Member(c, found[i + 1]) <=> Passed(i + 1, c)
    OBVIOUS
  <2>1. /\ found[i] \in Seq(Cells) /\ list[i + 1] \in Cells /\ i + 1 \in 1 .. Len(list)
        /\ Member(c, found[i]) <=> Passed(i, c)
    BY <1>1, <1>3
  <2>2. found[i + 1] = IF keys[list[i + 1]] = k THEN Append(found[i], list[i + 1]) ELSE found[i]
    BY <1>1, <2>1 DEF Selected
  <2>3. Passed(i + 1, c) <=> Passed(i, c) \/ (keys[c] = k /\ list[i + 1] = c)
    OBVIOUS
  <2>4. Member(c, Append(found[i], list[i + 1])) <=> Member(c, found[i]) \/ c = list[i + 1]
    <3> DEFINE new == Append(found[i], list[i + 1])
    <3>1. /\ DOMAIN found[i] = 1 .. Len(found[i]) /\ DOMAIN new = 1 .. Len(found[i]) + 1
          /\ \A j \in 1 .. Len(found[i]) : new[j] = found[i][j]
          /\ new[Len(found[i]) + 1] = list[i + 1] /\ Len(found[i]) \in Nat
      BY <2>1
    <3> HIDE DEF new
    <3> QED BY <3>1 DEF Member
  <2> HIDE DEF Passed
  <2>5. CASE keys[list[i + 1]] = k
    BY <2>1, <2>2, <2>3, <2>4, <2>5
  <2>6. CASE keys[list[i + 1]] # k
    BY <2>1, <2>2, <2>3, <2>6
  <2> QED BY <2>5, <2>6
<1>4. \A i \in Nat : i \in S
  <2> HIDE DEF S
  <2> QED BY <1>2, <1>3, Induction
<1>5. \A c : Member(c, found[Len(list)]) <=> Passed(Len(list), c)
  BY <1>4
<1>6. \A c : Passed(Len(list), c) <=> Member(c, list) /\ keys[c] = k
  BY DEF Member
<1> QED BY <1>1, <1>5, <1>6

\* Which of them have the key is all that matters of the keys.
SameWith(keys, other, k, list) ==
  \A i \in 1 .. Len(list) : keys[list[i]] = k <=> other[list[i]] = k

LEMMA SelectSame ==
  ASSUME NEW keys, NEW other, NEW k, NEW list \in Seq(Cells), SameWith(keys, other, k, list)
  PROVE  Select(other, k)[list] = Select(keys, k)[list]
<1>1. PICK found : Selected(list, keys, k, found) /\ Select(keys, k)[list] = found[Len(list)]
  BY SelectRuns
<1>2. Selected(list, other, k, found)
  BY <1>1 DEF Selected, SameWith
<1> QED BY <1>1, <1>2, SelectIs

LEMMA SelectNone ==
  ASSUME NEW keys, NEW k
  PROVE  Select(keys, k)[<<>>] = <<>>
<1>1. ASSUME NEW list \in Seq(Cells), Len(list) = 0 PROVE Select(keys, k)[list] = <<>>
  <2>1. PICK found : /\ Selected(list, keys, k, found)
                     /\ Select(keys, k)[list] = found[Len(list)]
    BY SelectRuns
  <2> QED BY <1>1, <2>1 DEF Selected
<1>2. <<>> \in Seq(Cells) /\ Len(<<>>) = 0
  OBVIOUS
<1> QED BY <1>1, <1>2

\* A cell in front of those with a key, if it has the key.
InFront(keys, k, c, found) == IF keys[c] = k THEN <<c>> \o found ELSE found

\* A cell in front of the list is in front of those with its key.
LEMMA SelectPushed ==
  ASSUME NEW keys, NEW k, NEW list \in Seq(Cells), NEW c \in Cells,
         NEW new \in Seq(Cells), Pushed(list, c, new)
  PROVE  Select(keys, k)[new] = InFront(keys, k, c, Select(keys, k)[list])
<1>1. PICK found : /\ Selected(list, keys, k, found)
                   /\ \A i \in 0 .. Len(list) : found[i] \in Seq(Cells)
                   /\ Select(keys, k)[list] = found[Len(list)]
  BY SelectRuns
<1>2. PICK l \in Nat : l = Len(list)
  OBVIOUS
<1>3. /\ new \in Seq(Cells) /\ Len(new) = l + 1 /\ new[1] = c
      /\ \A i \in 2 .. l + 1 : new[i] = list[i - 1]
  BY <1>2 DEF Pushed
<1> DEFINE With(s) == IF keys[c] = k THEN <<c>> \o s ELSE s
           f == [i \in 0 .. l + 1 |-> IF i = 0 THEN <<>> ELSE With(found[i - 1])]
<1>4. f[0] = <<>> /\ \A i \in 1 .. l + 1 : f[i] = With(found[i - 1])
  <2> HIDE DEF With
  <2> QED BY <1>2
<1>a. With(<<>>) = IF keys[c] = k THEN <<c>> ELSE <<>>
  OBVIOUS
<1>b. \A s \in Seq(Cells), e \in Cells : With(Append(s, e)) = Append(With(s), e)
  OBVIOUS
<1>c. Select(keys, k)[list] = found[l] /\ With(found[l]) = With(Select(keys, k)[list])
  BY <1>1, <1>2
<1> HIDE DEF f, With
<1>5. ASSUME NEW i \in 1 .. l + 1
      PROVE  f[i] = IF keys[new[i]] = k THEN Append(f[i - 1], new[i]) ELSE f[i - 1]
  <2>1. CASE i = 1
    <3>1. found[0] = <<>>
      BY <1>1 DEF Selected
    <3>2. f[i] = With(<<>>) /\ f[i - 1] = <<>> /\ new[i] = c
      BY <1>3, <1>4, <2>1, <3>1
    <3>3. Append(<<>>, c) = <<c>>
      OBVIOUS
    <3> QED BY <1>a, <3>2, <3>3
  <2>2. CASE i # 1
    <3> DEFINE s == found[(i - 1) - 1]
    <3>1. i \in 2 .. l + 1 /\ i - 1 \in 1 .. l + 1 /\ i - 1 \in 1 .. l /\ (i - 1) - 1 \in 0 .. l
      BY <2>2
    <3>2. f[i] = With(found[i - 1]) /\ f[i - 1] = With(s) /\ new[i] = list[i - 1]
      BY <1>3, <1>4, <3>1
    <3>3. found[i - 1] = IF keys[list[i - 1]] = k THEN Append(s, list[i - 1]) ELSE s
      BY <1>1, <1>2, <3>1 DEF Selected
    <3>4. s \in Seq(Cells) /\ list[i - 1] \in Cells
      BY <1>1, <1>2, <3>1
    <3> HIDE DEF s
    <3>5. With(Append(s, list[i - 1])) = Append(With(s), list[i - 1])
      BY <1>b, <3>4
    <3> QED BY <3>2, <3>3, <3>5
  <2> QED BY <2>1, <2>2
<1>6. Selected(new, keys, k, f)
  BY <1>3, <1>4, <1>5 DEF Selected
<1>7. Select(keys, k)[new] = f[l + 1]
  <2>1. Select(keys, k)[new] = f[Len(new)]
    BY <1>3, <1>6, SelectIs
  <2> QED BY <1>3, <2>1
<1>8. f[l + 1] = With(Select(keys, k)[list])
  BY <1>c, <1>4, <1>2
<1> QED BY <1>7, <1>8 DEF With, InFront

\* Without its p-th cell a list is without one of those with the key of that cell.
LEMMA SelectOthers ==
  ASSUME NEW keys, NEW k, NEW list \in Seq(Cells), NEW p \in 1 .. Len(list),
         keys[list[p]] # k, NEW new \in Seq(Cells), Dropped(list, p, new)
  PROVE  Select(keys, k)[new] = Select(keys, k)[list]
<1>1. PICK found : Selected(list, keys, k, found) /\ Select(keys, k)[list] = found[Len(list)]
  BY SelectRuns
<1>2. PICK l \in Nat : l = Len(list)
  OBVIOUS
<1>0. /\ Len(new) = Len(list) - 1
      /\ \A i \in 1 .. Len(new) : new[i] = IF i < p THEN list[i] ELSE list[i + 1]
  BY DEF Dropped
<1> DEFINE f == [i \in 0 .. l - 1 |-> IF i < p THEN found[i] ELSE found[i + 1]]
<1>3. /\ \A i \in 0 .. l - 1 : f[i] = IF i < p THEN found[i] ELSE found[i + 1]
      /\ found[p] = found[p - 1]
  BY <1>1 DEF Selected
<1> HIDE DEF f
<1>4. f[0] = <<>>
  BY <1>1, <1>2, <1>3 DEF Selected
<1>5. ASSUME NEW i \in 1 .. l - 1
      PROVE  f[i] = IF keys[new[i]] = k THEN Append(f[i - 1], new[i]) ELSE f[i - 1]
  <2>1. CASE i < p
    <3>1. f[i] = found[i] /\ f[i - 1] = found[i - 1] /\ new[i] = list[i] /\ i \in 1 .. Len(list)
      BY <1>0, <1>2, <1>3, <2>1
    <3> QED BY <1>1, <3>1 DEF Selected
  <2>2. CASE ~(i < p)
    <3>1. f[i] = found[i + 1] /\ new[i] = list[i + 1] /\ i + 1 \in 1 .. Len(list) /\ (i + 1) - 1 = i
      BY <1>0, <1>2, <1>3, <2>2
    <3>2. f[i - 1] = found[i]
      BY <1>0, <1>2, <1>3, <2>2
    <3> QED BY <1>1, <3>1, <3>2 DEF Selected
  <2> QED BY <2>1, <2>2
<1>6. Selected(new, keys, k, f)
  BY <1>0, <1>2, <1>4, <1>5 DEF Selected
<1>7. Select(keys, k)[new] = f[l - 1]
  BY <1>0, <1>2, <1>6, SelectIs
<1>8. f[l - 1] = found[l]
  BY <1>2, <1>3
<1> QED BY <1>1, <1>2, <1>7, <1>8

LEMMA SelectFirst ==
  ASSUME NEW keys, NEW k, NEW list \in Seq(Cells), NEW p \in 1 .. Len(list),
         Foremost(keys, k, list, p),
         NEW new \in Seq(Cells), Dropped(list, p, new)
  PROVE  Select(keys, k)[list] = <<list[p]>> \o Select(keys, k)[new]
<1>1. PICK rest : /\ Selected(new, keys, k, rest)
                  /\ \A i \in 0 .. Len(new) : rest[i] \in Seq(Cells)
                  /\ Select(keys, k)[new] = rest[Len(new)]
  BY SelectRuns
<1>2. PICK l \in Nat : l = Len(list) /\ p \in 1 .. l /\ \A i \in 1 .. l : list[i] \in Cells
  OBVIOUS
<1>0. /\ Len(new) = Len(list) - 1
      /\ \A i \in 1 .. Len(new) : new[i] = IF i < p THEN list[i] ELSE list[i + 1]
      /\ keys[list[p]] = k /\ \A i \in 1 .. p - 1 : keys[list[i]] # k
  BY DEF Dropped, Foremost
<1>3. \A i \in Nat : i < p => rest[i] = <<>>
  <2> DEFINE S == {i \in Nat : i < p => rest[i] = <<>>}
  <2>1. 0 \in S
    BY <1>1 DEF Selected
  <2>2. ASSUME NEW i \in Nat, i \in S PROVE i + 1 \in S
    <3> SUFFICES ASSUME i + 1 < p PROVE rest[i + 1] = <<>>
      OBVIOUS
    <3>1. rest[i] = <<>> /\ i + 1 \in 1 .. Len(new) /\ i + 1 \in 1 .. p - 1 /\ (i + 1) - 1 = i
      BY <1>0, <1>2, <2>2
    <3>2. new[i + 1] = list[i + 1]
      BY <1>0, <3>1
    <3> QED BY <1>0, <1>1, <3>1, <3>2 DEF Selected
  <2>3. \A i \in Nat : i \in S
    <3> HIDE DEF S
    <3> QED BY <2>1, <2>2, Induction
  <2> QED BY <2>3
<1> DEFINE After(s) == <<list[p]>> \o s
           f == [i \in 0 .. l |-> IF i < p THEN <<>> ELSE After(rest[i - 1])]
<1>a. After(<<>>) = Append(<<>>, list[p])
  OBVIOUS
<1>b. \A s \in Seq(Cells), e \in Cells : After(Append(s, e)) = Append(After(s), e)
  <2> list[p] \in Cells
    BY <1>2
  <2> QED OBVIOUS
<1>c. After(Select(keys, k)[new]) = <<list[p]>> \o Select(keys, k)[new]
  OBVIOUS
<1> HIDE DEF After
<1>4. \A i \in 0 .. l : f[i] = IF i < p THEN <<>> ELSE After(rest[i - 1])
  OBVIOUS
<1> HIDE DEF f
<1>5. f[0] = <<>>
  BY <1>2, <1>4
<1>6. ASSUME NEW i \in 1 .. l
      PROVE  f[i] = IF keys[list[i]] = k THEN Append(f[i - 1], list[i]) ELSE f[i - 1]
  <2>1. CASE i < p
    BY <1>0, <1>2, <1>4, <2>1
  <2>2. CASE i = p
    <3>1. f[i] = After(rest[p - 1]) /\ f[i - 1] = <<>> /\ rest[p - 1] = <<>>
      BY <1>2, <1>3, <1>4, <2>2
    <3> QED BY <1>0, <1>a, <2>2, <3>1
  <2>3. CASE i > p
    <3> DEFINE s == rest[(i - 1) - 1]
    <3>1. f[i] = After(rest[i - 1]) /\ f[i - 1] = After(s)
      BY <1>2, <1>4, <2>3
    <3>2. i - 1 \in 1 .. Len(new) /\ (i - 1) - 1 \in 0 .. Len(new) /\ (i - 1) + 1 = i
      BY <1>0, <1>2, <2>3
    <3>3. new[i - 1] = list[i]
      BY <1>0, <2>3, <3>2
    <3>4. rest[i - 1] = IF keys[list[i]] = k THEN Append(s, list[i]) ELSE s
      BY <1>1, <3>2, <3>3 DEF Selected
    <3>5. s \in Seq(Cells) /\ list[i] \in Cells /\ list[p] \in Cells
      BY <1>1, <1>2, <3>2
    <3> HIDE DEF s
    <3>6. After(Append(s, list[i])) = Append(After(s), list[i])
      BY <1>b, <3>5
    <3> QED BY <3>1, <3>4, <3>6
  <2> QED BY <2>1, <2>2, <2>3
<1>7. Selected(list, keys, k, f)
  BY <1>2, <1>5, <1>6 DEF Selected
<1>8. Select(keys, k)[list] = f[l]
  BY <1>2, <1>7, SelectIs
<1>9. f[l] = After(rest[l - 1]) /\ Len(new) = l - 1
  BY <1>0, <1>2, <1>4
<1> QED BY <1>c, <1>1, <1>8, <1>9

-------------------------------------------------------------------------------
\* Pointers that the cells of a list keep, or keep but for the one to the p-th of them.
Unmoved(links, more, list) == \A i \in 1 .. Len(list) : more[list[i]] = links[list[i]]
Passing(links, more, list, p) ==
  \A i \in 1 .. Len(list) : i # p =>
    more[list[i]] = IF i = p - 1 THEN links[list[p]] ELSE links[list[i]]

\* Pointers after the p-th cell of a list has gone to the front of another.
Bypassed(links, more, list, p, first) ==
  /\ more[list[p]] = first
  /\ \A x \in Cells \ {list[p]} :
       more[x] = IF p # 1 /\ x = list[p - 1] THEN links[list[p]] ELSE links[x]

\* What is left of the heads of the lists, and of the keys, without a cell.
Relinked(links, heads, starts, b, p, c) ==
  starts = IF p = 1 THEN [heads EXCEPT ![b] = links[c]] ELSE heads
OthersKeep(keys, named, c) == \A x \in Cells \ {c} : named[x] = keys[x]

LEMMA ListCells ==
  ASSUME NEW list \in Seq(Cells)
  PROVE  /\ DOMAIN list = 1 .. Len(list)
         /\ \A i \in 1 .. Len(list) : list[i] \in Cells /\ Member(list[i], list)
BY DEF Member

LEMMA OnlyEmpty ==
  ASSUME NEW list \in Seq(Cells)
  PROVE  list = <<>> <=> Len(list) = 0
OBVIOUS

LEMMA LinkedSame ==
  ASSUME NEW links \in [Cells -> CellPointers], NEW more, NEW head, NEW list \in Seq(Cells),
         Unmoved(links, more, list)
  PROVE  /\ Linked(links, head, list) => Linked(more, head, list)
         /\ Last(more, head, list) = Last(links, head, list)
<1>1. Linked(links, head, list) => Linked(more, head, list)
  BY DEF Linked, Unmoved
<1>2. list # <<>> => Len(list) \in 1 .. Len(list)
  OBVIOUS
<1>3. Last(more, head, list) = Last(links, head, list)
  BY <1>2 DEF Last, Unmoved
<1> QED BY <1>1, <1>3

LEMMA PushedLinked ==
  ASSUME NEW links, NEW more, NEW head, NEW list \in Seq(Cells), NEW c \in Cells,
         NEW new \in Seq(Cells), Pushed(list, c, new), Linked(links, head, list),
         Unmoved(links, more, list), more[c] = head
  PROVE  /\ Linked(more, c, new)
         /\ Last(more, c, new) = Last(links, head, list)
<1>1. /\ Len(new) = Len(list) + 1 /\ new[1] = c
      /\ \A i \in 1 .. Len(list) : new[i + 1] = list[i]
  BY DEF Pushed
<1>2. PICK l \in Nat : l = Len(list)
  OBVIOUS
<1>3. new # <<>>
  BY <1>1, <1>2
<1>4. ASSUME NEW i \in 1 .. l PROVE more[new[i]] = new[i + 1]
  <2>1. CASE i = 1
    <3>1. list # <<>>
      BY <1>2
    <3> QED BY <1>1, <1>2, <2>1, <3>1 DEF Linked
  <2>2. CASE i # 1
    <3>1. i - 1 \in 1 .. l - 1 /\ (i - 1) + 1 = i /\ i - 1 \in 1 .. l
      BY <2>2
    <3>2. new[i] = list[i - 1] /\ new[i + 1] = list[i]
      BY <1>1, <1>2, <3>1
    <3>3. links[list[i - 1]] = list[i]
      BY <1>2, <3>1 DEF Linked
    <3> QED BY <1>2, <3>1, <3>2, <3>3 DEF Unmoved
  <2> QED BY <2>1, <2>2
<1>5. Linked(more, c, new)
  BY <1>1, <1>2, <1>3, <1>4 DEF Linked
<1>6. CASE l = 0
  <2>1. list = <<>>
    BY <1>2, <1>6, OnlyEmpty
  <2>2. Len(new) = 1
    BY <1>1, <1>2, <1>6
  <2> QED BY <1>1, <1>3, <1>5, <2>1, <2>2 DEF Last
<1>7. CASE l # 0
  <2>1. list # <<>> /\ new[l + 1] = list[l] /\ Len(new) = l + 1 /\ more[list[l]] = links[list[l]]
    BY <1>1, <1>2, <1>7 DEF Unmoved
  <2> QED BY <1>2, <1>3, <1>5, <2>1 DEF Last
<1> QED BY <1>6, <1>7

LEMMA PushedMembers ==
  ASSUME NEW list \in Seq(Cells), NEW c \in Cells, NEW new \in Seq(Cells), Pushed(list, c, new)
  PROVE  /\ \A x : Member(x, new) <=> x = c \/ Member(x, list)
         /\ Once(list) /\ ~Member(c, list) => Once(new)
<1>1. PICK l \in Nat : /\ l = Len(list) /\ DOMAIN list = 1 .. l /\ DOMAIN new = 1 .. l + 1
                       /\ new[1] = c /\ \A i \in 1 .. l : new[i + 1] = list[i]
  BY DEF Pushed
<1>2. \A i \in 2 .. l + 1 : i - 1 \in 1 .. l /\ new[i] = list[i - 1]
  BY <1>1
<1>3. ASSUME NEW x PROVE Member(x, new) <=> x = c \/ Member(x, list)
  <2>1. ASSUME Member(x, new) PROVE x = c \/ Member(x, list)
    <3>1. PICK i \in 1 .. l + 1 : new[i] = x
      BY <1>1, <2>1 DEF Member
    <3>2. CASE i = 1
      BY <1>1, <3>1, <3>2
    <3>3. CASE i # 1
      BY <1>1, <1>2, <3>1, <3>3 DEF Member
    <3> QED BY <3>2, <3>3
  <2>2. ASSUME Member(x, list) PROVE Member(x, new)
    <3>1. PICK i \in 1 .. l : list[i] = x
      BY <1>1, <2>2 DEF Member
    <3>2. new[i + 1] = x /\ i + 1 \in 1 .. l + 1
      BY <1>1, <3>1
    <3> QED BY <1>1, <3>2 DEF Member
  <2>3. Member(c, new)
    BY <1>1 DEF Member
  <2> QED BY <2>1, <2>2, <2>3
<1>4. ASSUME Once(list), ~Member(c, list),
             NEW i \in 1 .. l + 1, NEW j \in 1 .. l + 1, new[i] = new[j]
      PROVE  i = j
  <2>1. CASE i = 1 /\ j # 1
    <3>1. j - 1 \in 1 .. l /\ list[j - 1] = c
      BY <1>1, <1>2, <1>4, <2>1
    <3> QED BY <1>1, <1>4, <3>1 DEF Member
  <2>2. CASE i # 1 /\ j = 1
    <3>1. i - 1 \in 1 .. l /\ list[i - 1] = c
      BY <1>1, <1>2, <1>4, <2>2
    <3> QED BY <1>1, <1>4, <3>1 DEF Member
  <2>3. CASE i # 1 /\ j # 1
    <3>1. i - 1 \in 1 .. l /\ j - 1 \in 1 .. l /\ list[i - 1] = list[j - 1]
      BY <1>1, <1>2, <1>4, <2>3
    <3>2. i - 1 = j - 1
      BY <1>1, <1>4, <3>1 DEF Once
    <3> QED BY <3>2
  <2> QED BY <2>1, <2>2, <2>3
<1>5. Once(list) /\ ~Member(c, list) => Once(new)
  BY <1>1, <1>4 DEF Once
<1> QED BY <1>3, <1>5

LEMMA DroppedMembers ==
  ASSUME NEW list \in Seq(Cells), NEW p \in 1 .. Len(list), NEW new \in Seq(Cells),
         Dropped(list, p, new), Once(list)
  PROVE  /\ \A x : Member(x, new) <=> Member(x, list) /\ x # list[p]
         /\ Once(new)
<1>1. PICK l \in Nat : /\ l = Len(list) /\ DOMAIN list = 1 .. l /\ DOMAIN new = 1 .. l - 1
                       /\ p \in 1 .. l
                       /\ \A i \in 1 .. l - 1 : new[i] = IF i < p THEN list[i] ELSE list[i + 1]
  BY DEF Dropped
<1>2. \A i, j \in 1 .. l : list[i] = list[j] => i = j
  BY <1>1 DEF Once
<1>3. ASSUME NEW x PROVE Member(x, new) <=> Member(x, list) /\ x # list[p]
  <2>1. ASSUME Member(x, new) PROVE Member(x, list) /\ x # list[p]
    <3>1. PICK i \in 1 .. l - 1 : new[i] = x
      BY <1>1, <2>1 DEF Member
    <3>2. PICK j \in 1 .. l : j # p /\ list[j] = x
      <4>1. CASE i < p
        BY <1>1, <3>1, <4>1
      <4>2. CASE ~(i < p)
        BY <1>1, <3>1, <4>2
      <4> QED BY <4>1, <4>2
    <3> QED BY <1>1, <1>2, <3>2 DEF Member
  <2>2. ASSUME Member(x, list), x # list[p] PROVE Member(x, new)
    <3>1. PICK i \in 1 .. l : list[i] = x /\ i # p
      BY <1>1, <2>2 DEF Member
    <3>2. CASE i < p
      BY <1>1, <3>1, <3>2 DEF Member
    <3>3. CASE i > p
      <4>1. i - 1 \in 1 .. l - 1 /\ ~(i - 1 < p) /\ (i - 1) + 1 = i
        BY <1>1, <3>3
      <4> QED BY <1>1, <3>1, <4>1 DEF Member
    <3> QED BY <1>1, <3>1, <3>2, <3>3
  <2> QED BY <2>1, <2>2
<1>4. ASSUME NEW i \in 1 .. l - 1, NEW j \in 1 .. l - 1, new[i] = new[j]
      PROVE  i = j
  <2> DEFINE Old(n) == IF n < p THEN n ELSE n + 1
  <2>1. Old(i) \in 1 .. l /\ Old(j) \in 1 .. l /\ list[Old(i)] = list[Old(j)]
    BY <1>1, <1>4
  <2>2. Old(i) = Old(j)
    <3> HIDE DEF Old
    <3> QED BY <1>2, <2>1
  <2> QED BY <1>1, <2>2
<1>5. Once(new)
  BY <1>1, <1>4 DEF Once
<1> QED BY <1>3, <1>5

LEMMA DroppedLinked ==
  ASSUME NEW links, NEW more, NEW head, NEW list \in Seq(Cells), NEW p \in 1 .. Len(list),
         NEW new \in Seq(Cells), Dropped(list, p, new), Linked(links, head, list),
         Passing(links, more, list, p),
         NEW first, first = IF p = 1 THEN links[list[p]] ELSE head
  PROVE  /\ Linked(more, first, new)
         /\ Last(more, first, new) = Last(links, head, list)
<1>1. PICK l \in Nat : /\ l = Len(list) /\ Len(new) = l - 1 /\ p \in 1 .. l
                       /\ \A i \in 1 .. l - 1 : new[i] = IF i < p THEN list[i] ELSE list[i + 1]
  BY DEF Dropped
<1>a. \A i \in 1 .. l : i # p =>
        more[list[i]] = IF i = p - 1 THEN links[list[p]] ELSE links[list[i]]
  BY <1>1 DEF Passing
<1>2. list # <<>> /\ list[1] = head /\ \A i \in 1 .. l - 1 : links[list[i]] = list[i + 1]
  BY <1>1 DEF Linked
<1>3. Last(links, head, list) = links[list[l]]
  BY <1>1, <1>2 DEF Last
<1>4. ASSUME NEW i \in 1 .. l - 2 PROVE more[new[i]] = new[i + 1]
  <2>1. CASE i < p - 1
    <3>1. new[i] = list[i] /\ new[i + 1] = list[i + 1] /\ i \in 1 .. l /\ i \in 1 .. l - 1
      BY <1>1, <2>1
    <3> QED BY <1>1, <1>2, <1>a, <2>1, <3>1
  <2>2. CASE i = p - 1
    <3>1. new[i] = list[i] /\ new[i + 1] = list[p + 1] /\ i \in 1 .. l /\ p \in 1 .. l - 1
      BY <1>1, <2>2
    <3> QED BY <1>1, <1>2, <1>a, <2>2, <3>1
  <2>3. CASE i > p - 1
    <3>1. /\ new[i] = list[i + 1] /\ new[i + 1] = list[(i + 1) + 1] /\ i + 1 \in 1 .. l
          /\ i + 1 \in 1 .. l - 1 /\ i + 1 # p /\ i + 1 # p - 1
      BY <1>1, <2>3
    <3> QED BY <1>1, <1>2, <1>a, <3>1
  <2> QED BY <1>1, <2>1, <2>2, <2>3
<1>5. new # <<>> => new[1] = first
  <2> SUFFICES ASSUME new # <<>> PROVE new[1] = first
    OBVIOUS
  <2>1. l - 1 \in 1 .. l - 1
    BY <1>1
  <2>2. CASE p = 1
    BY <1>1, <1>2, <2>1, <2>2
  <2>3. CASE p # 1
    BY <1>1, <1>2, <2>1, <2>3
  <2> QED BY <2>2, <2>3
<1>6. Linked(more, first, new)
  BY <1>1, <1>4, <1>5 DEF Linked
<1>7. CASE l = 1
  <2>1. new = <<>> /\ p = 1
    BY <1>1, <1>7
  <2> QED BY <1>3, <1>6, <1>7, <2>1 DEF Last
<1>8. CASE l # 1
  <2>1. new # <<>> /\ l - 1 \in 1 .. l - 1
    BY <1>1, <1>8
  <2>2. more[new[l - 1]] = links[list[l]]
    <3>1. CASE p = l
      <4>1. new[l - 1] = list[l - 1] /\ l - 1 \in 1 .. l /\ l - 1 # p /\ l - 1 = p - 1
        BY <1>1, <1>8, <3>1
      <4> QED BY <1>1, <1>a, <3>1, <4>1
    <3>2. CASE p # l
      <4>1. new[l - 1] = list[l] /\ l \in 1 .. l /\ l # p /\ l # p - 1
        BY <1>1, <2>1, <3>2
      <4> QED BY <1>1, <1>a, <4>1
    <3> QED BY <3>1, <3>2
  <2> QED BY <1>1, <1>3, <1>6, <2>1, <2>2 DEF Last
<1> QED BY <1>7, <1>8

-------------------------------------------------------------------------------
(* Each cell is in one place: the invariant, of any pointers and keys. *)

Places(links, keys, heads, first, room, free, chain) ==
  /\ free \in Seq(Cells) /\ Len(free) = room /\ Linked(links, first, free) /\ Once(free)
  /\ chain \in [Buckets -> Seq(Cells)]
  /\ \A b \in Buckets : /\ Linked(links, heads[b], chain[b]) /\ Once(chain[b])
                        /\ Last(links, heads[b], chain[b]) = NoCell
  /\ \A c \in Cells, b \in Buckets :
       Member(c, chain[b]) <=> ~Member(c, free) /\ b = BucketOf(keys[c])

LEMMA PlacesFound ==
  ASSUME NEW links \in [Cells -> CellPointers], NEW keys \in [Cells -> Keys],
         NEW heads \in [Buckets -> CellPointers], NEW first \in CellPointers, NEW room \in Nat,
         NEW free, NEW chain, Places(links, keys, heads, first, room, free, chain)
  PROVE  /\ FirstCells(links, first, room) = free
         /\ \A b \in Buckets : FirstCells(links, heads[b], maximumCapacity) = chain[b]
<1>1. FirstCells(links, first, room) = free
  BY LinkedIsFirst DEF Places
<1>2. ASSUME NEW b \in Buckets PROVE FirstCells(links, heads[b], maximumCapacity) = chain[b]
  <2>1. /\ chain[b] \in Seq(Cells) /\ heads[b] \in CellPointers
        /\ Linked(links, heads[b], chain[b]) /\ Once(chain[b])
        /\ Last(links, heads[b], chain[b]) \notin Cells
    BY TableNumbers DEF Places
  <2>2. Len(chain[b]) <= maximumCapacity
    BY <2>1, ListFits
  <2> QED BY <2>1, <2>2, LinkedIsFirst, TableNumbers
<1> QED BY <1>1, <1>2

\* The two parts of the invariant, as they are written there.
LEMMA PlacesOnce ==
  ASSUME NEW links \in [Cells -> CellPointers], NEW keys \in [Cells -> Keys],
         NEW heads \in [Buckets -> CellPointers], NEW first \in CellPointers, NEW room \in Nat,
         NEW free, NEW chain, Places(links, keys, heads, first, room, free, chain)
  PROVE  /\ Len(free) = room
         /\ \A i, j \in DOMAIN free : free[i] = free[j] => i = j
         /\ \A c \in Cells : {b \in Buckets : Member(c, chain[b])} =
              IF Member(c, free) THEN {} ELSE {BucketOf(keys[c])}
         /\ \A b \in Buckets :
              /\ \A i, j \in DOMAIN chain[b] : chain[b][i] = chain[b][j] => i = j
              /\ NoCell = IF chain[b] = <<>> THEN heads[b] ELSE links[chain[b][Len(chain[b])]]
<1>1. ASSUME NEW c \in Cells
      PROVE  {b \in Buckets : Member(c, chain[b])} =
               IF Member(c, free) THEN {} ELSE {BucketOf(keys[c])}
  <2>1. \A b \in Buckets : Member(c, chain[b]) <=> ~Member(c, free) /\ b = BucketOf(keys[c])
    BY DEF Places
  <2>2. BucketOf(keys[c]) \in Buckets
    BY TableNumbers
  <2> QED BY <2>1, <2>2
<1>2. Len(free) = room /\ \A i, j \in DOMAIN free : free[i] = free[j] => i = j
  BY DEF Places, Once
<1>3. ASSUME NEW b \in Buckets
      PROVE  /\ \A i, j \in DOMAIN chain[b] : chain[b][i] = chain[b][j] => i = j
             /\ NoCell = IF chain[b] = <<>> THEN heads[b] ELSE links[chain[b][Len(chain[b])]]
  BY DEF Places, Once, Last
<1> QED BY <1>1, <1>2, <1>3

LEMMA PlacesHeld ==
  ASSUME TableTypeOK, NEW free, NEW chain,
         Places(next, key, bucketArray, freeList, remainingCapacity, free, chain)
  PROVE  TableIInv /\ FreeCells = free /\ \A b \in Buckets : Chain(b) = chain[b]
<1>1. /\ next \in [Cells -> CellPointers] /\ key \in [Cells -> Keys]
      /\ bucketArray \in [Buckets -> CellPointers] /\ freeList \in CellPointers
      /\ remainingCapacity \in Nat
  BY TableNumbers DEF TableTypeOK
<1>2. FreeCells = free /\ \A b \in Buckets : Chain(b) = chain[b]
  BY <1>1, PlacesFound DEF FreeCells, Chain
<1>3. EachCellOnce /\ \A b \in Buckets : ChainEnds(b)
  BY <1>1, <1>2, PlacesOnce DEF EachCellOnce, ChainEnds
<1> QED BY <1>2, <1>3 DEF TableIInv

LEMMA PlacesKept ==
  ASSUME TableTypeOK', NEW free, NEW chain,
         Places(next', key', bucketArray', freeList', remainingCapacity', free, chain)
  PROVE  TableIInv' /\ FreeCells' = free /\ \A b \in Buckets : Chain(b)' = chain[b]
<1>1. /\ next' \in [Cells -> CellPointers] /\ key' \in [Cells -> Keys]
      /\ bucketArray' \in [Buckets -> CellPointers] /\ freeList' \in CellPointers
      /\ remainingCapacity' \in Nat
  BY TableNumbers DEF TableTypeOK
<1>2. FreeCells' = free /\ \A b \in Buckets : Chain(b)' = chain[b]
  BY <1>1, PlacesFound DEF FreeCells, Chain
<1>3. EachCellOnce' /\ \A b \in Buckets : ChainEnds(b)'
  BY <1>1, <1>2, PlacesOnce DEF EachCellOnce, ChainEnds
<1> QED BY <1>2, <1>3 DEF TableIInv

LEMMA TablePlaces ==
  ASSUME TableIInv
  PROVE  Places(next, key, bucketArray, freeList, remainingCapacity, FreeCells,
                [b \in Buckets |-> Chain(b)])
<1>1. /\ next \in [Cells -> CellPointers] /\ key \in [Cells -> Keys]
      /\ bucketArray \in [Buckets -> CellPointers] /\ freeList \in CellPointers
      /\ remainingCapacity \in Nat
  BY TableNumbers DEF TableIInv, TableTypeOK
<1>2. /\ FreeCells \in Seq(Cells) /\ Linked(next, freeList, FreeCells)
      /\ Len(FreeCells) = remainingCapacity /\ Once(FreeCells)
  <2>1. FreeCells \in Seq(Cells) /\ Linked(next, freeList, FreeCells)
    BY <1>1, FirstCellsLinked DEF FreeCells
  <2> QED BY <2>1 DEF TableIInv, EachCellOnce, Once
<1>3. ASSUME NEW b \in Buckets
      PROVE  /\ Chain(b) \in Seq(Cells) /\ Linked(next, bucketArray[b], Chain(b))
             /\ Once(Chain(b)) /\ Last(next, bucketArray[b], Chain(b)) = NoCell
  <2>1. Chain(b) \in Seq(Cells) /\ Linked(next, bucketArray[b], Chain(b))
    BY <1>1, FirstCellsLinked, TableNumbers DEF Chain
  <2>2. ChainEnds(b)
    BY DEF TableIInv
  <2> QED BY <2>1, <2>2 DEF ChainEnds, Once, Last
<1>4. ASSUME NEW c \in Cells, NEW b \in Buckets
      PROVE  Member(c, Chain(b)) <=> ~Member(c, FreeCells) /\ b = BucketOf(key[c])
  <2>1. {h \in Buckets : Member(c, Chain(h))} =
          IF Member(c, FreeCells) THEN {} ELSE {BucketOf(key[c])}
    BY DEF TableIInv, EachCellOnce
  <2> QED BY <2>1
<1> DEFINE chain == [b \in Buckets |-> Chain(b)]
<1>5. chain \in [Buckets -> Seq(Cells)] /\ \A b \in Buckets : chain[b] = Chain(b)
  BY <1>3
<1> HIDE DEF chain
<1> QED BY <1>2, <1>3, <1>4, <1>5 DEF Places

\* The first free cell goes to the front of the bucket of its new key.
LEMMA PlacesPut ==
  ASSUME NEW links \in [Cells -> CellPointers], NEW keys \in [Cells -> Keys],
         NEW heads \in [Buckets -> CellPointers], NEW first \in CellPointers,
         NEW room \in Nat \ {0}, NEW free, NEW chain,
         Places(links, keys, heads, first, room, free, chain),
         NEW k \in Keys, NEW b, b = BucketOf(k),
         NEW rest \in Seq(Cells), Dropped(free, 1, rest),
         NEW longer \in Seq(Cells), Pushed(chain[b], first, longer)
  PROVE  /\ first \in Cells
         /\ Places([links EXCEPT ![first] = heads[b]], [keys EXCEPT ![first] = k],
                   [heads EXCEPT ![b] = first], links[first], room - 1,
                   rest, [chain EXCEPT ![b] = longer])
<1> DEFINE more == [links EXCEPT ![first] = heads[b]]
           named == [keys EXCEPT ![first] = k]
           starts == [heads EXCEPT ![b] = first]
           chains == [chain EXCEPT ![b] = longer]
<1>1. /\ free \in Seq(Cells) /\ Len(free) = room /\ Linked(links, first, free) /\ Once(free)
      /\ chain \in [Buckets -> Seq(Cells)] /\ b \in Buckets
      /\ \A h \in Buckets : /\ Linked(links, heads[h], chain[h]) /\ Once(chain[h])
                            /\ Last(links, heads[h], chain[h]) = NoCell
      /\ \A c \in Cells, h \in Buckets :
           Member(c, chain[h]) <=> ~Member(c, free) /\ h = BucketOf(keys[c])
  BY TableNumbers DEF Places
<1>2. first \in Cells /\ free[1] = first /\ 1 \in 1 .. Len(free) /\ Member(first, free)
  <2>1. free # <<>> /\ 1 \in DOMAIN free /\ free[1] \in Cells /\ 1 \in 1 .. Len(free)
    BY <1>1
  <2> QED BY <1>1, <2>1 DEF Linked, Member
<1>3. \A h \in Buckets : ~Member(first, chain[h])
  BY <1>1, <1>2
<1>4. \A h \in Buckets : \A i \in 1 .. Len(chain[h]) : chain[h][i] \in Cells /\ chain[h][i] # first
  BY <1>1, <1>3 DEF Member
<1>5. /\ more[first] = heads[b] /\ \A c \in Cells \ {first} : more[c] = links[c]
      /\ named[first] = k /\ \A c \in Cells \ {first} : named[c] = keys[c]
      /\ starts[b] = first /\ \A h \in Buckets \ {b} : starts[h] = heads[h]
      /\ chains \in [Buckets -> Seq(Cells)]
      /\ chains[b] = longer /\ \A h \in Buckets \ {b} : chains[h] = chain[h]
  BY <1>1, <1>2
<1> HIDE DEF more, named, starts, chains
<1>6. /\ Len(rest) = room - 1 /\ Linked(more, links[first], rest) /\ Once(rest)
      /\ \A x : Member(x, rest) <=> Member(x, free) /\ x # first
  <2>1. Len(rest) = room - 1
    BY <1>1 DEF Dropped
  <2>2. Passing(links, more, free, 1)
    <3>1. ASSUME NEW i \in 1 .. Len(free), i # 1 PROVE free[i] \in Cells /\ free[i] # first
      <4>1. free \in Seq(Cells) /\ Once(free) /\ free[1] = first /\ 1 \in 1 .. Len(free)
        BY <1>1, <1>2
      <4> QED BY <3>1, <4>1, ListCells DEF Once
    <3> QED BY <1>5, <3>1 DEF Passing
  <2>3. Linked(more, links[first], rest)
    BY <1>1, <1>2, <2>2, DroppedLinked
  <2>4. Once(rest) /\ \A x : Member(x, rest) <=> Member(x, free) /\ x # free[1]
    BY <1>1, <1>2, DroppedMembers
  <2> QED BY <1>2, <2>1, <2>3, <2>4
<1>7. /\ Linked(more, first, longer) /\ Last(more, first, longer) = NoCell /\ Once(longer)
      /\ \A x : Member(x, longer) <=> x = first \/ Member(x, chain[b])
  <2>1. /\ chain[b] \in Seq(Cells) /\ Linked(links, heads[b], chain[b]) /\ Once(chain[b])
        /\ Last(links, heads[b], chain[b]) = NoCell /\ ~Member(first, chain[b])
    BY <1>1, <1>3
  <2>2. Unmoved(links, more, chain[b])
    BY <1>1, <1>4, <1>5 DEF Unmoved
  <2>3. Linked(more, first, longer) /\ Last(more, first, longer) = Last(links, heads[b], chain[b])
    BY <1>2, <1>5, <2>1, <2>2, PushedLinked
  <2>4. Once(longer) /\ \A x : Member(x, longer) <=> x = first \/ Member(x, chain[b])
    BY <1>2, <2>1, PushedMembers
  <2> QED BY <2>1, <2>3, <2>4
<1>8. ASSUME NEW h \in Buckets
      PROVE  /\ Linked(more, starts[h], chains[h]) /\ Once(chains[h])
             /\ Last(more, starts[h], chains[h]) = NoCell
  <2>1. CASE h = b
    BY <1>5, <1>7, <2>1
  <2>2. CASE h # b
    <3>1. starts[h] = heads[h] /\ chains[h] = chain[h]
      BY <1>5, <2>2
    <3>2. Unmoved(links, more, chain[h])
      BY <1>4, <1>5 DEF Unmoved
    <3>3. chain[h] \in Seq(Cells)
      BY <1>1
    <3>4. /\ Linked(links, heads[h], chain[h]) /\ Once(chain[h])
          /\ Last(links, heads[h], chain[h]) = NoCell
      BY <1>1
    <3>5. Linked(more, heads[h], chain[h]) /\ Last(more, heads[h], chain[h]) = NoCell
      BY <3>3, <3>2, <3>4, LinkedSame
    <3> QED BY <3>1, <3>4, <3>5
  <2> QED BY <2>1, <2>2
<1>9. ASSUME NEW c \in Cells, NEW h \in Buckets
      PROVE  Member(c, chains[h]) <=> ~Member(c, rest) /\ h = BucketOf(named[c])
  <2>1. CASE h = b /\ c = first
    BY <1>5, <1>6, <1>7, <2>1
  <2>2. CASE h # b /\ c = first
    BY <1>3, <1>5, <2>2
  <2>3. CASE h = b /\ c # first
    <3>1. Member(c, chains[h]) <=> Member(c, chain[h])
      BY <1>5, <1>7, <2>3
    <3> QED BY <1>1, <1>5, <1>6, <2>3, <3>1
  <2>4. CASE h # b /\ c # first
    BY <1>1, <1>5, <1>6, <2>4
  <2> QED BY <2>1, <2>2, <2>3, <2>4
<1>10. Places(more, named, starts, links[first], room - 1, rest, chains)
  BY <1>5, <1>6, <1>8, <1>9 DEF Places
<1> QED BY <1>2, <1>10 DEF more, named, starts, chains

\* A cell of a bucket goes back to the front of the free list.
LEMMA PlacesRemove ==
  ASSUME NEW links \in [Cells -> CellPointers], NEW keys \in [Cells -> Keys],
         NEW heads \in [Buckets -> CellPointers], NEW first \in CellPointers,
         NEW room \in Nat, NEW free, NEW chain,
         Places(links, keys, heads, first, room, free, chain),
         NEW b \in Buckets, NEW p \in 1 .. Len(chain[b]), NEW c, c = chain[b][p],
         NEW shorter \in Seq(Cells), Dropped(chain[b], p, shorter),
         NEW back \in Seq(Cells), Pushed(free, c, back),
         NEW more, Bypassed(links, more, chain[b], p, first),
         NEW starts, Relinked(links, heads, starts, b, p, c),
         NEW named, OthersKeep(keys, named, c)
  PROVE  /\ Places(more, named, starts, c, room + 1, back, [chain EXCEPT ![b] = shorter])
         /\ Len(back) <= maximumCapacity
<1> DEFINE chains == [chain EXCEPT ![b] = shorter]
<1>1. /\ free \in Seq(Cells) /\ Len(free) = room /\ Linked(links, first, free) /\ Once(free)
      /\ chain \in [Buckets -> Seq(Cells)]
      /\ \A h \in Buckets : /\ Linked(links, heads[h], chain[h]) /\ Once(chain[h])
                            /\ Last(links, heads[h], chain[h]) = NoCell
      /\ \A x \in Cells, h \in Buckets :
           Member(x, chain[h]) <=> ~Member(x, free) /\ h = BucketOf(keys[x])
  BY DEF Places
<1>2. c \in Cells /\ Member(c, chain[b]) /\ chain[b] \in Seq(Cells)
  <2>1. chain[b] \in Seq(Cells) /\ p \in DOMAIN chain[b]
    BY <1>1
  <2> QED BY <2>1 DEF Member
<1>a. /\ more[c] = first
      /\ \A x \in Cells \ {c} :
           more[x] = IF p # 1 /\ x = chain[b][p - 1] THEN links[c] ELSE links[x]
  BY DEF Bypassed
<1>b. /\ starts[b] = IF p = 1 THEN links[c] ELSE heads[b]
      /\ \A h \in Buckets \ {b} : starts[h] = heads[h]
      /\ \A x \in Cells \ {c} : named[x] = keys[x]
  BY DEF Relinked, OthersKeep
<1>3. ~Member(c, free) /\ \A h \in Buckets \ {b} : ~Member(c, chain[h])
  BY <1>1, <1>2
<1>4. /\ chains \in [Buckets -> Seq(Cells)]
      /\ chains[b] = shorter /\ \A h \in Buckets \ {b} : chains[h] = chain[h]
  BY <1>1
<1> HIDE DEF chains
<1>5. ASSUME NEW x \in Cells, ~Member(x, chain[b]) PROVE more[x] = links[x]
  <2>1. p # 1 => p - 1 \in DOMAIN chain[b]
    BY <1>2
  <2>2. x # c /\ ~(p # 1 /\ x = chain[b][p - 1])
    BY <1>2, <1>5, <2>1 DEF Member
  <2> QED BY <1>a, <2>2
<1>6. ASSUME NEW i \in 1 .. Len(chain[b]), i # p
      PROVE  more[chain[b][i]] = IF i = p - 1 THEN links[chain[b][p]] ELSE links[chain[b][i]]
  <2>1. \A j \in 1 .. Len(chain[b]) : chain[b][i] = chain[b][j] => i = j
    BY <1>1, <1>2 DEF Once
  <2>2. chain[b][i] \in Cells \ {c}
    BY <1>2, <1>6, <2>1
  <2>3. (p # 1 /\ chain[b][i] = chain[b][p - 1]) <=> i = p - 1
    <3>1. PICK l \in Nat : l = Len(chain[b])
      BY <1>2
    <3>2. i \in 1 .. l /\ p \in 1 .. l
      BY <3>1
    <3>3. p # 1 => p - 1 \in 1 .. l
      BY <3>2
    <3>4. p # 1 => (chain[b][i] = chain[b][p - 1] <=> i = p - 1)
      BY <2>1, <3>1, <3>3
    <3>5. i = p - 1 => p # 1
      BY <3>2
    <3> QED BY <3>4, <3>5
  <2> QED BY <1>a, <2>2, <2>3
<1>7. /\ Linked(more, starts[b], shorter) /\ Last(more, starts[b], shorter) = NoCell
      /\ Once(shorter) /\ \A x : Member(x, shorter) <=> Member(x, chain[b]) /\ x # c
  <2>1. /\ Linked(links, heads[b], chain[b]) /\ Once(chain[b])
        /\ Last(links, heads[b], chain[b]) = NoCell
    BY <1>1
  <2>2. starts[b] = IF p = 1 THEN links[chain[b][p]] ELSE heads[b]
    BY <1>b
  <2>5. Passing(links, more, chain[b], p)
    BY <1>6 DEF Passing
  <2>3. /\ Linked(more, starts[b], shorter)
        /\ Last(more, starts[b], shorter) = Last(links, heads[b], chain[b])
    BY <1>2, <2>1, <2>2, <2>5, DroppedLinked
  <2>4. Once(shorter) /\ \A x : Member(x, shorter) <=> Member(x, chain[b]) /\ x # chain[b][p]
    BY <1>2, <2>1, DroppedMembers
  <2> QED BY <2>1, <2>3, <2>4
<1>8. /\ Len(back) = room + 1 /\ Linked(more, c, back) /\ Once(back)
      /\ \A x : Member(x, back) <=> x = c \/ Member(x, free)
  <2>1. Len(back) = room + 1
    BY <1>1 DEF Pushed
  <2>2. Unmoved(links, more, free)
    <3>1. \A i \in 1 .. Len(free) : free[i] \in Cells /\ Member(free[i], free)
      BY <1>1, ListCells
    <3>2. \A i \in 1 .. Len(free) : ~Member(free[i], chain[b])
      BY <1>1, <3>1
    <3> QED BY <1>5, <3>1, <3>2 DEF Unmoved
  <2>3. Linked(more, c, back)
    BY <1>1, <1>2, <1>a, <2>2, PushedLinked
  <2>4. Once(back) /\ \A x : Member(x, back) <=> x = c \/ Member(x, free)
    BY <1>1, <1>2, <1>3, PushedMembers
  <2> QED BY <2>1, <2>3, <2>4
<1>9. ASSUME NEW h \in Buckets
      PROVE  /\ Linked(more, starts[h], chains[h]) /\ Once(chains[h])
             /\ Last(more, starts[h], chains[h]) = NoCell
  <2>1. CASE h = b
    BY <1>4, <1>7, <2>1
  <2>2. CASE h # b
    <3>1. starts[h] = heads[h] /\ chains[h] = chain[h] /\ chain[h] \in Seq(Cells)
      BY <1>1, <1>4, <1>b, <2>2
    <3>2. Unmoved(links, more, chain[h])
      <4>1. \A i \in 1 .. Len(chain[h]) : chain[h][i] \in Cells /\ Member(chain[h][i], chain[h])
        BY <3>1, ListCells
      <4>2. \A i \in 1 .. Len(chain[h]) : ~Member(chain[h][i], chain[b])
        BY <1>1, <2>2, <4>1
      <4> QED BY <1>5, <4>1, <4>2 DEF Unmoved
    <3>4. /\ Linked(links, heads[h], chain[h]) /\ Once(chain[h])
          /\ Last(links, heads[h], chain[h]) = NoCell
      BY <1>1
    <3>3. chain[h] \in Seq(Cells)
      BY <3>1
    <3>5. Linked(more, heads[h], chain[h])
      BY <3>2, <3>3, <3>4, LinkedSame
    <3>6. Last(more, heads[h], chain[h]) = Last(links, heads[h], chain[h])
      BY <3>2, <3>3, LinkedSame
    <3> QED BY <3>1, <3>4, <3>5, <3>6
  <2> QED BY <2>1, <2>2
<1>10. ASSUME NEW x \in Cells, NEW h \in Buckets
       PROVE  Member(x, chains[h]) <=> ~Member(x, back) /\ h = BucketOf(named[x])
  <2>1. CASE x = c
    BY <1>2, <1>3, <1>4, <1>7, <1>8, <2>1
  <2>2. CASE x # c
    <3>1. Member(x, chains[h]) <=> Member(x, chain[h])
      BY <1>4, <1>7, <2>2
    <3>2. named[x] = keys[x] /\ (Member(x, back) <=> Member(x, free))
      BY <1>8, <1>b, <2>2
    <3> QED BY <1>1, <3>1, <3>2
  <2> QED BY <2>1, <2>2
<1>11. Places(more, named, starts, c, room + 1, back, chains)
  BY <1>4, <1>8, <1>9, <1>10 DEF Places
<1>12. Len(back) <= maximumCapacity
  BY <1>8, ListFits
<1> QED BY <1>11, <1>12 DEF chains

-------------------------------------------------------------------------------
(* The calls. *)

LEMMA ListMoves ==
  ASSUME NEW list \in Seq(Cells)
  PROVE  /\ \A c \in Cells : \E new \in Seq(Cells) : Pushed(list, c, new)
         /\ \A p \in 1 .. Len(list) : \E new \in Seq(Cells) : Dropped(list, p, new)
<1>1. ASSUME NEW c \in Cells PROVE \E new \in Seq(Cells) : Pushed(list, c, new)
  <2> DEFINE new == <<c>> \o list
  <2>1. new \in Seq(Cells) /\ Pushed(list, c, new)
    BY DEF Pushed
  <2> QED BY <2>1
<1>2. ASSUME NEW p \in 1 .. Len(list) PROVE \E new \in Seq(Cells) : Dropped(list, p, new)
  <2> DEFINE new == [i \in 1 .. Len(list) - 1 |-> IF i < p THEN list[i] ELSE list[i + 1]]
  <2>1. new \in [1 .. Len(list) - 1 -> Cells]
    <3>1. ASSUME NEW i \in 1 .. Len(list) - 1
          PROVE  (IF i < p THEN list[i] ELSE list[i + 1]) \in Cells
      <4>1. i \in 1 .. Len(list) /\ i + 1 \in 1 .. Len(list)
        OBVIOUS
      <4> QED BY <4>1, ListCells
    <3> QED BY <3>1
  <2>2. \A i \in 1 .. Len(list) - 1 : new[i] = IF i < p THEN list[i] ELSE list[i + 1]
    OBVIOUS
  <2> HIDE DEF new
  <2>3. Len(list) - 1 \in Nat
    OBVIOUS
  <2>4. new \in Seq(Cells) /\ Len(new) = Len(list) - 1
    BY <2>1, <2>3, FunctionIsSequence
  <2> QED BY <2>2, <2>4 DEF Dropped
<1> QED BY <1>1, <1>2

LEMMA SelectHead ==
  ASSUME NEW keys, NEW k, NEW list \in Seq(Cells), Select(keys, k)[list] # <<>>
  PROVE  \E p \in 1 .. Len(list) :
           Head(Select(keys, k)[list]) = list[p] /\ Foremost(keys, k, list, p)
<1> DEFINE S == {i \in 1 .. Len(list) : keys[list[i]] = k}
<1>1. PICK i \in 1 .. Len(list) : i \in S
  <2>1. PICK found \in Seq(Cells) : found = Select(keys, k)[list]
    BY SelectMembers
  <2>2. Member(found[1], found)
    BY <2>1 DEF Member
  <2>3. Member(found[1], list) /\ keys[found[1]] = k
    BY <2>1, <2>2, SelectMembers
  <2> QED BY <2>3 DEF Member
<1>2. PICK p \in 0 .. Len(list) : p \in S /\ \A j \in 0 .. p - 1 : j \notin S
  <2>1. S \in SUBSET (0 .. Len(list)) /\ Len(list) \in Nat
    OBVIOUS
  <2> HIDE DEF S
  <2> QED BY <1>1, <2>1, First
<1>3. p \in 1 .. Len(list) /\ Foremost(keys, k, list, p)
  BY <1>2 DEF Foremost
<1>4. PICK new \in Seq(Cells) : Dropped(list, p, new)
  BY <1>3, ListMoves
<1>5. Select(keys, k)[list] = <<list[p]>> \o Select(keys, k)[new]
  BY <1>3, <1>4, SelectFirst
<1>6. Select(keys, k)[new] \in Seq(Cells) /\ list[p] \in Cells
  BY <1>3, ListCells, SelectMembers
<1>7. Head(Select(keys, k)[list]) = list[p]
  BY <1>5, <1>6
<1> QED BY <1>3, <1>7

\* A put that is not refused.
LEMMA PutStores ==
  ASSUME TableIInv, NEW k \in Keys, NEW v \in Values, NEW mode \in Modes,
         ~Full, ~Rejects(k, v, mode), Put(k, v, mode)
  PROVE  /\ TableIInv' /\ freeList \in Cells
         /\ \A b \in Buckets : ~Member(freeList, Chain(b))
         /\ Chain(BucketOf(k))' \in Seq(Cells)
         /\ Pushed(Chain(BucketOf(k)), freeList, Chain(BucketOf(k))')
         /\ \A b \in Buckets \ {BucketOf(k)} : Chain(b)' = Chain(b)
<1> DEFINE chain == [h \in Buckets |-> Chain(h)]
           c == freeList
           b == BucketOf(k)
<1>1. TableTypeOK
  BY DEF TableIInv
<1>2. /\ next \in [Cells -> CellPointers] /\ key \in [Cells -> Keys]
      /\ bucketArray \in [Buckets -> CellPointers] /\ freeList \in CellPointers
      /\ remainingCapacity \in Nat \ {0}
  BY <1>1, TableNumbers DEF TableTypeOK, Full
<1>3. Places(next, key, bucketArray, freeList, remainingCapacity, FreeCells, chain)
  BY TablePlaces
<1>4. /\ FreeCells \in Seq(Cells) /\ Len(FreeCells) = remainingCapacity
      /\ chain \in [Buckets -> Seq(Cells)] /\ b \in Buckets
      /\ Linked(next, freeList, FreeCells)
  BY <1>3, TableNumbers DEF Places
<1>5. c \in Cells /\ Member(c, FreeCells)
  <2>1. FreeCells # <<>> /\ 1 \in 1 .. Len(FreeCells)
    BY <1>2, <1>4
  <2>2. FreeCells[1] = c
    BY <1>4, <2>1 DEF Linked
  <2> QED BY <1>4, <2>1, <2>2, ListCells
<1>6. PICK rest \in Seq(Cells) : Dropped(FreeCells, 1, rest)
  <2>1. 1 \in 1 .. Len(FreeCells)
    BY <1>2, <1>4
  <2> QED BY <1>4, <2>1, ListMoves
<1>7. PICK longer \in Seq(Cells) : Pushed(chain[b], c, longer)
  <2>1. chain[b] \in Seq(Cells)
    BY <1>4
  <2> QED BY <1>5, <2>1, ListMoves
<1>8. /\ freeList' = next[c] /\ next' = [next EXCEPT ![c] = bucketArray[b]]
      /\ key' = [key EXCEPT ![c] = k] /\ bucketArray' = [bucketArray EXCEPT ![b] = c]
      /\ remainingCapacity' = remainingCapacity - 1
      /\ underlyingData' = [underlyingData EXCEPT ![c] = v]
      /\ validValueFlag' = validValueFlag /\ answer' = <<mode, TRUE>>
  BY DEF Put
<1> HIDE DEF chain
<1>9. Places(next', key', bucketArray', freeList', remainingCapacity',
             rest, [chain EXCEPT ![b] = longer])
  BY <1>2, <1>3, <1>6, <1>7, <1>8, PlacesPut
<1>10. TableTypeOK'
  <2>1. /\ next' \in [Cells -> CellPointers] /\ key' \in [Cells -> Keys]
        /\ bucketArray' \in [Buckets -> CellPointers] /\ freeList' \in CellPointers
    BY <1>2, <1>4, <1>5, <1>8
  <2>2. underlyingData' \in [Cells -> Values]
    BY <1>1, <1>8 DEF TableTypeOK
  <2>4. remainingCapacity' \in 0 .. maximumCapacity
    BY <1>1, <1>2, <1>8, TableNumbers DEF TableTypeOK
  <2>3. validValueFlag' \in BOOLEAN /\ answer' \in Values \cup (Modes \X BOOLEAN)
    BY <1>1, <1>8 DEF TableTypeOK
  <2> QED BY <2>1, <2>2, <2>3, <2>4 DEF TableTypeOK
<1>11. TableIInv' /\ \A h \in Buckets : Chain(h)' = [chain EXCEPT ![b] = longer][h]
  BY <1>9, <1>10, PlacesKept
<1>12. Chain(b)' = longer /\ \A h \in Buckets \ {b} : Chain(h)' = chain[h]
  BY <1>4, <1>11
<1>13. \A h \in Buckets : ~Member(c, chain[h])
  BY <1>3, <1>5 DEF Places
<1>14. \A h \in Buckets : chain[h] = Chain(h)
  BY DEF chain
<1> QED BY <1>4, <1>5, <1>7, <1>11, <1>12, <1>13, <1>14

\* A remove that finds its key.
LEMMA RemoveUnlinks ==
  ASSUME TableIInv, NEW k \in Keys, Remove(k), CellsWith(k) # <<>>
  PROVE  /\ TableIInv'
         /\ Chain(BucketOf(k)) \in Seq(Cells) /\ Chain(BucketOf(k))' \in Seq(Cells)
         /\ \E p \in 1 .. Len(Chain(BucketOf(k))) :
              /\ Head(CellsWith(k)) = Chain(BucketOf(k))[p]
              /\ Foremost(key, k, Chain(BucketOf(k)), p)
              /\ Dropped(Chain(BucketOf(k)), p, Chain(BucketOf(k))')
         /\ \A b \in Buckets \ {BucketOf(k)} :
              Chain(b)' = Chain(b) /\ ~Member(Head(CellsWith(k)), Chain(b))
<1> DEFINE chain == [h \in Buckets |-> Chain(h)]
           b == BucketOf(k)
           c == Head(CellsWith(k))
<1>1. TableTypeOK
  BY DEF TableIInv
<1>2. /\ next \in [Cells -> CellPointers] /\ key \in [Cells -> Keys]
      /\ bucketArray \in [Buckets -> CellPointers] /\ freeList \in CellPointers
      /\ remainingCapacity \in Nat
  BY <1>1, TableNumbers DEF TableTypeOK
<1>3. Places(next, key, bucketArray, freeList, remainingCapacity, FreeCells, chain)
  BY TablePlaces
<1>4. /\ FreeCells \in Seq(Cells) /\ Len(FreeCells) = remainingCapacity
      /\ chain \in [Buckets -> Seq(Cells)] /\ b \in Buckets
  BY <1>3, TableNumbers DEF Places
<1>5. PICK list \in Seq(Cells) : list = Chain(b) /\ list = chain[b]
  BY <1>4
<1>6. PICK p \in 1 .. Len(list) : c = list[p] /\ Foremost(key, k, list, p)
  <2>1. Select(key, k)[list] # <<>> /\ c = Head(Select(key, k)[list])
    BY <1>5 DEF CellsWith
  <2> HIDE DEF c
  <2> QED BY <2>1, SelectHead
<1>7. c \in Cells /\ Member(c, list)
  BY <1>6, ListCells
<1>8. Linked(next, bucketArray[b], list) /\ Once(list) /\ Last(next, bucketArray[b], list) = NoCell
  BY <1>3, <1>4, <1>5 DEF Places
<1> DEFINE before == {q \in Cells : Member(q, list) /\ next[q] = c}
<1>9. before = IF p = 1 THEN {} ELSE {list[p - 1]}
  <2>1. ASSUME NEW i \in 1 .. Len(list) PROVE next[list[i]] = c <=> i = p - 1
    <3>1. CASE i = Len(list)
      <4>1. next[list[i]] = NoCell
        BY <1>8, <3>1 DEF Last
      <4> QED BY <1>7, <3>1, <4>1, TableNumbers
    <3>2. CASE i # Len(list)
      <4>1. next[list[i]] = list[i + 1] /\ i + 1 \in 1 .. Len(list)
        BY <1>8, <3>2 DEF Linked
      <4>2. list[i + 1] = list[p] <=> i + 1 = p
        BY <1>8, <4>1 DEF Once
      <4> QED BY <1>6, <4>1, <4>2
    <3> QED BY <3>1, <3>2
  <2>2. \A i \in 1 .. Len(list) : list[i] \in Cells /\ Member(list[i], list)
    BY ListCells
  <2>3. \A q : Member(q, list) <=> \E i \in 1 .. Len(list) : list[i] = q
    BY DEF Member
  <2>4. p # 1 => p - 1 \in 1 .. Len(list)
    OBVIOUS
  <2> HIDE DEF c
  <2>5. \A q \in Cells : q \in before <=> \E i \in 1 .. Len(list) : i = p - 1 /\ list[i] = q
    BY <2>1, <2>3
  <2>6. \A q \in before : q \in Cells
    OBVIOUS
  <2> HIDE DEF before
  <2>7. CASE p = 1
    BY <2>5, <2>6, <2>7
  <2>8. CASE p # 1
    BY <2>2, <2>4, <2>5, <2>6, <2>8
  <2> QED BY <2>7, <2>8
<1>10. /\ bucketArray' = IF before = {} THEN [bucketArray EXCEPT ![b] = next[c]] ELSE bucketArray
       /\ next' = [q \in Cells |-> IF q = c THEN freeList
                                   ELSE IF q \in before THEN next[c] ELSE next[q]]
       /\ key' = [key EXCEPT ![c] = ZeroKey]
       /\ underlyingData' = [underlyingData EXCEPT ![c] = Nothing]
       /\ freeList' = c /\ remainingCapacity' = remainingCapacity + 1
       /\ validValueFlag' = TRUE /\ answer' = underlyingData[c]
  BY <1>5 DEF Remove, Unlink, Found
<1>11. PICK shorter \in Seq(Cells) : Dropped(list, p, shorter)
  BY ListMoves
<1>12. PICK back \in Seq(Cells) : Pushed(FreeCells, c, back)
  BY <1>4, <1>7, ListMoves
<1> HIDE DEF chain, c
<1>13. /\ Bypassed(next, next', list, p, freeList)
       /\ bucketArray' = IF p = 1 THEN [bucketArray EXCEPT ![b] = next[c]] ELSE bucketArray
       /\ key' = [key EXCEPT ![c] = ZeroKey]
       /\ freeList' = c /\ remainingCapacity' = remainingCapacity + 1
  <2> HIDE DEF before
  <2> QED BY <1>2, <1>4, <1>6, <1>7, <1>9, <1>10 DEF Bypassed
<1>14. /\ Places(next', key', bucketArray', freeList', remainingCapacity',
                 back, [chain EXCEPT ![b] = shorter])
       /\ Len(back) <= maximumCapacity
  <2>1. /\ b \in Buckets /\ p \in 1 .. Len(chain[b]) /\ c = chain[b][p]
        /\ Dropped(chain[b], p, shorter) /\ Bypassed(next, next', chain[b], p, freeList)
    BY <1>4, <1>5, <1>6, <1>11, <1>13
  <2>2. Relinked(next, bucketArray, bucketArray', b, p, c) /\ OthersKeep(key, key', c)
    BY <1>2, <1>13 DEF Relinked, OthersKeep
  <2>3. /\ Places(next', key', bucketArray', c, remainingCapacity + 1,
                  back, [chain EXCEPT ![b] = shorter])
        /\ Len(back) <= maximumCapacity
    BY <1>2, <1>3, <1>12, <2>1, <2>2, PlacesRemove
  <2> QED BY <1>13, <2>3
<1>15. TableTypeOK'
  <2>1. /\ next' \in [Cells -> CellPointers] /\ bucketArray' \in [Buckets -> CellPointers]
        /\ freeList' \in CellPointers
    <3>1. next[c] \in CellPointers /\ c \in CellPointers
      BY <1>2, <1>7, TableNumbers
    <3> HIDE DEF before
    <3> QED BY <1>2, <1>4, <1>10, <3>1
  <2>2. key' \in [Cells -> Keys] /\ underlyingData' \in [Cells -> Values]
    BY <1>1, <1>7, <1>10, HashTableAssumption DEF TableTypeOK
  <2>3. remainingCapacity' \in 0 .. maximumCapacity
    <3>1. Len(back) = remainingCapacity + 1
      BY <1>4, <1>12 DEF Pushed
    <3> QED BY <1>2, <1>10, <1>14, <3>1, TableNumbers
  <2>4. validValueFlag' \in BOOLEAN /\ answer' \in Values \cup (Modes \X BOOLEAN)
    BY <1>1, <1>7, <1>10 DEF TableTypeOK
  <2> QED BY <2>1, <2>2, <2>3, <2>4 DEF TableTypeOK
<1>16. TableIInv' /\ \A h \in Buckets : Chain(h)' = [chain EXCEPT ![b] = shorter][h]
  BY <1>14, <1>15, PlacesKept
<1>17. Chain(b)' = shorter /\ \A h \in Buckets \ {b} : Chain(h)' = chain[h]
  BY <1>4, <1>16
<1>18. \A h \in Buckets \ {b} : ~Member(c, chain[h])
  BY <1>3, <1>4, <1>5, <1>7 DEF Places
<1>19. \A h \in Buckets : chain[h] = Chain(h)
  BY DEF chain
<1>20. \E q \in 1 .. Len(list) : /\ c = list[q] /\ Foremost(key, k, list, q)
                                 /\ Dropped(list, q, shorter)
  BY <1>6, <1>11
<1> QED BY <1>4, <1>5, <1>11, <1>16, <1>17, <1>18, <1>19, <1>20 DEF c

\* A call that moves no cell.
LEMMA TableStays ==
  ASSUME TableIInv, UNCHANGED <<cells, bucketArray, freeList, remainingCapacity>>,
         validValueFlag' \in BOOLEAN, answer' \in Values \cup (Modes \X BOOLEAN)
  PROVE  TableIInv' /\ \A b \in Buckets : Chain(b)' = Chain(b)
<1>1. /\ next' = next /\ key' = key /\ underlyingData' = underlyingData
      /\ bucketArray' = bucketArray /\ freeList' = freeList
      /\ remainingCapacity' = remainingCapacity
  BY DEF cells
<1>2. TableTypeOK'
  BY <1>1 DEF TableIInv, TableTypeOK
<1>3. EachCellOnce' /\ \A b \in Buckets : ChainEnds(b)' /\ Chain(b)' = Chain(b)
  BY <1>1 DEF TableIInv, EachCellOnce, ChainEnds, Chain, FreeCells
<1> QED BY <1>2, <1>3 DEF TableIInv

LEMMA TableInitHolds == TableInit => TableIInv
<1> SUFFICES ASSUME TableInit PROVE TableIInv
  OBVIOUS
<1>1. PICK rest \in CellPointers :
        next = [c \in Cells |-> IF c < maximumCapacity THEN c + 1 ELSE rest]
  BY DEF TableInit
<1>2. /\ bucketArray = [b \in Buckets |-> NoCell] /\ freeList = 1
      /\ remainingCapacity = maximumCapacity
  BY DEF TableInit
<1>3. TableTypeOK
  <2>1. next \in [Cells -> CellPointers]
    <3>1. \A c \in Cells : c + 1 \in CellPointers
      BY TableNumbers DEF Cells, CellPointers, NoCell, Outside
    <3> QED BY <1>1, <3>1
  <2>2. freeList \in CellPointers /\ bucketArray \in [Buckets -> CellPointers]
        /\ remainingCapacity \in 0 .. maximumCapacity
    BY <1>2, TableNumbers DEF CellPointers, NoCell, Outside
  <2>3. key \in [Cells -> Keys] /\ underlyingData \in [Cells -> Values]
    BY HashTableAssumption DEF TableInit
  <2>4. validValueFlag \in BOOLEAN /\ answer \in Values \cup (Modes \X BOOLEAN)
    BY HashTableAssumption DEF TableInit
  <2> QED BY <2>1, <2>2, <2>3, <2>4 DEF TableTypeOK
<1> DEFINE free == [i \in 1 .. maximumCapacity |-> i]
           chain == [b \in Buckets |-> <<>>]
<1>4. /\ free \in Seq(Cells) /\ Len(free) = maximumCapacity
      /\ \A i \in 1 .. maximumCapacity : free[i] = i
  <2>1. free \in [1 .. maximumCapacity -> Cells]
    BY DEF Cells
  <2>2. \A i \in 1 .. maximumCapacity : free[i] = i
    OBVIOUS
  <2> HIDE DEF free
  <2> QED BY <2>1, <2>2, FunctionIsSequence, TableNumbers
<1>5. chain \in [Buckets -> Seq(Cells)] /\ \A b \in Buckets : chain[b] = <<>> /\ Len(chain[b]) = 0
  OBVIOUS
<1> HIDE DEF free, chain
<1>6. Linked(next, freeList, free) /\ Once(free)
  <2>1. \A i \in 1 .. maximumCapacity - 1 : next[i] = i + 1
    BY <1>1, TableNumbers DEF Cells
  <2>2. free[1] = 1
    BY <1>4, TableNumbers
  <2>3. \A i \in 1 .. maximumCapacity - 1 : next[free[i]] = free[i + 1]
    BY <1>4, <2>1, TableNumbers
  <2> QED BY <1>2, <1>4, <2>2, <2>3 DEF Linked, Once
<1>7. ASSUME NEW b \in Buckets
      PROVE  /\ Linked(next, bucketArray[b], chain[b]) /\ Once(chain[b])
             /\ Last(next, bucketArray[b], chain[b]) = NoCell
  <2>1. chain[b] = <<>> /\ bucketArray[b] = NoCell /\ Len(chain[b]) = 0
    BY <1>2, <1>5
  <2> QED BY <2>1 DEF Linked, Once, Last
<1>8. ASSUME NEW c \in Cells, NEW b \in Buckets
      PROVE  Member(c, chain[b]) <=> ~Member(c, free) /\ b = BucketOf(key[c])
  <2>1. ~Member(c, chain[b])
    BY <1>5 DEF Member
  <2>2. Member(c, free)
    BY <1>4 DEF Cells, Member
  <2> QED BY <2>1, <2>2
<1>9. Places(next, key, bucketArray, freeList, remainingCapacity, free, chain)
  BY <1>2, <1>4, <1>5, <1>6, <1>7, <1>8 DEF Places
<1> QED BY <1>3, <1>9, PlacesHeld

LEMMA LookupAnswers ==
  ASSUME TableIInv
  PROVE  /\ \A c \in Cells : Found(c) => /\ validValueFlag' \in BOOLEAN
                                         /\ answer' \in Values \cup (Modes \X BOOLEAN)
         /\ NotFound => /\ validValueFlag' \in BOOLEAN
                        /\ answer' \in Values \cup (Modes \X BOOLEAN)
BY HashTableAssumption DEF Found, NotFound, TableIInv, TableTypeOK

LEMMA CellsWithIs ==
  ASSUME TableIInv, NEW k \in Keys
  PROVE  /\ CellsWith(k) \in Seq(Cells)
         /\ \A c : Member(c, CellsWith(k)) <=> Member(c, Chain(BucketOf(k))) /\ key[c] = k
<1>1. Chain(BucketOf(k)) \in Seq(Cells)
  BY TableNumbers, FirstCellsLinked DEF TableIInv, TableTypeOK, Chain
<1> QED BY <1>1, SelectMembers DEF CellsWith

\* The bucket that is not empty starts with a cell, the first of its key.
LEMMA BucketHead ==
  ASSUME TableIInv, NEW b \in Buckets, bucketArray[b] # NoCell
  PROVE  LET c == bucketArray[b]
         IN  c \in Cells /\ CellsWith(key[c]) # <<>> /\ Head(CellsWith(key[c])) = c
<1> DEFINE c == bucketArray[b]
<1>1. PICK list \in Seq(Cells) : list = Chain(b) /\ Linked(next, c, list)
  BY TableNumbers, FirstCellsLinked DEF TableIInv, TableTypeOK, Chain
<1>2. list # <<>>
  BY <1>1 DEF TableIInv, ChainEnds
<1>3. list[1] = c /\ 1 \in 1 .. Len(list)
  BY <1>1, <1>2 DEF Linked
<1>4. c \in Cells /\ Member(c, list)
  BY <1>3, ListCells
<1>5. BucketOf(key[c]) = b /\ key[c] \in Keys
  <2>1. {h \in Buckets : Member(c, Chain(h))} =
          IF Member(c, FreeCells) THEN {} ELSE {BucketOf(key[c])}
    BY <1>4 DEF TableIInv, EachCellOnce
  <2>2. b \in {h \in Buckets : Member(c, Chain(h))}
    BY <1>1, <1>4
  <2> QED BY <1>4, <2>1, <2>2 DEF TableIInv, TableTypeOK
<1>6. Select(key, key[c])[list] = CellsWith(key[c])
  BY <1>1, <1>5 DEF CellsWith
<1>7. CellsWith(key[c]) # <<>>
  <2>1. Member(c, CellsWith(key[c]))
    BY <1>1, <1>4, <1>5, CellsWithIs
  <2> QED BY <2>1 DEF Member
<1>8. PICK p \in 1 .. Len(list) : /\ Head(CellsWith(key[c])) = list[p]
                                  /\ Foremost(key, key[c], list, p)
  <2> HIDE DEF c
  <2>1. Select(key, key[c])[list] # <<>>
    BY <1>6, <1>7
  <2> QED BY <1>6, <2>1, SelectHead
<1>9. p = 1
  <2>1. ASSUME p # 1 PROVE FALSE
    <3>1. 1 \in 1 .. p - 1
      BY <2>1
    <3> QED BY <1>3, <1>8, <3>1 DEF Foremost
  <2> QED BY <2>1
<1> QED BY <1>3, <1>4, <1>7, <1>8, <1>9

LEMMA TableNextHolds == TableIInv /\ [TableNext]_tableVars => TableIInv'
<1> SUFFICES ASSUME TableIInv, [TableNext]_tableVars PROVE TableIInv'
  OBVIOUS
<1>0. validValueFlag \in BOOLEAN /\ answer \in Values \cup (Modes \X BOOLEAN)
  BY DEF TableIInv, TableTypeOK
<1>1. ASSUME NEW k \in Keys, NEW v \in Values, NEW mode \in Modes, Put(k, v, mode)
      PROVE  TableIInv'
  <2>1. CASE Full \/ Rejects(k, v, mode)
    <3>1. answer' = <<mode, FALSE>> /\ UNCHANGED <<cells, table>>
      BY <1>1, <2>1 DEF Put
    <3> QED BY <1>0, <3>1, TableStays DEF table
  <2>2. CASE ~Full /\ ~Rejects(k, v, mode)
    BY <1>1, <2>2, PutStores
  <2> QED BY <2>1, <2>2
<1>2. ASSUME NEW k \in Keys, NEW n \in 0 .. maximumCapacity - 1, GetNthValueAtKey(k, n)
      PROVE  TableIInv'
  <2>1. n < Len(CellsWith(k)) => CellsWith(k)[n + 1] \in Cells
    BY CellsWithIs
  <2>2. /\ validValueFlag' \in BOOLEAN /\ answer' \in Values \cup (Modes \X BOOLEAN)
        /\ UNCHANGED <<cells, bucketArray, freeList, remainingCapacity>>
    BY <1>2, <2>1, LookupAnswers DEF GetNthValueAtKey, Lookup
  <2> QED BY <2>2, TableStays
<1>3. ASSUME NEW k \in Keys, Remove(k) PROVE TableIInv'
  <2>1. CASE CellsWith(k) = <<>>
    <3>1. NotFound /\ UNCHANGED <<cells, bucketArray, freeList, remainingCapacity>>
      BY <1>3, <2>1 DEF Remove
    <3> QED BY <3>1, LookupAnswers, TableStays
  <2>2. CASE CellsWith(k) # <<>>
    BY <1>3, <2>2, RemoveUnlinks
  <2> QED BY <2>1, <2>2
<1>4. ASSUME NEW n \in 0 .. numberOfBuckets, GetFirstElementOfNthBucket(n) PROVE TableIInv'
  <2>1. n \in Buckets /\ bucketArray[n] # NoCell => bucketArray[n] \in Cells
    BY BucketHead
  <2>2. /\ validValueFlag' \in BOOLEAN /\ answer' \in Values \cup (Modes \X BOOLEAN)
        /\ UNCHANGED <<cells, bucketArray, freeList, remainingCapacity>>
    BY <1>4, <2>1, LookupAnswers DEF GetFirstElementOfNthBucket
  <2> QED BY <2>2, TableStays
<1>5. CASE UNCHANGED tableVars
  BY <1>0, <1>5, TableStays DEF tableVars, table
<1> QED BY <1>1, <1>2, <1>3, <1>4, <1>5 DEF TableNext

\* The inductive invariant: pointers lead to cells or nowhere, each cell is in one place, and
\* the list of a bucket has no cycle and ends with a null pointer, however the calls of
\* hashtable.c move cells from list to list (hashtable.c:108-117, 177-198).
THEOREM TableInvariance == TableSpec => []TableIInv
BY TableInitHolds, TableNextHolds, PTL DEF TableSpec

\* Whatever is put and removed, under keys that collide or not, each cell is either one of
\* the free ones that the table counts or in the bucket of its key, once (hashtable.c:85-117).
THEOREM CellsKept == TableSpec => []EachCellOnce
<1>1. TableIInv => EachCellOnce
  BY DEF TableIInv
<1> QED BY <1>1, TableInvariance, PTL

-------------------------------------------------------------------------------
(* The table is a bounded multimap. *)

DataOf(data, found) == [i \in DOMAIN found |-> data[found[i]]]

LEMMA SameSequence ==
  ASSUME NEW S, NEW s \in Seq(S), NEW t \in Seq(S), Len(s) = Len(t),
         \A i \in 1 .. Len(s) : s[i] = t[i]
  PROVE  s = t
OBVIOUS

LEMMA DataFacts ==
  ASSUME NEW data \in [Cells -> Values], NEW found \in Seq(Cells)
  PROVE  /\ DataOf(data, found) \in Seq(Values)
         /\ Len(DataOf(data, found)) = Len(found)
         /\ \A i \in 1 .. Len(found) : DataOf(data, found)[i] = data[found[i]]
<1>1. DOMAIN found = 1 .. Len(found) /\ \A i \in 1 .. Len(found) : found[i] \in Cells
  BY ListCells
<1>2. DataOf(data, found) \in [1 .. Len(found) -> Values]
  BY <1>1 DEF DataOf
<1>3. Len(found) \in Nat
  OBVIOUS
<1>4. \A i \in 1 .. Len(found) : DataOf(data, found)[i] = data[found[i]]
  BY <1>1 DEF DataOf
<1> QED BY <1>2, <1>3, <1>4, FunctionIsSequence

LEMMA DataPushed ==
  ASSUME NEW data \in [Cells -> Values], NEW found \in Seq(Cells), NEW c \in Cells,
         NEW longer, longer = <<c>> \o found
  PROVE  DataOf(data, longer) = <<data[c]>> \o DataOf(data, found)
<1>1. PICK values \in Seq(Values) :
        /\ values = DataOf(data, found) /\ Len(values) = Len(found)
        /\ \A i \in 1 .. Len(found) : values[i] = data[found[i]]
  BY DataFacts
<1>2. longer \in Seq(Cells) /\ Len(longer) = Len(found) + 1 /\ longer[1] = c
      /\ \A i \in 2 .. Len(longer) : longer[i] = found[i - 1]
  OBVIOUS
<1> DEFINE all == <<data[c]>> \o values
<1>3. /\ all \in Seq(Values) /\ Len(all) = Len(found) + 1 /\ all[1] = data[c]
      /\ \A i \in 2 .. Len(found) + 1 : all[i] = values[i - 1]
  BY <1>1
<1>4. /\ DataOf(data, longer) \in Seq(Values) /\ Len(DataOf(data, longer)) = Len(found) + 1
      /\ \A i \in 1 .. Len(found) + 1 : DataOf(data, longer)[i] = data[longer[i]]
  BY <1>2, DataFacts
<1> HIDE DEF all
<1>5. ASSUME NEW i \in 1 .. Len(found) + 1 PROVE DataOf(data, longer)[i] = all[i]
  <2>1. CASE i = 1
    BY <1>2, <1>3, <1>4, <2>1
  <2>2. CASE i # 1
    <3>1. i \in 2 .. Len(found) + 1 /\ i - 1 \in 1 .. Len(found)
      BY <2>2
    <3>2. longer[i] = found[i - 1]
      BY <1>2, <3>1
    <3>3. all[i] = data[found[i - 1]]
      BY <1>1, <1>3, <3>1
    <3>4. DataOf(data, longer)[i] = data[longer[i]]
      BY <1>4
    <3> QED BY <3>2, <3>3, <3>4
  <2> QED BY <2>1, <2>2
<1>6. DataOf(data, longer) = all
  BY <1>3, <1>4, <1>5, SameSequence
<1> QED BY <1>1, <1>6 DEF all

LEMMA DataSame ==
  ASSUME NEW data, NEW other, NEW found \in Seq(Cells),
         \A c \in Cells : Member(c, found) => data[c] = other[c]
  PROVE  DataOf(other, found) = DataOf(data, found)
<1>1. \A i \in DOMAIN found : data[found[i]] = other[found[i]]
  BY ListCells
<1> QED BY <1>1 DEF DataOf

\* The values of each key are the data of the cells with it.
LEMMA StoredIs ==
  /\ stored = [k \in Keys |-> DataOf(underlyingData, CellsWith(k))]
  /\ stored' = [k \in Keys |-> DataOf(underlyingData', CellsWith(k)')]
BY DEF stored, DataOf

LEMMA StoredValues ==
  ASSUME TableIInv, NEW k \in Keys
  PROVE  /\ CellsWith(k) \in Seq(Cells) /\ stored[k] \in Seq(Values)
         /\ stored[k] = DataOf(underlyingData, CellsWith(k))
         /\ Len(stored[k]) = Len(CellsWith(k))
         /\ \A i \in 1 .. Len(CellsWith(k)) : stored[k][i] = underlyingData[CellsWith(k)[i]]
         /\ stored[k] = <<>> <=> CellsWith(k) = <<>>
<1>1. PICK found \in Seq(Cells) : found = CellsWith(k)
  BY CellsWithIs
<1>2. underlyingData \in [Cells -> Values] /\ stored[k] = DataOf(underlyingData, found)
  BY <1>1, StoredIs DEF TableIInv, TableTypeOK
<1>3. /\ stored[k] \in Seq(Values) /\ Len(stored[k]) = Len(found)
      /\ \A i \in 1 .. Len(found) : stored[k][i] = underlyingData[found[i]]
  BY <1>2, DataFacts
<1>4. stored[k] = <<>> <=> found = <<>>
  <2>1. PICK values \in Seq(Values) : values = stored[k]
    BY <1>3
  <2>2. Len(values) = Len(found)
    BY <1>3, <2>1
  <2>3. values = <<>> <=> Len(values) = 0
    OBVIOUS
  <2> QED BY <2>1, <2>2, <2>3, OnlyEmpty
<1> QED BY <1>1, <1>2, <1>3, <1>4

\* Calls that move no cell and store nothing.
LEMMA StoredStays ==
  ASSUME UNCHANGED cells, \A b \in Buckets : Chain(b)' = Chain(b)
  PROVE  stored' = stored
<1>1. key' = key /\ underlyingData' = underlyingData
  BY DEF cells
<1>2. \A k \in Keys : CellsWith(k)' = CellsWith(k)
  BY <1>1, TableNumbers DEF CellsWith
<1> QED BY <1>1, <1>2, StoredIs

\* What a put is refused for.
LEMMA RefusedFor ==
  ASSUME TableIInv, NEW k \in Keys, NEW v \in Values, NEW mode \in Modes
  PROVE  /\ Rejects(k, v, mode) => Abstract!MustRefuse(k, v, mode) \/ Abstract!MayRefuse(k, v, mode)
         /\ Abstract!MustRefuse(k, v, mode) => Full \/ Rejects(k, v, mode)
<1>1. PICK list \in Seq(Cells) : list = Chain(BucketOf(k))
  BY TableNumbers, FirstCellsLinked DEF TableIInv, TableTypeOK, Chain
<1>2. Rejects(k, v, mode) <=>
        \E c \in Cells : /\ Member(c, list)
                         /\ \/ mode = "oneValue" /\ key[c] = k
                            \/ mode = "distinct" /\ underlyingData[c] = v
  BY <1>1, ListCells DEF Rejects, Member
<1>3. ASSUME NEW c \in Cells, NEW l \in Keys, Member(c, CellsWith(l))
      PROVE  stored[l] # <<>> /\ Abstract!Has(l, underlyingData[c])
  <2>1. PICK found \in Seq(Cells) : found = CellsWith(l)
    BY CellsWithIs
  <2>2. PICK i \in 1 .. Len(found) : found[i] = c
    BY <1>3, <2>1, ListCells DEF Member
  <2>3. /\ stored[l] \in Seq(Values) /\ Len(stored[l]) = Len(found)
        /\ stored[l][i] = underlyingData[c]
    BY <2>1, <2>2, StoredValues
  <2>4. i \in DOMAIN stored[l]
    BY <2>3
  <2> QED BY <2>3, <2>4 DEF Abstract!Has
<1>4. ASSUME Rejects(k, v, mode)
      PROVE  Abstract!MustRefuse(k, v, mode) \/ Abstract!MayRefuse(k, v, mode)
  <2>1. PICK c \in Cells : /\ Member(c, list)
                           /\ \/ mode = "oneValue" /\ key[c] = k
                              \/ mode = "distinct" /\ underlyingData[c] = v
    BY <1>2, <1>4
  <2>2. CASE mode = "oneValue" /\ key[c] = k
    <3>1. Member(c, CellsWith(k))
      BY <1>1, <2>1, <2>2, CellsWithIs
    <3> QED BY <1>3, <2>2, <3>1 DEF Abstract!MustRefuse
  <2>3. CASE mode = "distinct" /\ underlyingData[c] = v
    <3>1. BucketOf(key[c]) = BucketOf(k) /\ key[c] \in Keys
      <4>1. {h \in Buckets : Member(c, Chain(h))} =
              IF Member(c, FreeCells) THEN {} ELSE {BucketOf(key[c])}
        BY DEF TableIInv, EachCellOnce
      <4>2. BucketOf(k) \in {h \in Buckets : Member(c, Chain(h))}
        BY <1>1, <2>1, TableNumbers
      <4> QED BY <4>1, <4>2 DEF TableIInv, TableTypeOK
    <3>2. Member(c, CellsWith(key[c]))
      BY <1>1, <2>1, <3>1, CellsWithIs
    <3>3. Abstract!Has(key[c], v)
      BY <1>3, <2>3, <3>1, <3>2
    <3> QED BY <2>3, <3>1, <3>3 DEF Abstract!MayRefuse
  <2> QED BY <2>1, <2>2, <2>3
<1>5. ASSUME Abstract!MustRefuse(k, v, mode) PROVE Full \/ Rejects(k, v, mode)
  <2>1. CASE remainingCapacity = 0
    BY <2>1 DEF Full
  <2>2. CASE mode = "oneValue" /\ stored[k] # <<>>
    <3>1. CellsWith(k) \in Seq(Cells) /\ CellsWith(k) # <<>>
      BY <2>2, StoredValues
    <3>2. PICK c \in Cells : Member(c, CellsWith(k))
      <4>1. 1 \in 1 .. Len(CellsWith(k))
        BY <3>1
      <4> QED BY <3>1, <4>1, ListCells
    <3>3. Member(c, list) /\ key[c] = k
      BY <1>1, <3>2, CellsWithIs
    <3> QED BY <1>2, <2>2, <3>3
  <2>3. CASE mode = "distinct" /\ Abstract!Has(k, v)
    <3>1. PICK i \in DOMAIN stored[k] : stored[k][i] = v
      BY <2>3 DEF Abstract!Has
    <3>2. CellsWith(k) \in Seq(Cells) /\ i \in 1 .. Len(CellsWith(k))
      BY StoredValues
    <3>3. underlyingData[CellsWith(k)[i]] = v
      BY <3>1, <3>2, StoredValues
    <3>4. CellsWith(k)[i] \in Cells /\ Member(CellsWith(k)[i], CellsWith(k))
      BY <3>2, ListCells
    <3>5. Member(CellsWith(k)[i], list)
      BY <1>1, <3>4, CellsWithIs
    <3> QED BY <1>2, <2>3, <3>3, <3>4, <3>5
  <2> QED BY <1>5, <2>1, <2>2, <2>3 DEF Abstract!MustRefuse
<1> QED BY <1>4, <1>5

\* What a put stores, and what a remove takes.
LEMMA PutIsPut ==
  ASSUME TableIInv, NEW k \in Keys, NEW v \in Values, NEW mode \in Modes,
         ~Full, ~Rejects(k, v, mode), Put(k, v, mode)
  PROVE  stored' = [stored EXCEPT ![k] = <<v>> \o @]
<1> DEFINE c == freeList
           b == BucketOf(k)
<1>1. /\ TableIInv' /\ c \in Cells /\ \A h \in Buckets : ~Member(c, Chain(h))
      /\ Chain(b)' \in Seq(Cells) /\ Pushed(Chain(b), c, Chain(b)')
      /\ \A h \in Buckets \ {b} : Chain(h)' = Chain(h)
  BY PutStores
<1>2. key' = [key EXCEPT ![c] = k] /\ underlyingData' = [underlyingData EXCEPT ![c] = v]
  BY DEF Put
<1>3. /\ key \in [Cells -> Keys] /\ underlyingData \in [Cells -> Values]
      /\ underlyingData' \in [Cells -> Values]
  BY <1>1 DEF TableIInv, TableTypeOK
<1>4. /\ key'[c] = k /\ underlyingData'[c] = v
      /\ \A x \in Cells : x # c => key'[x] = key[x] /\ underlyingData'[x] = underlyingData[x]
  BY <1>1, <1>2, <1>3
<1>5. \A h \in Buckets : Chain(h) \in Seq(Cells)
  BY TableNumbers, FirstCellsLinked DEF TableIInv, TableTypeOK, Chain
<1> HIDE DEF c
<1>6. ASSUME NEW l \in Keys
      PROVE  /\ Select(key', l)[Chain(BucketOf(l))] = CellsWith(l)
             /\ DataOf(underlyingData', CellsWith(l)) = stored[l]
  <2>1. PICK list \in Seq(Cells) : list = Chain(BucketOf(l)) /\ ~Member(c, list)
    BY <1>1, <1>5, TableNumbers
  <2>2. \A i \in 1 .. Len(list) : list[i] \in Cells /\ list[i] # c
    BY <2>1, ListCells DEF Member
  <2>3. Select(key', l)[list] = Select(key, l)[list]
    <3>1. SameWith(key, key', l, list)
      BY <1>4, <2>2 DEF SameWith
    <3> QED BY <3>1, SelectSame
  <2>4. CellsWith(l) = Select(key, l)[list]
    BY <2>1 DEF CellsWith
  <2>5. \A x \in Cells : Member(x, CellsWith(l)) => underlyingData[x] = underlyingData'[x]
    BY <1>4, <2>1, CellsWithIs
  <2>6. CellsWith(l) \in Seq(Cells) /\ stored[l] = DataOf(underlyingData, CellsWith(l))
    BY StoredValues
  <2>7. DataOf(underlyingData', CellsWith(l)) = DataOf(underlyingData, CellsWith(l))
    BY <2>5, <2>6, DataSame
  <2> QED BY <2>1, <2>3, <2>4, <2>6, <2>7
<1>7. stored'[k] = <<v>> \o stored[k]
  <2>1. PICK found \in Seq(Cells) : found = CellsWith(k)
    BY CellsWithIs
  <2>2. Select(key', k)[Chain(b)'] = <<c>> \o Select(key', k)[Chain(b)]
    <3>1. b \in Buckets
      BY TableNumbers
    <3>2. Chain(b) \in Seq(Cells)
      BY <1>5, <3>1
    <3>3. PICK keys : keys = key'
      OBVIOUS
    <3>4. PICK list \in Seq(Cells), new \in Seq(Cells) : list = Chain(b) /\ new = Chain(b)'
      BY <1>1, <3>2
    <3>5. keys[c] = k /\ Pushed(list, c, new)
      BY <1>1, <1>4, <3>3, <3>4
    <3>7. c \in Cells
      BY <1>1
    <3>6. Select(keys, k)[new] = <<c>> \o Select(keys, k)[list]
      <4>1. Select(keys, k)[new] = InFront(keys, k, c, Select(keys, k)[list])
        BY <3>5, <3>7, SelectPushed
      <4> QED BY <3>5, <4>1 DEF InFront
    <3> QED BY <3>3, <3>4, <3>6
  <2>3. CellsWith(k)' = <<c>> \o found
    BY <1>6, <2>1, <2>2 DEF CellsWith
  <2>4. DataOf(underlyingData', CellsWith(k)') = <<v>> \o DataOf(underlyingData', found)
    BY <1>1, <1>3, <1>4, <2>3, DataPushed
  <2> QED BY <1>6, <2>1, <2>4, StoredIs
<1>8. ASSUME NEW l \in Keys, l # k PROVE stored'[l] = stored[l]
  <2>1. CellsWith(l)' = Select(key', l)[Chain(BucketOf(l))']
    BY DEF CellsWith
  <2>2. CASE BucketOf(l) = b
    <3>1. b \in Buckets
      BY TableNumbers
    <3>2. Chain(b) \in Seq(Cells)
      BY <1>5, <3>1
    <3>3. Select(key', l)[Chain(b)'] = Select(key', l)[Chain(b)]
      <4>3. PICK keys : keys = key'
        OBVIOUS
      <4>4. PICK list \in Seq(Cells), new \in Seq(Cells) : list = Chain(b) /\ new = Chain(b)'
        BY <1>1, <3>2
      <4>5. keys[c] # l /\ Pushed(list, c, new)
        BY <1>1, <1>4, <1>8, <4>3, <4>4
      <4>7. c \in Cells
        BY <1>1
      <4>6. Select(keys, l)[new] = Select(keys, l)[list]
        <5>1. Select(keys, l)[new] = InFront(keys, l, c, Select(keys, l)[list])
          BY <4>5, <4>7, SelectPushed
        <5> QED BY <4>5, <5>1 DEF InFront
      <4> QED BY <4>3, <4>4, <4>6
    <3>4. CellsWith(l)' = CellsWith(l)
      BY <1>6, <2>1, <2>2, <3>3
    <3> QED BY <1>6, <3>4, StoredIs
  <2>3. CASE BucketOf(l) # b
    <3>1. Chain(BucketOf(l))' = Chain(BucketOf(l))
      BY <1>1, <2>3, TableNumbers
    <3>2. CellsWith(l)' = CellsWith(l)
      BY <1>6, <2>1, <3>1
    <3> QED BY <1>6, <3>2, StoredIs
  <2> QED BY <2>2, <2>3
<1>9. stored = [l \in Keys |-> stored[l]] /\ stored' = [l \in Keys |-> stored'[l]]
  BY StoredIs
<1> QED BY <1>7, <1>8, <1>9

LEMMA RemoveIsRemove ==
  ASSUME TableIInv, NEW k \in Keys, Remove(k), CellsWith(k) # <<>>
  PROVE  /\ stored' = [stored EXCEPT ![k] = Tail(@)]
         /\ underlyingData[Head(CellsWith(k))] = Head(stored[k])
<1> DEFINE b == BucketOf(k)
           c == Head(CellsWith(k))
<1>0. PICK list \in Seq(Cells), new \in Seq(Cells) : list = Chain(b) /\ new = Chain(b)'
  BY RemoveUnlinks
<1>1. PICK p \in 1 .. Len(list) :
        /\ list = Chain(b) /\ new = Chain(b)'
        /\ c = list[p] /\ Foremost(key, k, list, p) /\ Dropped(list, p, new)
  BY <1>0, RemoveUnlinks
<1>2. /\ TableIInv'
      /\ \A h \in Buckets \ {b} : Chain(h)' = Chain(h) /\ ~Member(c, Chain(h))
  BY RemoveUnlinks
<1>3. /\ key' = [key EXCEPT ![c] = ZeroKey]
      /\ underlyingData' = [underlyingData EXCEPT ![c] = Nothing]
  BY DEF Remove
<1>4. c \in Cells /\ key[c] = k
  BY <1>1, ListCells DEF Foremost
<1> HIDE DEF c
<1>5. /\ key \in [Cells -> Keys] /\ underlyingData \in [Cells -> Values]
      /\ underlyingData' \in [Cells -> Values]
  BY <1>2 DEF TableIInv, TableTypeOK
<1>6. \A x \in Cells : x # c => key'[x] = key[x] /\ underlyingData'[x] = underlyingData[x]
  BY <1>3, <1>4, <1>5
<1>7. \A h \in Buckets : Chain(h) \in Seq(Cells)
  BY TableNumbers, FirstCellsLinked DEF TableIInv, TableTypeOK, Chain
<1>8. Once(list) /\ b \in Buckets
  BY <1>1, TableNumbers DEF TableIInv, ChainEnds, Once
<1>9. ~Member(c, new)
  BY <1>1, <1>8, DroppedMembers
<1>10. ASSUME NEW l \in Keys
       PROVE  CellsWith(l)' = IF BucketOf(l) = b THEN Select(key, l)[new] ELSE CellsWith(l)
  <2>1. CellsWith(l)' = Select(key', l)[Chain(BucketOf(l))']
    BY DEF CellsWith
  <2>2. PICK old \in Seq(Cells) : /\ old = Chain(BucketOf(l))' /\ ~Member(c, old)
                                  /\ BucketOf(l) # b => old = Chain(BucketOf(l))
    <3>1. CASE BucketOf(l) = b
      BY <1>1, <1>9, <3>1
    <3>2. CASE BucketOf(l) # b
      BY <1>2, <1>7, <3>2, TableNumbers
    <3> QED BY <3>1, <3>2
  <2>3. \A i \in 1 .. Len(old) : old[i] \in Cells /\ old[i] # c
    BY <2>2, ListCells DEF Member
  <2>4. Select(key', l)[old] = Select(key, l)[old]
    <3>1. SameWith(key, key', l, old)
      BY <1>6, <2>3 DEF SameWith
    <3> QED BY <3>1, SelectSame
  <2> QED BY <1>1, <2>1, <2>2, <2>4 DEF CellsWith
<1>11. ASSUME NEW l \in Keys, NEW found \in Seq(Cells), \A x \in Cells : Member(x, found) => x # c
       PROVE  DataOf(underlyingData', found) = DataOf(underlyingData, found)
  BY <1>6, <1>11, DataSame
<1>12. PICK rest \in Seq(Cells) : /\ rest = Select(key, k)[new] /\ CellsWith(k) = <<c>> \o rest
                                  /\ CellsWith(k)' = rest
  <2>1. Select(key, k)[new] \in Seq(Cells)
    BY SelectMembers
  <2>2. Select(key, k)[list] = <<list[p]>> \o Select(key, k)[new]
    BY <1>1, SelectFirst
  <2>3. CellsWith(k) = Select(key, k)[list]
    BY <1>1 DEF CellsWith
  <2> QED BY <1>1, <1>10, <2>1, <2>2, <2>3
<1>13. \A x : Member(x, rest) => x # c
  BY <1>9, <1>12, SelectMembers
<1>14. PICK values \in Seq(Values) : /\ values = DataOf(underlyingData, rest)
                                     /\ stored'[k] = values
                                     /\ stored[k] = <<underlyingData[c]>> \o values
  <2>1. DataOf(underlyingData, rest) \in Seq(Values)
    BY <1>5, DataFacts
  <2>2. DataOf(underlyingData', rest) = DataOf(underlyingData, rest)
    BY <1>11, <1>13
  <2>3. DataOf(underlyingData, CellsWith(k)) = <<underlyingData[c]>> \o DataOf(underlyingData, rest)
    BY <1>4, <1>5, <1>12, DataPushed
  <2> QED BY <1>12, <2>1, <2>2, <2>3, StoredIs
<1>15. Tail(stored[k]) = stored'[k] /\ Head(stored[k]) = underlyingData[c]
  <2>1. \A v \in Values, s \in Seq(Values) : Tail(<<v>> \o s) = s /\ Head(<<v>> \o s) = v
    OBVIOUS
  <2>2. underlyingData[c] \in Values /\ values \in Seq(Values)
    BY <1>4, <1>5
  <2>3. Tail(<<underlyingData[c]>> \o values) = values
    BY <2>1, <2>2
  <2>4. Head(<<underlyingData[c]>> \o values) = underlyingData[c]
    BY <2>1, <2>2
  <2> QED BY <1>14, <2>3, <2>4
<1>16. ASSUME NEW l \in Keys, l # k PROVE stored'[l] = stored[l]
  <2>1. CellsWith(l)' = CellsWith(l)
    <3>1. CASE BucketOf(l) = b
      <4>1. key[list[p]] # l
        BY <1>1, <1>16 DEF Foremost
      <4>2. Select(key, l)[new] = Select(key, l)[list]
        <5>1. PICK keys : keys = key
          OBVIOUS
        <5>2. keys[list[p]] # l /\ Dropped(list, p, new)
          BY <1>1, <4>1, <5>1
        <5>3. Select(keys, l)[new] = Select(keys, l)[list]
          BY <5>2, SelectOthers
        <5> QED BY <5>1, <5>3
      <4> QED BY <1>1, <1>10, <3>1, <4>2 DEF CellsWith
    <3>2. CASE BucketOf(l) # b
      BY <1>10, <3>2
    <3> QED BY <3>1, <3>2
  <2>2. CellsWith(l) \in Seq(Cells) /\ \A x \in Cells : Member(x, CellsWith(l)) => x # c
    BY <1>4, <1>16, CellsWithIs
  <2>3. DataOf(underlyingData', CellsWith(l)) = DataOf(underlyingData, CellsWith(l))
    BY <1>11, <2>2
  <2> QED BY <2>1, <2>3, StoredIs
<1>17. stored = [l \in Keys |-> stored[l]] /\ stored' = [l \in Keys |-> stored'[l]]
  BY StoredIs
<1>18. stored' = [stored EXCEPT ![k] = Tail(@)]
  BY <1>15, <1>16, <1>17
<1> QED BY <1>15, <1>18 DEF c

LEMMA TableInitMaps == TableInit => Abstract!Init
<1> SUFFICES ASSUME TableInit PROVE Abstract!Init
  OBVIOUS
<1>1. TableIInv
  BY TableInitHolds
<1>2. ASSUME NEW k \in Keys PROVE stored[k] = <<>>
  <2>1. BucketOf(k) \in Buckets /\ bucketArray[BucketOf(k)] = NoCell
    BY TableNumbers DEF TableInit
  <2>2. PICK list \in Seq(Cells) : list = Chain(BucketOf(k)) /\ Linked(next, NoCell, list)
    BY <1>1, <2>1, FirstCellsLinked, TableNumbers DEF TableIInv, TableTypeOK, Chain
  <2>3. list = <<>>
    <3>1. ASSUME list # <<>> PROVE FALSE
      <4>1. 1 \in 1 .. Len(list) /\ list[1] = NoCell
        BY <2>2, <3>1 DEF Linked
      <4> QED BY <4>1, ListCells, TableNumbers
    <3> QED BY <3>1
  <2>4. CellsWith(k) = <<>>
    BY <2>2, <2>3, SelectNone DEF CellsWith
  <2> QED BY <1>1, <2>4, StoredValues
<1>3. stored = [k \in Keys |-> <<>>]
  BY <1>2, StoredIs
<1> QED BY <1>3 DEF TableInit, Abstract!Init

LEMMA TableNextMaps ==
  TableIInv /\ [TableNext]_tableVars =>
    [Abstract!Next]_<<stored, remainingCapacity, answer, validValueFlag>>
<1> SUFFICES ASSUME TableIInv, [TableNext]_tableVars
             PROVE  [Abstract!Next]_<<stored, remainingCapacity, answer, validValueFlag>>
  OBVIOUS
<1>0. ASSUME UNCHANGED <<cells, bucketArray, freeList, remainingCapacity>>
      PROVE  stored' = stored /\ remainingCapacity' = remainingCapacity
  <2>1. \A b \in Buckets : Chain(b)' = Chain(b)
    BY <1>0 DEF cells, Chain
  <2> QED BY <1>0, <2>1, StoredStays
<1>1. ASSUME NEW k \in Keys, NEW v \in Values, NEW mode \in Modes, Put(k, v, mode)
      PROVE  Abstract!Put(k, v, mode)
  <2>1. CASE Full \/ Rejects(k, v, mode)
    <3>1. /\ answer' = <<mode, FALSE>> /\ validValueFlag' = validValueFlag
          /\ UNCHANGED <<cells, bucketArray, freeList, remainingCapacity>>
      BY <1>1, <2>1 DEF Put, table
    <3>2. Abstract!MustRefuse(k, v, mode) \/ Abstract!MayRefuse(k, v, mode)
      <4>1. CASE Full
        BY <4>1 DEF Full, Abstract!MustRefuse
      <4>2. CASE Rejects(k, v, mode)
        BY <4>2, RefusedFor
      <4> QED BY <2>1, <4>1, <4>2
    <3>3. stored' = stored /\ remainingCapacity' = remainingCapacity
      BY <1>0, <3>1
    <3> QED BY <3>1, <3>2, <3>3 DEF Abstract!Put
  <2>2. CASE ~Full /\ ~Rejects(k, v, mode)
    <3>1. /\ answer' = <<mode, TRUE>> /\ validValueFlag' = validValueFlag
          /\ remainingCapacity' = remainingCapacity - 1
      BY <1>1, <2>2 DEF Put
    <3>2. ~Abstract!MustRefuse(k, v, mode)
      BY <2>2, RefusedFor
    <3>3. stored' = [stored EXCEPT ![k] = <<v>> \o @]
      BY <1>1, <2>2, PutIsPut
    <3> QED BY <3>1, <3>2, <3>3 DEF Abstract!Put
  <2> QED BY <2>1, <2>2
<1>2. ASSUME NEW k \in Keys, NEW n \in 0 .. maximumCapacity - 1, GetNthValueAtKey(k, n)
      PROVE  Abstract!GetNth(k, n)
  <2>1. stored' = stored /\ remainingCapacity' = remainingCapacity
    BY <1>0, <1>2 DEF GetNthValueAtKey
  <2>2. Abstract!Returns(n < Len(stored[k]), stored[k][n + 1])
    <3>1. CellsWith(k) \in Seq(Cells) /\ Len(stored[k]) = Len(CellsWith(k)) /\ n \in Nat
      BY StoredValues
    <3>2. CASE n < Len(CellsWith(k))
      <4>1. n + 1 \in 1 .. Len(CellsWith(k))
        BY <3>1, <3>2
      <4>2. stored[k][n + 1] = underlyingData[CellsWith(k)[n + 1]]
        BY <4>1, StoredValues
      <4>3. validValueFlag' = TRUE /\ answer' = underlyingData[CellsWith(k)[n + 1]]
        BY <1>2, <3>2 DEF GetNthValueAtKey, Lookup, Found
      <4> QED BY <3>1, <3>2, <4>2, <4>3 DEF Abstract!Returns
    <3>3. CASE ~(n < Len(CellsWith(k)))
      <4>1. validValueFlag' = FALSE /\ answer' = Nothing
        BY <1>2, <3>3 DEF GetNthValueAtKey, Lookup, NotFound
      <4>2. (n < Len(stored[k])) = FALSE
        BY <3>1, <3>3
      <4> QED BY <4>1, <4>2 DEF Abstract!Returns
    <3> QED BY <3>2, <3>3
  <2> QED BY <2>1, <2>2 DEF Abstract!GetNth
<1>3. ASSUME NEW k \in Keys, Remove(k) PROVE Abstract!Remove(k)
  <2>1. CASE CellsWith(k) = <<>>
    <3>1. NotFound /\ UNCHANGED <<cells, bucketArray, freeList, remainingCapacity>>
      BY <1>3, <2>1 DEF Remove
    <3>2. stored[k] = <<>>
      BY <2>1, StoredValues
    <3>3. stored' = stored /\ remainingCapacity' = remainingCapacity
      BY <1>0, <3>1
    <3> QED BY <3>1, <3>2, <3>3 DEF Abstract!Remove, Abstract!Returns, NotFound
  <2>2. CASE CellsWith(k) # <<>>
    <3>1. stored[k] # <<>>
      BY <2>2, StoredValues
    <3>2. /\ validValueFlag' = TRUE /\ answer' = underlyingData[Head(CellsWith(k))]
          /\ remainingCapacity' = remainingCapacity + 1
      BY <1>3, <2>2 DEF Remove, Found
    <3>3. /\ stored' = [stored EXCEPT ![k] = Tail(@)]
          /\ underlyingData[Head(CellsWith(k))] = Head(stored[k])
      BY <1>3, <2>2, RemoveIsRemove
    <3> QED BY <3>1, <3>2, <3>3 DEF Abstract!Remove, Abstract!Returns
  <2> QED BY <2>1, <2>2
<1>4. ASSUME NEW n \in 0 .. numberOfBuckets, GetFirstElementOfNthBucket(n) PROVE Abstract!Peek
  <2>1. stored' = stored /\ remainingCapacity' = remainingCapacity
    BY <1>0, <1>4 DEF GetFirstElementOfNthBucket
  <2>2. CASE n \in Buckets /\ bucketArray[n] # NoCell
    <3> DEFINE c == bucketArray[n]
               k == key[c]
    <3>1. c \in Cells /\ CellsWith(k) # <<>> /\ Head(CellsWith(k)) = c
      BY <2>2, BucketHead
    <3>2. k \in Keys
      BY <3>1 DEF TableIInv, TableTypeOK
    <3>3. validValueFlag' = TRUE /\ answer' = underlyingData[c]
      BY <1>4, <2>2 DEF GetFirstElementOfNthBucket, Found
    <3> HIDE DEF c, k
    <3>4. CellsWith(k) \in Seq(Cells) /\ 1 \in 1 .. Len(CellsWith(k)) /\ CellsWith(k)[1] = c
      <4>1. CellsWith(k) \in Seq(Cells)
        BY <3>2, CellsWithIs
      <4> QED BY <3>1, <4>1
    <3>5. stored[k] # <<>> /\ stored[k] \in Seq(Values) /\ stored[k][1] = underlyingData[c]
      BY <3>1, <3>2, <3>4, StoredValues
    <3>6. Head(stored[k]) = underlyingData[c]
      BY <3>5
    <3> QED BY <2>1, <3>2, <3>3, <3>5, <3>6 DEF Abstract!Peek, Abstract!Returns
  <2>3. CASE ~(n \in Buckets /\ bucketArray[n] # NoCell)
    <3>1. validValueFlag' = FALSE /\ answer' = Nothing
      BY <1>4, <2>3 DEF GetFirstElementOfNthBucket, NotFound
    <3> QED BY <2>1, <3>1 DEF Abstract!Peek, Abstract!Returns
  <2> QED BY <2>2, <2>3
<1>5. CASE UNCHANGED tableVars
  <2>1. /\ UNCHANGED <<cells, bucketArray, freeList, remainingCapacity>>
        /\ answer' = answer /\ validValueFlag' = validValueFlag
    BY <1>5 DEF tableVars, table
  <2> QED BY <1>0, <2>1
<1> QED BY <1>1, <1>2, <1>3, <1>4, <1>5 DEF TableNext, Abstract!Next

\* Of any keys, values, hash and capacity the table makes a bounded multimap: what was put is
\* found, newest first, until it is removed, and nothing else is (hashtable.c:74-225).
THEOREM TableImplements == TableSpec => IsMultimap
<1>1. TableInit => Abstract!Init
  BY TableInitMaps
<1>2. TableIInv /\ [TableNext]_tableVars =>
        [Abstract!Next]_<<stored, remainingCapacity, answer, validValueFlag>>
  BY TableNextMaps
<1> QED BY <1>1, <1>2, TableInvariance, PTL DEF TableSpec, IsMultimap, Abstract!Spec

-------------------------------------------------------------------------------
(* The manager. *)

USE ManagerAssumption

-------------------------------------------------------------------------------
(* Connections are counted as a set of pairs, a task and a number. *)

LEMMA ConnectionsFinite ==
  ASSUME NEW i \in IDs
  PROVE  IsFiniteSet(ConnectionsTo(i)) /\ Cardinality(ConnectionsTo(i)) \in Nat
<1>1. IsFiniteSet(1 .. MaxCalls)
  BY FS_Interval
<1>2. IsFiniteSet(Tasks \X (1 .. MaxCalls))
  BY <1>1, FS_Product
<1>3. ConnectionsTo(i) \in SUBSET (Tasks \X (1 .. MaxCalls))
  BY DEF ConnectionsTo
<1> QED BY <1>2, <1>3, FS_Subset, FS_CardinalityType

\* No connection is counted exactly when nobody is connected. (f stands for connections, in
\* one state or the next.)
LEMMA NoneCounted ==
  ASSUME NEW i \in IDs, NEW f \in [Tasks -> [IDs -> 0 .. MaxCalls]], NEW S,
         S = {p \in Tasks \X (1 .. MaxCalls) : p[2] <= f[p[1]][i]}
  PROVE  Cardinality(S) = 0 <=> \A t \in Tasks : f[t][i] = 0
<1>1. IsFiniteSet(S)
  <2>1. IsFiniteSet(1 .. MaxCalls)
    BY FS_Interval
  <2>2. IsFiniteSet(Tasks \X (1 .. MaxCalls))
    BY <2>1, FS_Product
  <2> QED BY <2>2, FS_Subset
<1>2. Cardinality(S) = 0 <=> S = {}
  BY <1>1, FS_EmptySet
<1>3. ASSUME NEW t \in Tasks, f[t][i] # 0
      PROVE  S # {}
  <2>1. <<t, f[t][i]>> \in S
    BY <1>3
  <2> QED BY <2>1
<1>4. ASSUME \A t \in Tasks : f[t][i] = 0
      PROVE  S = {}
  BY <1>4
<1> QED BY <1>2, <1>3, <1>4

LEMMA NoneConnected ==
  ASSUME TypeOK, NEW i \in IDs
  PROVE  Cardinality(ConnectionsTo(i)) = 0 <=> \A t \in Tasks : connections[t][i] = 0
BY NoneCounted DEF TypeOK, ConnectionsTo

\* connect adds one to the count of its ID, and to no other.
LEMMA OneMore ==
  ASSUME TypeOK, NEW t \in Tasks, NEW i \in IDs, connections[t][i] < MaxCalls, Connected(t, i)
  PROVE  /\ connections' \in [Tasks -> [IDs -> 0 .. MaxCalls]]
         /\ Cardinality(ConnectionsTo(i)') = Cardinality(ConnectionsTo(i)) + 1
         /\ \A j \in IDs \ {i} : ConnectionsTo(j)' = ConnectionsTo(j)
<1> DEFINE new == <<t, connections[t][i] + 1>>
<1>1. connections' \in [Tasks -> [IDs -> 0 .. MaxCalls]]
  BY DEF TypeOK, Connected
<1>2. ConnectionsTo(i)' = ConnectionsTo(i) \cup {new}
  BY DEF TypeOK, Connected, ConnectionsTo
<1>3. new \notin ConnectionsTo(i)
  BY DEF TypeOK, ConnectionsTo
<1>4. Cardinality(ConnectionsTo(i) \cup {new}) = Cardinality(ConnectionsTo(i)) + 1
  BY <1>3, ConnectionsFinite, FS_AddElement
<1>5. \A j \in IDs \ {i} : ConnectionsTo(j)' = ConnectionsTo(j)
  BY DEF TypeOK, Connected, ConnectionsTo
<1> QED BY <1>1, <1>2, <1>4, <1>5

\* disconnect takes one away from the count of its ID, and from no other.
LEMMA OneLess ==
  ASSUME TypeOK, NEW t \in Tasks, NEW i \in IDs, connections[t][i] > 0,
         connections' = [connections EXCEPT ![t][i] = @ - 1]
  PROVE  /\ connections' \in [Tasks -> [IDs -> 0 .. MaxCalls]]
         /\ Cardinality(ConnectionsTo(i)') = Cardinality(ConnectionsTo(i)) - 1
         /\ \A j \in IDs \ {i} : ConnectionsTo(j)' = ConnectionsTo(j)
<1> DEFINE last == <<t, connections[t][i]>>
<1>1. connections' \in [Tasks -> [IDs -> 0 .. MaxCalls]]
  BY DEF TypeOK
<1>2. ConnectionsTo(i)' = ConnectionsTo(i) \ {last}
  BY DEF TypeOK, ConnectionsTo
<1>3. last \in ConnectionsTo(i)
  BY DEF TypeOK, ConnectionsTo
<1>4. Cardinality(ConnectionsTo(i) \ {last}) = Cardinality(ConnectionsTo(i)) - 1
  BY <1>3, ConnectionsFinite, FS_RemoveElement
<1>5. \A j \in IDs \ {i} : ConnectionsTo(j)' = ConnectionsTo(j)
  BY DEF TypeOK, ConnectionsTo
<1> QED BY <1>1, <1>2, <1>4, <1>5

-------------------------------------------------------------------------------
(* The list of free channels, from the end to the head. *)

LEMMA Numbers ==
  ASSUME NEW S, NEW N, NEW f
  PROVE  f \in Bijection(1 .. N, S) <=> /\ f \in [1 .. N -> S]
                                        /\ \A i, j \in 1 .. N : f[i] = f[j] => i = j
                                        /\ \A c \in S : \E i \in 1 .. N : f[i] = c
BY DEF Bijection, Injection, Surjection, IsInjective

LEMMA FreeFinite ==
  IsFiniteSet(Free) /\ Cardinality(Free) \in Nat /\ (Cardinality(Free) = 0 <=> Free = {})
BY FS_Subset, FS_CardinalityType, FS_EmptySet DEF Free

\* The list starts with a free channel, if there is any.
LEMMA HeadIsFree ==
  ASSUME FreeChain
  PROVE  freeChannelsLinkedList \in Free \/ (Free = {} /\ freeChannelsLinkedList \in {NULL, Beyond})
<1> DEFINE N == Cardinality(Free)
<1>1. PICK order \in Bijection(1 .. N, Free) : Chained(order, N)
  BY DEF FreeChain
<1> HIDE DEF N
<1>2. N \in Nat /\ (N = 0 <=> Free = {})
  BY FreeFinite DEF N
<1>3. CASE N = 0
  BY <1>1, <1>2, <1>3 DEF Chained
<1>4. CASE N # 0
  <2>1. order[N] \in Free
    BY <1>1, <1>2, <1>4, Numbers
  <2> QED BY <1>1, <1>4, <2>1 DEF Chained
<1> QED BY <1>3, <1>4

LEMMA NextInChain ==
  ASSUME FreeChain, NEW c \in Free
  PROVE  channelID[c] \in Free \cup {NULL, Beyond}
<1> DEFINE N == Cardinality(Free)
<1>1. PICK order \in Bijection(1 .. N, Free) : Chained(order, N)
  BY DEF FreeChain
<1>2. N \in Nat
  BY FreeFinite
<1> HIDE DEF N
<1>3. PICK i \in 1 .. N : order[i] = c
  BY <1>1, Numbers
<1>4. i # 1 => order[i - 1] \in Free
  BY <1>1, <1>2, Numbers, SMTT(30)
<1> QED BY <1>1, <1>3, <1>4 DEF Chained

\* The head is taken.
LEMMA ChainPopped ==
  ASSUME FreeChain, freeChannelsLinkedList \in Free,
         Free' = Free \ {freeChannelsLinkedList},
         freeChannelsLinkedList' = channelID[freeChannelsLinkedList],
         \A c \in Free' : channelID'[c] = channelID[c]
  PROVE  FreeChain'
<1>0. PICK N \in Nat : N = Cardinality(Free)
  BY FreeFinite
<1>1. PICK order \in Bijection(1 .. N, Free) : Chained(order, N)
  BY <1>0 DEF FreeChain
<1>2. /\ N \in Nat \ {0} /\ freeChannelsLinkedList \notin {NULL, Beyond}
      /\ Cardinality(Free') = N - 1
  BY <1>0, FreeFinite, FS_RemoveElement, ZenonT(40) DEF Free
<1> DEFINE shorter == [i \in 1 .. N - 1 |-> order[i]]
<1>3. freeChannelsLinkedList = order[N]
  BY <1>1, <1>2 DEF Chained
<1>4. shorter \in Bijection(1 .. N - 1, Free')
  <2>1. /\ order \in [1 .. N -> Free] /\ \A i, j \in 1 .. N : order[i] = order[j] => i = j
        /\ \A c \in Free : \E i \in 1 .. N : order[i] = c
    BY <1>1, Numbers
  <2>2. \A i \in 1 .. N - 1 : i \in 1 .. N /\ N \in 1 .. N /\ i # N
    BY <1>2
  <2>3. shorter \in [1 .. N - 1 -> Free']
    BY <1>3, <2>1, <2>2
  <2>4. \A c \in Free' : \E i \in 1 .. N - 1 : shorter[i] = c
    BY <1>2, <1>3, <2>1
  <2>5. \A i, j \in 1 .. N - 1 : shorter[i] = shorter[j] => i = j
    BY <2>1, <2>2
  <2> HIDE DEF shorter
  <2> QED BY <2>3, <2>4, <2>5, Numbers
<1>5. \A i \in 1 .. N - 1 : i \in 1 .. N /\ shorter[i] = order[i] /\ shorter[i] \in Free'
  BY <1>2, <1>4, Numbers
<1>6. Chained(shorter, N - 1)'
  <2>1. ASSUME NEW i \in 1 .. N - 1
        PROVE  channelID'[shorter[i]] \in IF i = 1 THEN {NULL, Beyond} ELSE {shorter[i - 1]}
    <3>1. channelID'[shorter[i]] = channelID[order[i]]
      BY <1>5
    <3>2. i # 1 => i - 1 \in 1 .. N - 1
      BY <1>2
    <3> QED BY <1>1, <1>5, <3>1, <3>2 DEF Chained
  <2>2. freeChannelsLinkedList' \in IF N - 1 = 0 THEN {NULL, Beyond} ELSE {shorter[N - 1]}
    <3>1. freeChannelsLinkedList' = channelID[order[N]] /\ N \in 1 .. N
      BY <1>2, <1>3
    <3>2. channelID[order[N]] \in IF N = 1 THEN {NULL, Beyond} ELSE {order[N - 1]}
      BY <1>1, <3>1 DEF Chained
    <3>3. CASE N = 1
      BY <3>1, <3>2, <3>3
    <3>4. CASE N # 1
      <4>1. N - 1 \in 1 .. N - 1 /\ N - 1 # 0
        BY <1>2, <3>4
      <4>2. shorter[N - 1] = order[N - 1]
        BY <1>5, <4>1
      <4> QED BY <3>1, <3>2, <3>4, <4>1, <4>2
    <3> QED BY <3>3, <3>4
  <2> QED BY <2>1, <2>2 DEF Chained
<1> QED BY <1>2, <1>4, <1>6 DEF FreeChain

\* A channel is put in front.
LEMMA ChainPushed ==
  ASSUME FreeChain, NEW channel \in Channels \ Free, Free' = Free \cup {channel},
         freeChannelsLinkedList' = channel, channelID'[channel] = freeChannelsLinkedList,
         \A c \in Free : channelID'[c] = channelID[c]
  PROVE  FreeChain'
<1>0. PICK N \in Nat : N = Cardinality(Free)
  BY FreeFinite
<1>1. PICK order \in Bijection(1 .. N, Free) : Chained(order, N)
  BY <1>0 DEF FreeChain
<1>2. Cardinality(Free') = N + 1
  BY <1>0, FreeFinite, FS_AddElement
<1> DEFINE longer == [i \in 1 .. N + 1 |-> IF i = N + 1 THEN channel ELSE order[i]]
<1>3. /\ order \in [1 .. N -> Free] /\ \A i, j \in 1 .. N : order[i] = order[j] => i = j
      /\ \A c \in Free : \E i \in 1 .. N : order[i] = c
  BY <1>1, Numbers
<1>5. \A i \in 1 .. N : longer[i] = order[i] /\ order[i] \in Free
  BY <1>2, <1>3
<1>4. longer \in Bijection(1 .. N + 1, Free')
  <2>1. longer[N + 1] = channel
    OBVIOUS
  <2>2. longer \in [1 .. N + 1 -> Free']
    <3>1. \A i \in 1 .. N + 1 : i \in 1 .. N \/ i = N + 1
      BY <1>0
    <3> QED BY <1>5, <2>1, <3>1
  <2>3. ASSUME NEW i \in 1 .. N + 1, NEW j \in 1 .. N + 1, longer[i] = longer[j]
        PROVE  i = j
    <3>1. CASE i \in 1 .. N /\ j \in 1 .. N
      BY <1>3, <1>5, <2>3, <3>1
    <3>2. CASE i = N + 1 \/ j = N + 1
      <4>1. \A k \in 1 .. N : longer[k] # channel
        BY <1>5
      <4>2. \A k \in 1 .. N + 1 : k \in 1 .. N \/ k = N + 1
        BY <1>0
      <4> HIDE DEF longer
      <4> QED BY <2>1, <2>3, <3>2, <4>1, <4>2
    <3> QED BY <1>0, <3>1, <3>2
  <2>4. ASSUME NEW c \in Free'
        PROVE  \E i \in 1 .. N + 1 : longer[i] = c
    <3>1. CASE c = channel
      <4>1. N + 1 \in 1 .. N + 1
        BY <1>0
      <4> QED BY <2>1, <3>1, <4>1
    <3>2. CASE c \in Free
      <4>1. PICK i \in 1 .. N : order[i] = c
        BY <1>3, <3>2
      <4>2. i \in 1 .. N + 1
        BY <1>0
      <4> QED BY <1>5, <4>1, <4>2
    <3> QED BY <2>4, <3>1, <3>2
  <2> HIDE DEF longer
  <2> QED BY <2>2, <2>3, <2>4, Numbers
<1>6. Chained(longer, N + 1)'
  <2>1. ASSUME NEW i \in 1 .. N
        PROVE  channelID'[longer[i]] \in IF i = 1 THEN {NULL, Beyond} ELSE {longer[i - 1]}
    <3>1. channelID'[longer[i]] = channelID[order[i]]
      BY <1>5
    <3>2. i # 1 => i - 1 \in 1 .. N
      OBVIOUS
    <3> QED BY <1>1, <1>5, <3>1, <3>2, ZenonT(40) DEF Chained
  <2>2. channelID'[longer[N + 1]] \in IF N + 1 = 1 THEN {NULL, Beyond} ELSE {longer[N]}
    <3>1. channelID'[longer[N + 1]] = freeChannelsLinkedList
      OBVIOUS
    <3> QED BY <1>1, <1>5, <3>1 DEF Chained
  <2>3. freeChannelsLinkedList' = longer[N + 1]
    OBVIOUS
  <2>4. ASSUME NEW i \in 1 .. N + 1
        PROVE  channelID'[longer[i]] \in IF i = 1 THEN {NULL, Beyond} ELSE {longer[i - 1]}
    <3>1. i \in 1 .. N \/ (i = N + 1 /\ i - 1 = N)
      OBVIOUS
    <3> QED BY <2>1, <2>2, <3>1
  <2>5. N + 1 # 0
    OBVIOUS
  <2> HIDE DEF longer
  <2> QED BY <2>3, <2>4, <2>5 DEF Chained
<1> QED BY <1>2, <1>4, <1>6 DEF FreeChain

-------------------------------------------------------------------------------
(* Every call keeps the invariant. *)

\* The channels stand in the order in which they were made.
LEMMA InitEstablishes == Init => IInv
<1> SUFFICES ASSUME Init PROVE IInv
  OBVIOUS
<1> DEFINE N == Cardinality(Channels)
<1>1. PICK made \in Bijection(1 .. N, Channels) :
        /\ freeChannelsLinkedList = made[N]
        /\ \A i \in DOMAIN made : channelID[made[i]] = IF i = 1 THEN NULL ELSE made[i - 1]
  BY DEF Init
<1>2. /\ made \in [1 .. N -> Channels]
      /\ \A i, j \in 1 .. N : made[i] = made[j] => i = j
      /\ \A c \in Channels : \E i \in 1 .. N : made[i] = c
  BY <1>1 DEF Bijection, Injection, Surjection, IsInjective
<1>3. N \in Nat \ {0}
  BY FS_CardinalityType, FS_EmptySet
<1> HIDE DEF N
<1>4. TypeOK
  BY <1>1, <1>2, <1>3 DEF Init, TypeOK, Pointers
<1>5. Free = Channels /\ InUse = {} /\ Bound = {}
  BY DEF Init, Free, InUse, Bound
<1>6. FreeChain
  <2>1. Chained(made, N)
    BY <1>1, <1>2, <1>3 DEF Chained
  <2> QED BY <1>1, <1>5, <2>1 DEF FreeChain, N
<1>7. OwnChannel /\ HandlesAgree
  BY <1>5 DEF Init, OwnChannel, HandlesAgree
<1>8. Counted
  <2>1. \A i \in IDs : Cardinality(ConnectionsTo(i)) = 0
    BY <1>4, NoneConnected DEF Init
  <2> QED BY <1>5, <2>1 DEF Init, Counted
<1> QED BY <1>4, <1>6, <1>7, <1>8 DEF IInv

\* A call that is refused leaves everything but the answer alone; the list may go on beyond
\* the channels.
LEMMA NothingTaken ==
  ASSUME IInv, NEW t \in Tasks, NEW i \in IDs, connections[t][i] = 0, Returns(t, i, NULL),
         \/ freeChannelsLinkedList' = freeChannelsLinkedList
         \/ freeChannelsLinkedList = NULL /\ freeChannelsLinkedList' = Beyond,
         channelHashTable' = channelHashTable,
         channelStatusHashTable' = channelStatusHashTable,
         channelID' = channelID, capacity' = capacity, connections' = connections
  PROVE  IInv'
<1> USE DEF IInv
<1>1. TypeOK'
  BY DEF TypeOK, Returns, Pointers
<1>2. InUse' = InUse /\ Bound' = Bound /\ Free' = Free
  BY DEF InUse, Bound, Free
<1>3. FreeChain'
  <2>1. CASE freeChannelsLinkedList' = freeChannelsLinkedList
    BY <1>2, <2>1 DEF FreeChain, Chained
  <2>2. CASE freeChannelsLinkedList = NULL /\ freeChannelsLinkedList' = Beyond
    <3>1. Cardinality(Free) = 0
      BY <2>2, HeadIsFree, FreeFinite DEF Free
    <3> QED BY <1>2, <2>2, <3>1 DEF FreeChain, Chained
  <2> QED BY <2>1, <2>2
<1>4. OwnChannel'
  BY <1>2 DEF OwnChannel
<1>5. HandlesAgree'
  BY DEF HandlesAgree, Returns, TypeOK
<1>6. Counted'
  BY <1>2 DEF Counted, ConnectionsTo
<1> QED BY <1>1, <1>3, <1>4, <1>5, <1>6

LEMMA JoinStep ==
  ASSUME IInv, NEW t \in Tasks, NEW i \in IDs, NEW request \in Requests,
         connections[t][i] < MaxCalls, Join(t, i, request)
  PROVE  IInv'
<1> USE DEF IInv, Join
<1>1. /\ connections' \in [Tasks -> [IDs -> 0 .. MaxCalls]]
      /\ Cardinality(ConnectionsTo(i)') = Cardinality(ConnectionsTo(i)) + 1
      /\ \A j \in IDs \ {i} : ConnectionsTo(j)' = ConnectionsTo(j)
  BY OneMore
<1>2. TypeOK'
  <2>1. channelHashTable[i] \in Pointers
    BY DEF TypeOK
  <2>2. handle' \in [Tasks -> [IDs -> Pointers]]
    BY <2>1 DEF TypeOK, Returns
  <2>3. channelStatusHashTable' \in [IDs -> Nat]
    BY DEF TypeOK
  <2> QED BY <1>1, <2>2, <2>3 DEF TypeOK
<1>3. InUse' = InUse /\ Bound' = Bound /\ Free' = Free /\ i \in InUse
  BY DEF InUse, Bound, Free
<1>4. FreeChain' /\ OwnChannel'
  BY <1>3 DEF FreeChain, Chained, OwnChannel
<1>5. HandlesAgree'
  BY DEF HandlesAgree, Returns, Connected, TypeOK
<1>6. Counted'
  BY <1>1, <1>3, ConnectionsFinite DEF Counted, TypeOK
<1> QED BY <1>2, <1>4, <1>5, <1>6

\* Nobody is connected to an ID that has no channel.
LEMMA UnusedHasNobody ==
  ASSUME IInv, NEW i \in IDs, i \notin InUse
  PROVE  Cardinality(ConnectionsTo(i)) = 0 /\ \A t \in Tasks : connections[t][i] = 0
BY NoneConnected, ConnectionsFinite DEF IInv, Counted, TypeOK

LEMMA OpenStep ==
  ASSUME IInv, NEW t \in Tasks, NEW i \in IDs, NEW request \in Requests,
         connections[t][i] < MaxCalls, Open(t, i, request)
  PROVE  IInv'
<1> DEFINE channel == freeChannelsLinkedList
<1> USE DEF IInv, Open
<1>1. /\ connections' \in [Tasks -> [IDs -> 0 .. MaxCalls]]
      /\ Cardinality(ConnectionsTo(i)') = Cardinality(ConnectionsTo(i)) + 1
      /\ \A j \in IDs \ {i} : ConnectionsTo(j)' = ConnectionsTo(j)
  BY OneMore
<1>2. i \notin InUse /\ channel \in Free
  BY HeadIsFree DEF InUse
<1>3. Cardinality(ConnectionsTo(i)) = 0 /\ \A u \in Tasks : connections[u][i] = 0
  BY <1>2, UnusedHasNobody
<1>4. TypeOK'
  <2>1. channel \in Pointers /\ channelID[channel] \in Pointers
    BY <1>2, HeadIsFree, NextInChain DEF TypeOK, Free, Pointers
  <2>2. handle' \in [Tasks -> [IDs -> Pointers]] /\ channelHashTable' \in [IDs -> Pointers]
    BY <2>1 DEF TypeOK, Returns
  <2>3. capacity' \in [Channels -> 0 .. MaxCapacity]
    BY DEF TypeOK, Admissible, Requests
  <2>4. channelStatusHashTable' \in [IDs -> Nat] /\ channelID' \in [Channels -> Pointers \cup IDs]
    BY DEF TypeOK
  <2> QED BY <1>1, <2>1, <2>2, <2>3, <2>4 DEF TypeOK
<1>5. InUse' = InUse \cup {i} /\ \A j \in InUse : channelHashTable'[j] = channelHashTable[j]
  BY <1>2 DEF InUse, TypeOK
<1>6. channelHashTable'[i] = channel
  BY DEF TypeOK
<1>7. Bound' = Bound \cup {channel} /\ Free' = Free \ {channel}
  BY <1>2, <1>5, <1>6 DEF Bound, Free
<1>8. FreeChain'
  <2>1. \A c \in Free' : channelID'[c] = channelID[c]
    BY <1>7 DEF TypeOK, Free
  <2> QED BY <1>2, <1>7, <2>1, ChainPopped
<1>9. OwnChannel'
  <2>1. \A j \in InUse : channelHashTable[j] # channel
    BY <1>2 DEF Free, Bound
  <2> QED BY <1>5, <1>6, <1>7, <2>1 DEF OwnChannel
<1>10. HandlesAgree'
  BY <1>3, <1>5, <1>6 DEF HandlesAgree, Returns, Connected, TypeOK
<1>11. Counted'
  BY <1>1, <1>3, <1>5 DEF Counted, TypeOK
<1> QED BY <1>4, <1>8, <1>9, <1>10, <1>11

LEMMA ConnectStep ==
  ASSUME IInv, NEW t \in Tasks, NEW i \in IDs, NEW request \in Requests, Connect(t, i, request)
  PROVE  IInv'
<1>1. CASE Refuse(t, i, request)
  <2>1. /\ connections[t][i] = 0 /\ Returns(t, i, NULL)
        /\ \/ freeChannelsLinkedList' = freeChannelsLinkedList
           \/ freeChannelsLinkedList = NULL /\ freeChannelsLinkedList' = Beyond
        /\ channelHashTable' = channelHashTable
        /\ channelStatusHashTable' = channelStatusHashTable
        /\ channelID' = channelID /\ capacity' = capacity /\ connections' = connections
    BY <1>1 DEF Refuse, tables
  <2> QED BY <2>1, NothingTaken
<1>2. CASE Join(t, i, request)
  BY <1>2, JoinStep DEF Connect
<1>3. CASE Open(t, i, request)
  BY <1>3, OpenStep DEF Connect
<1>4. CASE Exhausted(t, i, request)
  <2>1. /\ connections[t][i] = 0 /\ Returns(t, i, NULL)
        /\ \/ freeChannelsLinkedList' = freeChannelsLinkedList
           \/ freeChannelsLinkedList = NULL /\ freeChannelsLinkedList' = Beyond
        /\ channelHashTable' = channelHashTable
        /\ channelStatusHashTable' = channelStatusHashTable
        /\ channelID' = channelID /\ capacity' = capacity /\ connections' = connections
    BY <1>4 DEF Exhausted, tables
  <2> QED BY <2>1, NothingTaken
<1> QED BY <1>1, <1>2, <1>3, <1>4 DEF Connect

\* The last disconnection puts the channel in front of the free ones.
LEMMA DisconnectStep ==
  ASSUME IInv, NEW t \in Tasks, NEW i \in IDs, Disconnect(t, i)
  PROVE  IInv'
<1> DEFINE channel == channelHashTable[i]
<1>0. /\ channelStatusHashTable[i] \in Nat /\ channelStatusHashTable[i] # 0
      /\ channelStatusHashTable' \in [IDs -> Nat]
      /\ channelStatusHashTable'[i] = channelStatusHashTable[i] - 1
  <2>1. channelStatusHashTable \in [IDs -> Nat] /\ channelStatusHashTable[i] # 0
    BY DEF IInv, TypeOK, Disconnect, CheckAlive
  <2>2. channelStatusHashTable' = [channelStatusHashTable EXCEPT ![i] = @ - 1]
    BY DEF Disconnect
  <2> QED BY <2>1, <2>2
<1> USE DEF IInv, Disconnect
<1>1. /\ connections' \in [Tasks -> [IDs -> 0 .. MaxCalls]]
      /\ Cardinality(ConnectionsTo(i)') = Cardinality(ConnectionsTo(i)) - 1
      /\ \A j \in IDs \ {i} : ConnectionsTo(j)' = ConnectionsTo(j)
  BY OneLess
<1>2. i \in InUse /\ channel \in Channels /\ channel \in Bound
  BY DEF Counted, CheckAlive, TypeOK, OwnChannel, Bound
<1>3. /\ channelStatusHashTable' \in [IDs -> Nat]
      /\ handle' \in [Tasks -> [IDs -> Pointers]]
  BY <1>0 DEF TypeOK, Pointers
<1>4. \A j \in IDs : channelStatusHashTable'[j] = Cardinality(ConnectionsTo(j)')
  BY <1>1 DEF TypeOK, Counted
<1>5. CASE LastOne(i)
  <2>1. TypeOK'
    <3>1. channelHashTable' \in [IDs -> Pointers]
      BY <1>5 DEF TypeOK, Pointers
    <3>2. channelID' \in [Channels -> Pointers \cup IDs] /\ freeChannelsLinkedList' \in Pointers
      BY <1>2, <1>5 DEF TypeOK, Pointers
    <3> QED BY <1>1, <1>3, <3>1, <3>2 DEF TypeOK
  <2>2. InUse' = InUse \ {i} /\ \A j \in InUse' : channelHashTable'[j] = channelHashTable[j]
    BY <1>5 DEF TypeOK, InUse
  <2>3. Bound' = Bound \ {channel}
    BY <1>2, <2>2 DEF Bound, OwnChannel
  <2>4. Free' = Free \cup {channel} /\ channel \notin Free
    BY <1>2, <2>3 DEF Free
  <2>5. /\ freeChannelsLinkedList' = channel /\ channelID'[channel] = freeChannelsLinkedList
        /\ \A c \in Free : channelID'[c] = channelID[c]
    BY <1>2, <1>5, <2>4 DEF Free
  <2>6. FreeChain'
    BY <1>2, <2>4, <2>5, ChainPushed
  <2>7. OwnChannel'
    BY <2>2, <2>3 DEF OwnChannel
  <2>8. Counted'
    <3>1. channelStatusHashTable'[i] = 0
      BY <1>5 DEF LastOne, TypeOK
    <3>2. \A j \in IDs \ {i} : channelStatusHashTable'[j] = channelStatusHashTable[j]
      BY DEF TypeOK
    <3> QED BY <1>2, <1>4, <2>2, <3>1, <3>2 DEF Counted, InUse
  <2>9. HandlesAgree'
    <3>1. \A u \in Tasks : connections'[u][i] = 0
      <4>1. Cardinality(ConnectionsTo(i)') = 0
        BY <1>4, <1>5 DEF LastOne, TypeOK
      <4>2. ConnectionsTo(i)' = {p \in Tasks \X (1 .. MaxCalls) : p[2] <= connections'[p[1]][i]}
        BY DEF ConnectionsTo
      <4> QED BY <1>1, <4>1, <4>2, NoneCounted
    <3>2. \A u \in Tasks : handle'[u][i] = NULL
      BY <3>1 DEF HandlesAgree, TypeOK
    <3>3. \A u \in Tasks, j \in IDs \ {i} :
            handle'[u][j] = handle[u][j] /\ connections'[u][j] = connections[u][j]
            /\ channelHashTable'[j] = channelHashTable[j]
      BY <1>5 DEF TypeOK
    <3> QED BY <3>1, <3>2, <3>3 DEF HandlesAgree
  <2> QED BY <2>1, <2>6, <2>7, <2>8, <2>9
<1>6. CASE ~LastOne(i)
  <2>1. TypeOK'
    BY <1>1, <1>3, <1>6 DEF TypeOK
  <2>2. InUse' = InUse /\ Bound' = Bound /\ Free' = Free
    BY <1>6 DEF InUse, Bound, Free
  <2>3. FreeChain' /\ OwnChannel'
    BY <1>6, <2>2, ZenonT(40) DEF FreeChain, Chained, OwnChannel
  <2>4. HandlesAgree'
    BY <1>6 DEF HandlesAgree, TypeOK
  <2>5. Counted'
    <3>1. \A j \in IDs \ {i} : channelStatusHashTable'[j] = channelStatusHashTable[j]
      BY DEF TypeOK
    <3>2. channelStatusHashTable'[i] > 0
      BY <1>0, <1>6 DEF LastOne, TypeOK
    <3> QED BY <1>2, <1>4, <2>2, <3>1, <3>2 DEF Counted
  <2> QED BY <2>1, <2>3, <2>4, <2>5
<1> QED BY <1>5, <1>6

LEMMA NextKeeps == IInv /\ [Next]_vars => IInv'
<1> SUFFICES ASSUME IInv, [Next]_vars PROVE IInv'
  OBVIOUS
<1>1. ASSUME NEW t \in Tasks, NEW i \in IDs, NEW request \in Requests, Connect(t, i, request)
      PROVE  IInv'
  BY <1>1, ConnectStep
<1>2. ASSUME NEW t \in Tasks, NEW i \in IDs, Disconnect(t, i)
      PROVE  IInv'
  BY <1>2, DisconnectStep
<1>3. CASE UNCHANGED vars
  <2>1. InUse' = InUse /\ Bound' = Bound /\ Free' = Free
    BY <1>3 DEF vars, tables, InUse, Bound, Free
  <2>2. \A i \in IDs : ConnectionsTo(i)' = ConnectionsTo(i)
    BY <1>3 DEF vars, users, ConnectionsTo
  <2>3. UNCHANGED <<channelHashTable, channelStatusHashTable, freeChannelsLinkedList, channelID,
                    capacity, connections, handle>>
    BY <1>3 DEF vars, tables, users
  <2>4. FreeChain'
    BY <2>1, <2>3 DEF IInv, FreeChain, Chained
  <2> QED BY <2>1, <2>2, <2>3, <2>4 DEF IInv, TypeOK, OwnChannel, HandlesAgree, Counted
<1> QED BY <1>1, <1>2, <1>3 DEF Next

-------------------------------------------------------------------------------
\* The tables, the free list and what the tasks were given agree at every moment
\* (channelManger.c:78-101, 122-138).
THEOREM Invariance == Spec => []IInv
<1> QED BY InitEstablishes, NextKeeps, PTL DEF Spec

\* Tasks share a channel exactly when they use the same ID (channelManger.c:54-56).
THEOREM Meeting == Spec => []Rendezvous
<1>1. IInv => Rendezvous
  <2> SUFFICES ASSUME IInv, NEW t \in Tasks, NEW u \in Tasks, NEW i \in IDs, NEW j \in IDs,
                      handle[t][i] # NULL, handle[u][j] # NULL
               PROVE  handle[t][i] = handle[u][j] <=> i = j
    BY DEF Rendezvous
  <2>1. handle[t][i] = channelHashTable[i] /\ handle[u][j] = channelHashTable[j]
    BY DEF IInv, HandlesAgree
  <2>2. i \in InUse /\ j \in InUse
    BY <2>1 DEF InUse
  <2> QED BY <2>1, <2>2 DEF IInv, OwnChannel
<1> QED BY <1>1, Invariance, PTL

\* A channel is in use from the first connection to the last disconnection
\* (channelManger.c:117-118).
THEOREM UsedWhileConnected == Spec => []InUseWhileConnected
<1>1. IInv => InUseWhileConnected
  <2> SUFFICES ASSUME IInv, NEW i \in IDs
               PROVE  i \in InUse <=> \E t \in Tasks : connections[t][i] > 0
    BY DEF InUseWhileConnected
  <2>1. i \in InUse <=> Cardinality(ConnectionsTo(i)) # 0
    BY ConnectionsFinite DEF IInv, Counted
  <2>2. (\E t \in Tasks : connections[t][i] > 0) <=> (\E t \in Tasks : connections[t][i] # 0)
    BY DEF IInv, TypeOK
  <2> QED BY <2>1, <2>2, NoneConnected DEF IInv
<1> QED BY <1>1, Invariance, PTL

\* Walk follows the list: it is defined on every number, and stays among pointers.
LEMMA WalkStep ==
  ASSUME TypeOK
  PROVE  LET cell == Walk(freeChannelsLinkedList, channelID)
         IN  /\ cell[0] = freeChannelsLinkedList
             /\ \A n \in Nat :
                  cell[n + 1] = IF cell[n] \in Channels THEN channelID[cell[n]] ELSE NULL
<1> DEFINE T == Pointers \cup IDs
           head == freeChannelsLinkedList
           links == channelID
           Step == [n \in Nat |-> [c \in T |-> IF c \in Channels THEN links[c] ELSE NULL]]
<1>1. PICK f \in [Nat -> T] : Iterates(f, head, Step)
  <2>1. Step \in [Nat -> [T -> T]] /\ head \in T
    BY DEF TypeOK, Pointers
  <2> HIDE DEF Step, T, head
  <2> QED BY <2>1, Iteration
<1>2. f = [n \in Nat |-> IF n = 0 THEN head
                         ELSE IF f[n - 1] \in Channels THEN links[f[n - 1]] ELSE NULL]
  BY <1>1 DEF Iterates
<1> DEFINE cell == Walk(freeChannelsLinkedList, channelID)
<1>3. cell = [n \in Nat |-> IF n = 0 THEN head
                            ELSE IF cell[n - 1] \in Channels THEN links[cell[n - 1]] ELSE NULL]
  BY <1>2 DEF Walk
<1> HIDE DEF cell
<1>4. ASSUME NEW n \in Nat
      PROVE  cell[n + 1] = IF cell[n] \in Channels THEN channelID[cell[n]] ELSE NULL
  <2>1. n + 1 \in Nat /\ n + 1 # 0 /\ n + 1 - 1 = n
    OBVIOUS
  <2> QED BY <1>3, <2>1
<1>5. cell[0] = head
  BY <1>3
<1> QED BY <1>4, <1>5 DEF cell

\* The free list holds exactly the channels that no ID has, each once, and ends
\* (channelManger.c:91-92, 131-135): following it for as many steps as there are such
\* channels meets them in the order of their numbers, and no step more is possible.
THEOREM NothingLost == Spec => []NoChannelLost
<1>1. IInv => NoChannelLost
  <2> SUFFICES ASSUME IInv PROVE NoChannelLost
    OBVIOUS
  <2> DEFINE cell == Walk(freeChannelsLinkedList, channelID)
  <2>2. PICK N \in Nat : N = Cardinality(Free)
    BY FreeFinite
  <2>1. PICK order \in Bijection(1 .. N, Free) : Chained(order, N)
    BY <2>2 DEF IInv, FreeChain
  <2>3. /\ order \in [1 .. N -> Free] /\ \A c \in Free : \E i \in 1 .. N : order[i] = c
        /\ \A i \in 1 .. N : order[i] \in Channels
    BY <2>1, Numbers, SMTT(30) DEF Free
  <2>4. /\ cell[0] = freeChannelsLinkedList
        /\ \A n \in Nat : cell[n + 1] = IF cell[n] \in Channels THEN channelID[cell[n]] ELSE NULL
    BY WalkStep DEF IInv
  <2> HIDE DEF cell
  <2>5. \A n \in Nat : n < N => cell[n] = order[N - n]
    <3> DEFINE Along == {n \in Nat : n < N => cell[n] = order[N - n]}
    <3>1. 0 \in Along
      BY <2>1, <2>2, <2>4 DEF Chained
    <3>2. ASSUME NEW n \in Nat, n \in Along
          PROVE  n + 1 \in Along
      <4> SUFFICES ASSUME n + 1 < N PROVE cell[n + 1] = order[N - (n + 1)]
        OBVIOUS
      <4>1. N - n \in 1 .. N /\ N - n # 1 /\ N - n - 1 = N - (n + 1) /\ n < N
        BY <2>2
      <4>2. cell[n] = order[N - n] /\ cell[n] \in Channels
        BY <2>3, <3>2, <4>1
      <4>3. channelID[order[N - n]] = order[N - (n + 1)]
        BY <2>1, <4>1 DEF Chained
      <4> QED BY <2>4, <4>2, <4>3
    <3>3. \A n \in Nat : n \in Along
      <4> HIDE DEF Along
      <4> QED BY <3>1, <3>2, Induction
    <3> QED BY <3>3
  <2>6. Free = {cell[n - 1] : n \in 1 .. N}
    <3>1. \A n \in 1 .. N : n - 1 \in Nat /\ n - 1 < N /\ N - (n - 1) \in 1 .. N
      BY <2>2
    <3>2. \A n \in 1 .. N : cell[n - 1] \in Free
      BY <2>3, <2>5, <3>1
    <3>3. ASSUME NEW c \in Free
          PROVE  \E n \in 1 .. N : cell[n - 1] = c
      <4>1. PICK i \in 1 .. N : order[i] = c
        BY <2>3
      <4>2. N + 1 - i \in 1 .. N /\ N + 1 - i - 1 \in Nat /\ N + 1 - i - 1 < N
            /\ N - (N + 1 - i - 1) = i
        BY <2>2
      <4>3. cell[N + 1 - i - 1] = order[N - (N + 1 - i - 1)]
        BY <2>5, <4>2
      <4>4. cell[N + 1 - i - 1] = c
        BY <4>1, <4>2, <4>3
      <4> QED BY <4>2, <4>4
    <3> QED BY <3>2, <3>3
  <2>7. cell[N] \in {NULL, Beyond}
    <3>1. CASE N = 0
      BY <2>1, <2>4, <3>1 DEF Chained
    <3>2. CASE N # 0
      <4>1. N - 1 \in Nat /\ N - 1 < N /\ N - 1 + 1 = N /\ N - (N - 1) = 1 /\ 1 \in 1 .. N
        BY <3>2
      <4>2. cell[N - 1] = order[1]
        BY <2>5, <4>1
      <4>3. cell[N - 1 + 1] = channelID[order[1]]
        BY <2>3, <2>4, <4>1, <4>2
      <4>4. channelID[order[1]] \in {NULL, Beyond}
        BY <2>1, <4>1 DEF Chained
      <4> QED BY <4>1, <4>3, <4>4
    <3> QED BY <3>1, <3>2
  <2> QED BY <2>2, <2>6, <2>7 DEF NoChannelLost, IsList, Free, cell
<1> QED BY <1>1, Invariance, PTL

\* Nobody sets a channel up again under a task that is connected to it
\* (channelManger.c:77-89, 97): the one that connect sets up is free.
THEOREM CapacityKept == Spec => CapacityStands
<1> DEFINE Kept == \A t \in Tasks, i \in IDs :
       connections[t][i] > 0 /\ connections'[t][i] > 0 /\ handle[t][i] \in Channels =>
         capacity'[handle[t][i]] = capacity[handle[t][i]]
<1>1. IInv /\ [Next]_vars => [Kept]_vars
  <2> SUFFICES ASSUME IInv, Next, NEW t \in Tasks, NEW i \in IDs,
                      connections[t][i] > 0, handle[t][i] \in Channels
               PROVE  capacity'[handle[t][i]] = capacity[handle[t][i]]
    OBVIOUS
  <2>1. handle[t][i] \in Bound
    BY DEF IInv, HandlesAgree, InUse, Bound
  <2>2. ASSUME NEW u \in Tasks, NEW j \in IDs, NEW request \in Requests, Open(u, j, request)
        PROVE  capacity'[handle[t][i]] = capacity[handle[t][i]]
    <3>1. freeChannelsLinkedList \notin Bound
      BY <2>2, HeadIsFree DEF Open, IInv, Free
    <3> QED BY <2>1, <2>2, <3>1 DEF Open, IInv, TypeOK
  <2>3. ASSUME NEW u \in Tasks, NEW j \in IDs,
               \/ \E request \in Requests : Refuse(u, j, request) \/ Join(u, j, request)
                                            \/ Exhausted(u, j, request)
               \/ Disconnect(u, j)
        PROVE  capacity' = capacity
    BY <2>3 DEF Refuse, Join, Exhausted, Disconnect
  <2> QED BY <2>2, <2>3 DEF Next, Connect
<1> QED BY <1>1, Invariance, PTL DEF Spec, CapacityStands
===============================================================================
