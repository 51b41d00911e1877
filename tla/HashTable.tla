------------------------------ MODULE HashTable ------------------------------
(***************************************************************************)
(* DataStructures/hashtable.c: an array of cells, linked into one list per *)
(* bucket and one of free cells. A cell is its place in the array, a null  *)
(* pointer is 0. Functions run in handlers, each is one step.              *)
(*                                                                         *)
(* A key is what the hash makes of it: its bucket.                         *)
(***************************************************************************)
EXTENDS Naturals, Sequences, FiniteSets

CONSTANTS Keys, ZeroKey,   \* the key 0, which cleared cells have too
          Values, Nothing, \* the value NULL, which may be stored too
          Hash,            \* djb2_hash
          numberOfBuckets, maximumCapacity

NoCell == 0 \* a null pointer
Cells == 1 .. maximumCapacity
Outside == maximumCapacity + 1 \* a pointer to no cell of this table
CellPointers == NoCell .. Outside
Modes == {"any", "oneValue", "distinct"} \* _checkForDuplicates: 0, 1, 2

ASSUME HashTableAssumption == /\ {numberOfBuckets, maximumCapacity} \subseteq Nat \ {0}
                              /\ Hash \in [Keys -> Nat]
                              /\ ZeroKey \in Keys /\ Nothing \in Values

VARIABLES next, key, underlyingData,             \* OS_hashtable_value_t
          bucketArray, freeList, remainingCapacity, validValueFlag, \* OS_hashtable_t
          answer \* history: what the last call returned, and the mode of a put

cells == <<next, key, underlyingData>>
table == <<bucketArray, freeList, remainingCapacity, validValueFlag>>
tableVars == <<cells, table, answer>>

Buckets == 0 .. numberOfBuckets - 1

TableTypeOK ==
  /\ next \in [Cells -> CellPointers]
  /\ key \in [Cells -> Keys]
  /\ underlyingData \in [Cells -> Values]
  /\ bucketArray \in [Buckets -> CellPointers] /\ freeList \in CellPointers
  /\ remainingCapacity \in 0 .. maximumCapacity
  /\ validValueFlag \in BOOLEAN
  /\ answer \in Values \cup (Modes \X BOOLEAN)

\* new_hashtable. The last cell's pointer is left as the memory was found, which other pools
\* than this one might not clear (hashtable.c:41-42).
TableInit ==
  /\ \E rest \in CellPointers :
       next = [c \in Cells |-> IF c < maximumCapacity THEN c + 1 ELSE rest]
  /\ key = [c \in Cells |-> ZeroKey]
  /\ underlyingData = [c \in Cells |-> Nothing]
  /\ bucketArray = [b \in Buckets |-> NoCell]
  /\ freeList = 1
  /\ remainingCapacity = maximumCapacity
  /\ validValueFlag = FALSE /\ answer = Nothing

-------------------------------------------------------------------------------
\* The first cells of a list, at most n of them: those before a pointer to no cell.
FirstCells(links, head, n) ==
  LET After(c) == IF c \in Cells THEN links[c] ELSE NoCell
      cell[i \in Nat] == IF i = 0 THEN head ELSE After(cell[i - 1])
  IN  SubSeq([i \in 1 .. n |-> cell[i - 1]], 1, Cardinality({i \in 1 .. n : cell[i - 1] \in Cells}))

\* Of each list those cells that have a key, in their order.
Select(keys, k) ==
  [list \in Seq(Cells) |->
    LET found[i \in Nat] == IF i = 0 THEN <<>>
                            ELSE IF keys[list[i]] = k THEN Append(found[i - 1], list[i])
                            ELSE found[i - 1]
    IN  found[Len(list)]]

BucketOf(k) == Hash[k] % numberOfBuckets
Chain(b) == FirstCells(next, bucketArray[b], maximumCapacity)
CellsWith(k) == Select(key, k)[Chain(BucketOf(k))]
Member(c, chain) == \E i \in DOMAIN chain : chain[i] = c

\* Mutant: the two modes look at each other's field.
RejectsSwapped(k, v, mode) ==
  LET chain == Chain(BucketOf(k))
  IN  \E i \in DOMAIN chain :
        LET c == chain[i]
        IN  \/ mode = "oneValue" /\ underlyingData[c] = v
            \/ mode = "distinct" /\ key[c] = k

\* The loop over the bucket. Mode 1 compares keys, mode 2 values, whatever their key.
Rejects(k, v, mode) ==
  LET chain == Chain(BucketOf(k))
  IN  \E i \in DOMAIN chain :
        LET c == chain[i]
        IN  \/ mode = "oneValue" /\ key[c] = k
            \/ mode = "distinct" /\ underlyingData[c] = v

\* Mutant: room is looked for in the free list, whose end is not marked.
FullByList == freeList = NoCell

Full == remainingCapacity = 0

\* OS_hashtable_put
Put(k, v, mode) ==
  /\ IF Full \/ Rejects(k, v, mode)
     THEN answer' = <<mode, FALSE>> /\ UNCHANGED <<cells, table>>
     ELSE LET c == freeList
              b == BucketOf(k)
          IN  /\ freeList' = next[c]
              /\ underlyingData' = [underlyingData EXCEPT ![c] = v]
              /\ key' = [key EXCEPT ![c] = k]
              /\ next' = [next EXCEPT ![c] = bucketArray[b]]
              /\ bucketArray' = [bucketArray EXCEPT ![b] = c]
              /\ remainingCapacity' = remainingCapacity - 1
              /\ answer' = <<mode, TRUE>>
              /\ UNCHANGED validValueFlag

\* A lookup returns the data of its cell, or NULL; the flag tells NULL from a stored NULL.
Found(c) == validValueFlag' = TRUE /\ answer' = underlyingData[c]
NotFound == validValueFlag' = FALSE /\ answer' = Nothing

\* OS_hashtable_getNthValueAtKey; OS_hashtable_get is the case n = 0.
Lookup(k, n) == LET found == CellsWith(k)
                IN  IF n < Len(found) THEN Found(found[n + 1]) ELSE NotFound

GetNthValueAtKey(k, n) ==
  /\ Lookup(k, n)
  /\ UNCHANGED <<cells, bucketArray, freeList, remainingCapacity>>

\* Mutant: the cell before is not told.
UnlinkFirstOnly(b, c) ==
  /\ bucketArray' = [bucketArray EXCEPT ![b] = next[c]]
  /\ next' = [next EXCEPT ![c] = freeList]

\* A cell leaves its bucket and becomes the first free one.
Unlink(b, c) ==
  LET chain == Chain(b)
      before == {p \in Cells : Member(p, chain) /\ next[p] = c}
  IN  /\ bucketArray' = IF before = {} THEN [bucketArray EXCEPT ![b] = next[c]] ELSE bucketArray
      /\ next' = [p \in Cells |-> IF p = c THEN freeList
                                  ELSE IF p \in before THEN next[c] ELSE next[p]]

\* OS_hashtable_remove
Remove(k) ==
  LET found == CellsWith(k)
      c == Head(found)
  IN  IF found = <<>>
      THEN NotFound /\ UNCHANGED <<cells, bucketArray, freeList, remainingCapacity>>
      ELSE /\ Found(c)
           /\ Unlink(BucketOf(k), c)
           /\ key' = [key EXCEPT ![c] = ZeroKey]
           /\ underlyingData' = [underlyingData EXCEPT ![c] = Nothing]
           /\ freeList' = c
           /\ remainingCapacity' = remainingCapacity + 1

\* OS_hashtable_getFirstElementOfNthBucket, and the data of the cell it returns.
GetFirstElementOfNthBucket(n) ==
  /\ IF n \in Buckets /\ bucketArray[n] # NoCell THEN Found(bucketArray[n]) ELSE NotFound
  /\ UNCHANGED <<cells, bucketArray, freeList, remainingCapacity>>

TableNext ==
  \/ \E k \in Keys, v \in Values, mode \in Modes : Put(k, v, mode)
  \/ \E k \in Keys, n \in 0 .. maximumCapacity - 1 : GetNthValueAtKey(k, n)
  \/ \E k \in Keys : Remove(k)
  \/ \E n \in 0 .. numberOfBuckets : GetFirstElementOfNthBucket(n)

TableSpec == TableInit /\ [][TableNext]_tableVars

-------------------------------------------------------------------------------
\* However keys that collide come and go, each cell is in one place: as many free cells as
\* the table counts stand at the head of the free list, the rest in the bucket of their key.
\* The end of the free list is not marked (hashtable.c:53-61), so this is also why put never
\* takes a cell from behind it (hashtable.c:85, 108-109).
FreeCells == FirstCells(next, freeList, remainingCapacity)
EachCellOnce ==
  LET free == FreeCells
      listed(c) == {b \in Buckets : Member(c, Chain(b))}
  IN  /\ Len(free) = remainingCapacity
      /\ \A i, j \in DOMAIN free : free[i] = free[j] => i = j
      /\ \A c \in Cells : listed(c) = IF Member(c, free) THEN {} ELSE {BucketOf(key[c])}

\* The inductive invariant (hashtable.c:108-117, 177-198); ChannelManagerProofs proves it. The
\* list of a bucket has no cycle and ends with a null pointer.
ChainEnds(b) ==
  LET chain == Chain(b)
  IN  /\ \A i, j \in DOMAIN chain : chain[i] = chain[j] => i = j
      /\ NoCell = IF chain = <<>> THEN bucketArray[b] ELSE next[chain[Len(chain)]]
TableIInv == TableTypeOK /\ EachCellOnce /\ \A b \in Buckets : ChainEnds(b)

\* The table is a bounded multimap: puts are refused when it is full or by their mode, the
\* newest value of a key is found and removed first, other keys of the bucket are left
\* alone, and a stored NULL is told from no value (hashtable.c:74-225).
stored == [k \in Keys |-> LET found == CellsWith(k)
                          IN  [i \in DOMAIN found |-> underlyingData[found[i]]]]
Abstract == INSTANCE Multimap WITH NULL <- Nothing, valid <- validValueFlag,
                                   room <- remainingCapacity
IsMultimap == Abstract!Spec

\* Comment, which the code does not keep (see the README): mode 2 is to "reject duplicate
\* values (hasht[11] = 5 ok, hasht[11] = 6 ok, hasht[11]=5 ERROR value 5 is already stored
\* at key 11)" (hashtable.c:79): a value under another key is no duplicate.
RejectsOwnDuplicatesOnly ==
  \A k \in Keys, v \in Values : Rejects(k, v, "distinct") =>
    \E i \in DOMAIN stored[k] : stored[k][i] = v
===============================================================================
