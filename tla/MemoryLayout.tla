---------------------------- MODULE MemoryLayout -----------------------------
(***************************************************************************)
(* How memory_cluster_init of OS/memcluster.c cuts the memory it is given  *)
(* into blocks: one of each size in turn, smallest first, each behind the  *)
(* OS_memBlock_t that describes it, until nothing fits any more. Addresses *)
(* and sizes count words of four bytes, from the start of the array.       *)
(***************************************************************************)
EXTENDS Naturals, Sequences

CONSTANTS BlockSize,  \* blockSize of the pools, smallest first: 2^SMALLEST_BLOCK_SIZE ...
          MemorySize  \* memory_Size_in_4byte_words

ASSUME LayoutAssumption == /\ BlockSize \in Seq(Nat \ {0}) /\ BlockSize # <<>>
                           /\ MemorySize \in Nat \ {0}

numberOfPools == Len(BlockSize)
structSize == 3 \* sizeof(OS_memBlock_t)/4

\* Mutant: the description of the block is forgotten.
RequiredForUserOnly(p) == BlockSize[p]

requiredMemoryForBlock(p) == structSize + BlockSize[p]

\* The variables of the loop, and the blocks it has put into each pool.
\* The test for the alignment is true for every address (see the README): the first word is
\* always skipped.
Begin == [memoryArray |-> 1, words |-> MemorySize - 1, counter |-> 0, numSkips |-> 0,
          pools |-> [p \in 1 .. numberOfPools |-> <<>>]]

\* One pass of the loop; it is over when a pass changes nothing. A size that does not fit is
\* skipped; numSkips counts those over the whole loop and is never set back to 0. The block
\* made last is the first of its pool (__addBlockToPool).
Pass(s) ==
  LET p == (s.counter % numberOfPools) + 1
      required == requiredMemoryForBlock(p)
  IN  IF s.words = 0 THEN s
      ELSE IF required <= s.words
      THEN [memoryArray |-> s.memoryArray + required, words |-> s.words - required,
            counter |-> s.counter + 1, numSkips |-> s.numSkips,
            pools |-> [s.pools EXCEPT ![p] = <<s.memoryArray + structSize>> \o @]]
      ELSE IF s.numSkips + 1 < numberOfPools
      THEN [s EXCEPT !.counter = @ + 1, !.numSkips = @ + 1]
      ELSE s

\* Every pass but the last takes a word at least, or skips.
Loop[n \in Nat] == IF n = 0 THEN Begin ELSE Pass(Loop[n - 1])
Layout == Loop[MemorySize + numberOfPools]

FreeAtFirst == Layout.pools
BlocksOf(p) == {FreeAtFirst[p][i] : i \in 1 .. Len(FreeAtFirst[p])}
Blocks == UNION {BlocksOf(p) : p \in 1 .. numberOfPools}
PoolOf == [b \in Blocks |-> CHOOSE p \in 1 .. numberOfPools : b \in BlocksOf(p)]

\* The words the user of a block may touch, and those of its OS_memBlock_t.
UserWords(b) == b .. b + BlockSize[PoolOf[b]] - 1
StructWords(b) == b - structSize .. b - 1

\* Comment, which the code does not keep (see the README): the loop "exits if all memory
\* allocated, or no further allocation possible" (memcluster.c:56).
NothingFits == \A p \in 1 .. numberOfPools : requiredMemoryForBlock(p) > Layout.words

\* Comment, which the code does not keep (see the README): "ensuring that the headPtr address
\* of the memblock is 8byte aligned so that the memcluster can be used to allocate memory
\* for task stacks" (memcluster.c:33-34).
HeadsAligned == \A b \in Blocks : b % 2 = 0
===============================================================================
