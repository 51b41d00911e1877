------------------------------ MODULE RingQueue ------------------------------
(***************************************************************************)
(* The ring buffer of DataStructures/queue.c. Pointers are offsets from    *)
(* memoryStart; memoryEnd, the offset Capacity, is the last slot, so the   *)
(* ring has one slot more than the queue holds words.                      *)
(*                                                                         *)
(* Callers hold a lock (channel.c), so each function is one step. result   *)
(* is the return code and, for a successful call, the word it moved.       *)
(***************************************************************************)
EXTENDS Naturals, Sequences

CONSTANTS Words, Zero, \* the words stored, and the one OS_alloc clears memory with
          Capacity     \* _capacity of new_queue

ASSUME QueueAssumption == Capacity \in Nat \ {0} /\ Zero \in Words

VARIABLES memory, readPointer, writePointer, maxCapacity, result

ringVars == <<memory, readPointer, writePointer, maxCapacity, result>>

memoryStart == 0
memoryEnd == Capacity
Slots == memoryStart .. memoryEnd

RingTypeOK == /\ memory \in [Slots -> Words]
              /\ readPointer \in Slots
              /\ writePointer \in Slots
              /\ maxCapacity \in 0 .. Capacity
              /\ result \in [ok : BOOLEAN, word : Words]

\* new_queue
RingInit == /\ memory = [i \in Slots |-> Zero]
            /\ readPointer = memoryStart
            /\ writePointer = memoryStart
            /\ maxCapacity = Capacity
            /\ result = [ok |-> TRUE, word |-> Zero]

\* Mutant: a reader at the start of the ring is forgotten.
isFullNoWrap == readPointer # memoryStart /\ writePointer = readPointer - 1

isEmpty == readPointer = writePointer
isFull == IF readPointer = memoryStart THEN writePointer = memoryEnd
                                       ELSE writePointer = readPointer - 1

\* Mutant: the end of the ring is one slot further.
AdvanceTooFar(pointer) == IF pointer = memoryEnd + 1 THEN memoryStart ELSE pointer + 1

Advance(pointer) == IF pointer = memoryEnd THEN memoryStart ELSE pointer + 1

Refused == /\ result' = [result EXCEPT !.ok = FALSE]
           /\ UNCHANGED <<memory, readPointer, writePointer>>

\* OS_queue_write
Write(data) ==
  /\ IF isFull THEN Refused
     ELSE /\ memory' = [memory EXCEPT ![writePointer] = data]
          /\ writePointer' = Advance(writePointer)
          /\ result' = [ok |-> TRUE, word |-> data]
          /\ UNCHANGED readPointer
  /\ UNCHANGED maxCapacity

\* OS_queue_read
Read ==
  /\ IF isEmpty THEN Refused
     ELSE /\ result' = [ok |-> TRUE, word |-> memory[readPointer]]
          /\ readPointer' = Advance(readPointer)
          /\ UNCHANGED <<memory, writePointer>>
  /\ UNCHANGED maxCapacity

\* The queue's part of channel_init: the ring keeps its size and its old words.
Reset(capacity) ==
  /\ readPointer' = memoryStart
  /\ writePointer' = memoryStart
  /\ maxCapacity' = capacity
  /\ UNCHANGED <<memory, result>>

\* Mutant: the words left before the end of the array are counted one too many.
PeekOneOff(n) == LET wordsTillArrayEnd == memoryEnd - readPointer
                 IN  IF n > wordsTillArrayEnd
                     THEN memory[memoryStart + (n - wordsTillArrayEnd)]
                     ELSE memory[readPointer + n]

\* OS_queue_peekAt(queue, n): whether it returns a word, and which one.
PeekOk(n) == ~isEmpty /\ n < maxCapacity
PeekAt(n) == LET wordsTillArrayEnd == memoryEnd - readPointer
             IN  IF n > wordsTillArrayEnd
                 THEN memory[memoryStart + (n - wordsTillArrayEnd - 1)]
                 ELSE memory[readPointer + n]

RingNext == \/ \E data \in Words : Write(data)
            \/ Read
            \/ \E capacity \in 0 .. Capacity : Reset(capacity)

RingSpec == RingInit /\ [][RingNext]_ringVars

-------------------------------------------------------------------------------
\* The words in the ring, oldest first.
Length == IF readPointer <= writePointer THEN writePointer - readPointer
          ELSE writePointer + Capacity + 1 - readPointer
SlotAt(n) == IF readPointer + n <= Capacity THEN readPointer + n
             ELSE readPointer + n - Capacity - 1
contents == [i \in 1 .. Length |-> memory[SlotAt(i - 1)]]

\* The ring implements a bounded FIFO queue: wrap-around, the slot left empty and both
\* refusals included (queue.c:43-84, 114-137; "queue is FIFO", queue.c:65).
Abstract == INSTANCE FIFO
IsFIFO == Abstract!Spec

\* Peeking the n-th word agrees with the n-th read to come, across the end of the ring
\* (queue.c:86-107).
PeekIsFuture == \A n \in 0 .. Length - 1 : PeekAt(n) = contents[n + 1]

\* Comment, which the code does not keep (see the README): peekAt "obtains the value stored
\* at position _n (relative to the read pointer) stored in the queue" (queue.c:86-87): what
\* it returns is in the queue.
PeekIsStored == \A n \in 0 .. Capacity : PeekOk(n) => n < Length
===============================================================================
