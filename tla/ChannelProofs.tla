---------------------------- MODULE ChannelProofs ----------------------------
(***************************************************************************)
(* For every capacity and every set of words: the ring of queue.c keeps    *)
(* its pointers inside the allocated memory and implements a bounded FIFO  *)
(* queue, and peeking agrees with reading. For any finite number of tasks  *)
(* that come, leave and set the channel up again: the tokens of channel.c  *)
(* account for the words and the room, whoever holds a token finds what it *)
(* stands for, and the channel is a bounded FIFO queue.                    *)
(***************************************************************************)
EXTENDS Channel, FiniteSetTheorems, SequenceTheorems, TLAPS

(* The ring. *)

USE QueueAssumption DEF memoryStart, memoryEnd, Slots

\* Positions and length under the type invariant; the ring is never overfull.
LEMMA Positions ==
  ASSUME RingTypeOK
  PROVE  /\ Length \in 0 .. Capacity
         /\ isEmpty <=> Length = 0
         /\ isFull <=> Length = Capacity
         /\ \A n \in 0 .. Capacity : SlotAt(n) \in Slots
         /\ SlotAt(Length) = writePointer
         /\ SlotAt(0) = readPointer
BY DEF RingTypeOK, Length, isEmpty, isFull, SlotAt

\* contents is a sequence of words of that length.
LEMMA ContentsSeq ==
  ASSUME RingTypeOK
  PROVE  contents \in Seq(Words) /\ Len(contents) = Length
<1>1. Length \in Nat /\ \A i \in 1 .. Length : memory[SlotAt(i - 1)] \in Words
  <2>1. Length \in 0 .. Capacity /\ \A n \in 0 .. Capacity : SlotAt(n) \in Slots
    BY Positions
  <2>2. ASSUME NEW i \in 1 .. Length PROVE memory[SlotAt(i - 1)] \in Words
    <3>1. i - 1 \in 0 .. Capacity
      BY <2>1
    <3> QED BY <2>1, <3>1 DEF RingTypeOK
  <2> QED BY <2>1, <2>2
<1>2. contents \in [1 .. Length -> Words]
  BY <1>1 DEF contents
<1>3. contents \in Seq(Words)
  BY <1>1, <1>2, SeqDef
<1>4. Len(contents) \in Nat /\ 1 .. Len(contents) = 1 .. Length
  BY <1>2, <1>3, LenProperties
<1>5. Len(contents) = Length
  BY <1>1, <1>4
<1> QED BY <1>3, <1>5

\* A word stored at the write pointer, and the step of the pointer, append it.
LEMMA MoveAppends ==
  ASSUME RingTypeOK, NEW data \in Words, ~isFull,
         memory' = [memory EXCEPT ![writePointer] = data],
         writePointer' = Advance(writePointer), readPointer' = readPointer
  PROVE  contents' = Append(contents, data)
<1>1. /\ memory' = [memory EXCEPT ![writePointer] = data]
      /\ writePointer' = Advance(writePointer) /\ readPointer' = readPointer
  OBVIOUS
<1>2. Length \in Nat /\ Length' = Length + 1
  BY <1>1 DEF RingTypeOK, Length, Advance, isFull
<1>3. ASSUME NEW i \in 1 .. Length + 1
      PROVE  memory'[SlotAt(i - 1)'] = IF i <= Length THEN memory[SlotAt(i - 1)] ELSE data
  <2>1. SlotAt(i - 1)' = SlotAt(i - 1) /\ SlotAt(i - 1) \in Slots
    BY <1>1, <1>2, Positions DEF SlotAt, RingTypeOK, Length
  <2>2. i <= Length => SlotAt(i - 1) # writePointer
    BY <1>2 DEF SlotAt, RingTypeOK, Length
  <2>3. i = Length + 1 => SlotAt(i - 1) = writePointer
    BY <1>2, Positions
  <2> QED BY <1>1, <1>2, <2>1, <2>2, <2>3 DEF RingTypeOK
<1>4. contents' = [i \in 1 .. Length + 1 |-> memory'[SlotAt(i - 1)']]
  BY <1>2 DEF contents
<1>5. Append(contents, data) = [i \in 1 .. Length + 1 |->
                                  IF i <= Length THEN memory[SlotAt(i - 1)] ELSE data]
  <2>1. Append(contents, data) \in Seq(Words) /\ Len(Append(contents, data)) = Length + 1
    BY ContentsSeq, AppendProperties
  <2>2. \A i \in 1 .. Length + 1 : Append(contents, data)[i]
                                     = IF i <= Length THEN contents[i] ELSE data
    BY ContentsSeq, AppendProperties, <1>2
  <2>3. \A i \in 1 .. Length : contents[i] = memory[SlotAt(i - 1)]
    BY DEF contents
  <2>4. Append(contents, data) = [i \in 1 .. Length + 1 |-> Append(contents, data)[i]]
    BY <2>1, LenProperties
  <2> QED BY <2>2, <2>3, <2>4, <1>2
<1> QED BY <1>3, <1>4, <1>5

\* The step of the read pointer leaves the tail; the word it passes is the head.
LEMMA MoveTakesHead ==
  ASSUME RingTypeOK, ~isEmpty, memory' = memory, writePointer' = writePointer,
         readPointer' = Advance(readPointer)
  PROVE  /\ contents # <<>>
         /\ contents' = Tail(contents)
         /\ Head(contents) = memory[readPointer]
<1>1. /\ memory' = memory /\ writePointer' = writePointer
      /\ readPointer' = Advance(readPointer)
  OBVIOUS
<1>2. Length \in 1 .. Capacity /\ Length' = Length - 1
  BY <1>1 DEF RingTypeOK, Length, Advance, isEmpty
<1>3. contents # <<>> /\ Head(contents) = memory[readPointer]
  <2>1. contents[1] = memory[readPointer]
    BY <1>2, Positions DEF contents
  <2> QED BY <1>2, <2>1, ContentsSeq
<1>4. ASSUME NEW i \in 1 .. Length - 1 PROVE SlotAt(i - 1)' = SlotAt(i)
  BY <1>1, <1>2 DEF SlotAt, RingTypeOK, Advance, Length
<1>5. contents' = [i \in 1 .. Length - 1 |-> memory[SlotAt(i)]]
  BY <1>1, <1>2, <1>4 DEF contents
<1>6. Tail(contents) = [i \in 1 .. Length - 1 |-> memory[SlotAt(i)]]
  <2>1. Tail(contents) \in Seq(Words) /\ Len(Tail(contents)) = Length - 1
    BY <1>2, <1>3, ContentsSeq, HeadTailProperties
  <2>2. \A i \in 1 .. Length - 1 : Tail(contents)[i] = contents[i + 1]
    BY <1>2, <1>3, ContentsSeq, HeadTailProperties
  <2>3. \A i \in 1 .. Length - 1 : contents[i + 1] = memory[SlotAt(i)]
    BY <1>2 DEF contents
  <2> QED BY <2>1, <2>2, <2>3, <1>2, LenProperties
<1> QED BY <1>1, <1>3, <1>5, <1>6

\* The two shapes of a return value.
LEMMA ResultType ==
  ASSUME RingTypeOK
  PROVE  /\ [result EXCEPT !.ok = FALSE] \in [ok : BOOLEAN, word : Words]
         /\ \A w \in Words : [ok |-> TRUE, word |-> w] \in [ok : BOOLEAN, word : Words]
<1>1. ASSUME NEW w \in Words
      PROVE  [ok |-> TRUE, word |-> w] \in [ok : BOOLEAN, word : Words]
  <2> DEFINE yes == TRUE
  <2>1. yes \in BOOLEAN
    OBVIOUS
  <2> HIDE DEF yes
  <2>2. [ok |-> yes, word |-> w] \in [ok : BOOLEAN, word : Words]
    BY <2>1
  <2> QED BY <2>2 DEF yes
<1>2. [result EXCEPT !.ok = FALSE] \in [ok : BOOLEAN, word : Words]
  <2> DEFINE no == FALSE
  <2>1. no \in BOOLEAN
    OBVIOUS
  <2> HIDE DEF no
  <2>2. [result EXCEPT !.ok = no] \in [ok : BOOLEAN, word : Words]
    BY <2>1 DEF RingTypeOK
  <2> QED BY <2>2 DEF no
<1> QED BY <1>1, <1>2

\* Every call keeps the pointers, the memory and the result in their types.
LEMMA TypePreserved == RingTypeOK /\ [RingNext]_ringVars => RingTypeOK'
<1> SUFFICES ASSUME RingTypeOK, [RingNext]_ringVars PROVE RingTypeOK'
  OBVIOUS
<1> USE DEF RingTypeOK
<1>a. /\ Advance(readPointer) \in Slots
      /\ Advance(writePointer) \in Slots
      /\ memory[readPointer] \in Words
  BY DEF Advance
<1>b. /\ [result EXCEPT !.ok = FALSE] \in [ok : BOOLEAN, word : Words]
      /\ \A w \in Words : [ok |-> TRUE, word |-> w] \in [ok : BOOLEAN, word : Words]
  BY ResultType
<1>1. ASSUME NEW data \in Words, Write(data) PROVE RingTypeOK'
  <2>1. CASE isFull
    BY <1>1, <2>1, <1>b DEF Write, Refused
  <2>2. CASE ~isFull
    <3>1. memory' = [memory EXCEPT ![writePointer] = data] /\ memory' \in [Slots -> Words]
      BY <1>1, <2>2 DEF Write
    <3>2. result' \in [ok : BOOLEAN, word : Words]
      BY <1>1, <2>2, <1>b DEF Write
    <3> QED BY <1>1, <2>2, <1>a, <3>1, <3>2 DEF Write
  <2> QED BY <2>1, <2>2
<1>2. CASE Read
  <2>1. CASE isEmpty
    BY <1>2, <2>1, <1>b DEF Read, Refused
  <2>2. CASE ~isEmpty
    <3>1. result' \in [ok : BOOLEAN, word : Words]
      BY <1>2, <2>2, <1>a, <1>b DEF Read
    <3> QED BY <1>2, <2>2, <1>a, <3>1 DEF Read
  <2> QED BY <2>1, <2>2
<1>3. ASSUME NEW capacity \in 0 .. Capacity, Reset(capacity) PROVE RingTypeOK'
  BY <1>3 DEF Reset
<1>4. CASE UNCHANGED ringVars
  BY <1>4 DEF ringVars
<1> QED BY <1>1, <1>2, <1>3, <1>4 DEF RingNext

\* The pointers stay inside the allocated slots, whatever the sequence of calls.
THEOREM PointersInRing == RingSpec => []RingTypeOK
<1>1. RingInit => RingTypeOK
  BY DEF RingInit, RingTypeOK
<1> QED BY <1>1, TypePreserved, PTL DEF RingSpec

\* Peeking the n-th word agrees with the n-th read to come.
THEOREM PeekAgrees == RingSpec => []PeekIsFuture
<1>1. RingTypeOK => PeekIsFuture
  <2> SUFFICES ASSUME RingTypeOK, NEW n \in 0 .. Length - 1 PROVE PeekAt(n) = contents[n + 1]
    BY DEF PeekIsFuture
  <2>1. n \in Nat /\ n + 1 \in 1 .. Length /\ contents[n + 1] = memory[SlotAt(n)]
    BY Positions DEF contents
  <2> QED BY <2>1, Positions DEF PeekAt, SlotAt, RingTypeOK
<1> QED BY <1>1, PointersInRing, PTL

LEMMA StepRefines == RingTypeOK /\ [RingNext]_ringVars => [Abstract!Next]_<<contents, result>>
<1> SUFFICES ASSUME RingTypeOK, [RingNext]_ringVars PROVE [Abstract!Next]_<<contents, result>>
  OBVIOUS
<1>1. ASSUME NEW data \in Words, Write(data) PROVE Abstract!Write(data)
  <2>1. CASE isFull
    <3>1. ~ (Len(contents) < Capacity)
      BY <2>1, ContentsSeq, Positions
    <3>2. UNCHANGED contents /\ result' = [result EXCEPT !.ok = FALSE]
      BY <1>1, <2>1 DEF Write, Refused, contents, Length, SlotAt
    <3> QED BY <3>1, <3>2 DEF Abstract!Write, Abstract!Refused
  <2>2. CASE ~isFull
    <3>1. Len(contents) < Capacity
      BY <2>2, ContentsSeq, Positions
    <3> QED BY <1>1, <2>2, <3>1, MoveAppends DEF Write, Abstract!Write, Abstract!Done
  <2> QED BY <2>1, <2>2
<1>2. ASSUME Read PROVE Abstract!Read
  <2>1. CASE isEmpty
    <3>1. contents = <<>>
      BY <2>1, ContentsSeq, Positions, EmptySeq
    <3>2. UNCHANGED contents /\ result' = [result EXCEPT !.ok = FALSE]
      BY <1>2, <2>1 DEF Read, Refused, contents, Length, SlotAt
    <3> QED BY <3>1, <3>2 DEF Abstract!Read, Abstract!Refused
  <2>2. CASE ~isEmpty
    BY <1>2, <2>2, MoveTakesHead DEF Read, Abstract!Read, Abstract!Done
  <2> QED BY <2>1, <2>2
<1>3. ASSUME NEW capacity \in 0 .. Capacity, Reset(capacity) PROVE Abstract!Reset
  <2>1. Length' = 0
    BY <1>3 DEF Reset, Length
  <2>2. contents' = <<>>
    BY <2>1 DEF contents
  <2> QED BY <1>3, <2>2 DEF Reset, Abstract!Reset
<1>4. CASE UNCHANGED ringVars
  BY <1>4 DEF ringVars, contents, Length, SlotAt
<1> QED BY <1>1, <1>2, <1>3, <1>4 DEF RingNext, Abstract!Next

\* queue.c implements a bounded FIFO queue.
THEOREM RingRefinement == RingSpec => IsFIFO
<1>1. RingInit => Abstract!Init
  BY DEF RingInit, Abstract!Init, contents, Length
<1> QED BY <1>1, StepRefines, PointersInRing, PTL DEF RingSpec, IsFIFO, Abstract!Spec

-------------------------------------------------------------------------------
(* The channel. *)

USE ChannelAssumption

-------------------------------------------------------------------------------
(* The tasks between two points of channel.c, and how their number moves. *)

LEMMA HoldersFinite ==
  ASSUME NEW c, NEW labels
  PROVE  IsFiniteSet(Holders(c, labels)) /\ Between(c, labels) \in Nat
<1>1. Holders(c, labels) \in SUBSET Tasks
  BY DEF Holders
<1> QED BY <1>1, FS_Subset, FS_CardinalityType DEF Between

\* A task counts while it is there.
LEMMA OneIsThere ==
  ASSUME NEW t \in Tasks, NEW c, NEW labels, call[t] = c, pc[t] \in labels
  PROVE  Between(c, labels) >= 1
<1>1. t \in Holders(c, labels)
  BY DEF Holders
<1>2. Between(c, labels) # 0
  BY <1>1, HoldersFinite, FS_EmptySet DEF Between
<1> QED BY <1>2, HoldersFinite

LEMMA NobodyIsThere ==
  ASSUME NEW c, NEW labels, \A t \in Tasks : pc[t] \notin labels
  PROVE  Between(c, labels) = 0
<1>1. Holders(c, labels) = {}
  BY DEF Holders
<1> QED BY <1>1, FS_EmptySet DEF Between

\* A step of one task changes a number by that task's coming or going.
LEMMA Moves ==
  ASSUME TypeOK, NEW t \in Tasks, NEW label, Goto(t, label), NEW c, NEW labels,
         call' = call \/ (pc[t] \notin labels /\ label \notin labels
                          /\ \A u \in Tasks \ {t} : call'[u] = call[u])
  PROVE  Between(c, labels)' =
           IF call[t] # c \/ (pc[t] \in labels <=> label \in labels)
           THEN Between(c, labels)
           ELSE IF label \in labels THEN Between(c, labels) + 1
                                    ELSE Between(c, labels) - 1
<1>1. \A u \in Tasks : pc'[u] = IF u = t THEN label ELSE pc[u]
  BY DEF Goto, TypeOK
<1>2. IsFiniteSet(Holders(c, labels)) /\ Between(c, labels) \in Nat
  BY HoldersFinite
<1>3. CASE call[t] # c \/ (pc[t] \in labels <=> label \in labels)
  <2>1. Holders(c, labels)' = Holders(c, labels)
    BY <1>1, <1>3 DEF Holders
  <2> QED BY <1>3, <2>1 DEF Between
<1>4. CASE call[t] = c /\ pc[t] \notin labels /\ label \in labels
  <2>1. Holders(c, labels)' = Holders(c, labels) \cup {t} /\ t \notin Holders(c, labels)
    BY <1>1, <1>4 DEF Holders
  <2> QED BY <1>2, <1>4, <2>1, FS_AddElement DEF Between
<1>5. CASE call[t] = c /\ pc[t] \in labels /\ label \notin labels
  <2>1. Holders(c, labels)' = Holders(c, labels) \ {t} /\ t \in Holders(c, labels)
    BY <1>1, <1>5 DEF Holders
  <2> QED BY <1>2, <1>5, <2>1, FS_RemoveElement, ZenonT(40) DEF Between
<1> QED BY <1>3, <1>4, <1>5

\* The four numbers of TokensAccounted under a step inside channel.c.
LEMMA InsideMoves ==
  ASSUME TypeOK, NEW t \in Tasks, NEW label \in Labels, Goto(t, label), call' = call
  PROVE  LET change(c, labels) ==
               IF call[t] # c \/ (pc[t] \in labels <=> label \in labels) THEN 0
               ELSE IF label \in labels THEN 1 ELSE 0 - 1
         IN  /\ Between("read", Early)' = Between("read", Early) + change("read", Early)
             /\ Between("write", Early)' = Between("write", Early) + change("write", Early)
             /\ Between("read", {"release"})' =
                  Between("read", {"release"}) + change("read", {"release"})
             /\ Between("write", {"release"})' =
                  Between("write", {"release"}) + change("write", {"release"})
<1>1. /\ Between("read", Early) \in Nat /\ Between("read", {"release"}) \in Nat
      /\ Between("write", Early) \in Nat /\ Between("write", {"release"}) \in Nat
  BY HoldersFinite
<1>2. Early' = Early
  BY DEF Early
<1>3. Between("read", Early)' =
           IF call[t] # "read" \/ (pc[t] \in Early <=> label \in Early)
           THEN Between("read", Early)
           ELSE IF label \in Early THEN Between("read", Early) + 1
                                   ELSE Between("read", Early) - 1
  BY Moves DEF Early
<1>4. Between("write", Early)' =
           IF call[t] # "write" \/ (pc[t] \in Early <=> label \in Early)
           THEN Between("write", Early)
           ELSE IF label \in Early THEN Between("write", Early) + 1
                                   ELSE Between("write", Early) - 1
  BY Moves DEF Early
<1>5. Between("read", {"release"})' =
           IF call[t] # "read" \/ (pc[t] \in {"release"} <=> label \in {"release"})
           THEN Between("read", {"release"})
           ELSE IF label \in {"release"} THEN Between("read", {"release"}) + 1
                                         ELSE Between("read", {"release"}) - 1
  BY Moves
<1>6. Between("write", {"release"})' =
           IF call[t] # "write" \/ (pc[t] \in {"release"} <=> label \in {"release"})
           THEN Between("write", {"release"})
           ELSE IF label \in {"release"} THEN Between("write", {"release"}) + 1
                                         ELSE Between("write", {"release"}) - 1
  BY Moves
<1> QED BY <1>1, <1>3, <1>4, <1>5, <1>6

-------------------------------------------------------------------------------
(* The invariant holds at first, and every action keeps it. *)

LEMMA InitEstablishes == Init => IInv
<1> SUFFICES ASSUME Init PROVE IInv
  OBVIOUS
<1>1. RingTypeOK /\ Length = 0
  BY DEF Init, RingInit, RingTypeOK, Length
<1>2. TypeOK /\ LockHeld /\ InsideConnected /\ Staged
  BY <1>1 DEF Init, RingInit, TypeOK, Labels, LockHeld, Locking, InsideConnected, Staged, At
<1>3. /\ Between("read", Early) = 0 /\ Between("write", {"release"}) = 0
      /\ Between("write", Early) = 0 /\ Between("read", {"release"}) = 0
  BY NobodyIsThere DEF Init, Early
<1>4. TokensAccounted
  BY <1>1, <1>3 DEF Init, RingInit, TokensAccounted
<1> QED BY <1>2, <1>4 DEF IInv

LEMMA OpenStep ==
  ASSUME IInv, NEW t \in Tasks, NEW capacity \in 0 .. Capacity, Open(t, capacity)
  PROVE  IInv'
<1> USE DEF IInv, Open, Reset, taskVars
<1>1. TypeOK'
  BY DEF TypeOK, RingTypeOK
<1>2. \A u \in Tasks : pc[u] = "user"
  BY DEF InsideConnected
<1>3. LockHeld' /\ InsideConnected' /\ Staged'
  BY <1>2 DEF LockHeld, InsideConnected, Staged, At
<1>4. /\ Between("read", Early) = 0 /\ Between("write", {"release"}) = 0
      /\ Between("write", Early) = 0 /\ Between("read", {"release"}) = 0
  BY <1>2, NobodyIsThere DEF Early
<1>5. /\ Between("read", Early)' = 0 /\ Between("write", {"release"})' = 0
      /\ Between("write", Early)' = 0 /\ Between("read", {"release"})' = 0
  BY <1>4 DEF Between, Holders, Early
<1>6. Length' = 0
  BY DEF Length
<1>7. TokensAccounted'
  BY <1>5, <1>6 DEF TokensAccounted
<1> QED BY <1>1, <1>3, <1>7

\* Coming and going touch nothing but the set of those connected.
LEMMA ConnectionStep ==
  ASSUME IInv, NEW t \in Tasks, Join(t) \/ Disconnect(t)
  PROVE  IInv'
<1> USE DEF IInv, Join, Disconnect, ringVars, tokenVars, taskVars
<1>1. TypeOK'
  BY DEF TypeOK, RingTypeOK
<1>2. LockHeld' /\ InsideConnected' /\ Staged'
  BY DEF LockHeld, InsideConnected, Staged, At, RingRefuses, Writes, isFull, isEmpty
<1>3. TokensAccounted'
  BY DEF TokensAccounted, Length, Between, Holders, Early
<1> QED BY <1>1, <1>2, <1>3

LEMMA CallStep ==
  ASSUME IInv, NEW t \in Tasks, Calls(t)
  PROVE  IInv'
<1> USE DEF IInv, Calls, CallWrite, CallRead, ringVars, tokenVars
<1>1. TypeOK'
  BY SMTT(30) DEF TypeOK, RingTypeOK, Goto, Labels
<1>2. LockHeld' /\ InsideConnected'
  BY DEF TypeOK, LockHeld, Locking, InsideConnected, Goto, At
<1>3. Staged'
  BY DEF TypeOK, Staged, Goto, At, RingRefuses, Writes, isFull, isEmpty
<1>4. Goto(t, "token") /\ pc[t] = "user" /\ \A u \in Tasks \ {t} : call'[u] = call[u]
  BY DEF At, TypeOK
<1>5. Between("read", Early)' = Between("read", Early)
  BY <1>4, Moves DEF Early
<1>6. Between("write", Early)' = Between("write", Early)
  BY <1>4, Moves DEF Early
<1>7. Between("read", {"release"})' = Between("read", {"release"})
  BY <1>4, Moves
<1>8. Between("write", {"release"})' = Between("write", {"release"})
  BY <1>4, Moves
<1>9. TokensAccounted'
  BY <1>5, <1>6, <1>7, <1>8 DEF TokensAccounted, Length
<1> QED BY <1>1, <1>2, <1>3, <1>9

LEMMA AcquireStep ==
  ASSUME IInv, NEW t \in Tasks, AcquireToken(t)
  PROVE  IInv'
<1> USE DEF IInv, AcquireToken, ringVars, taskVars
<1>1. TypeOK'
  BY DEF TypeOK, RingTypeOK, Goto, Labels
<1>2. LockHeld' /\ InsideConnected'
  BY DEF TypeOK, LockHeld, Locking, InsideConnected, Goto, At
<1>3. Staged'
  BY DEF TypeOK, Staged, Goto, At, RingRefuses, Writes, isFull, isEmpty
<1>4. TokensAccounted'
  <2>1. Goto(t, "lock") /\ call' = call /\ pc[t] = "token" /\ "lock" \in Labels
    BY DEF At, Labels
  <2>2. /\ Between("read", Early)' = Between("read", Early) + IF Writes(t) THEN 0 ELSE 1
        /\ Between("write", Early)' = Between("write", Early) + IF Writes(t) THEN 1 ELSE 0
        /\ Between("read", {"release"})' = Between("read", {"release"})
        /\ Between("write", {"release"})' = Between("write", {"release"})
    BY <2>1, InsideMoves, HoldersFinite DEF TypeOK, Writes, Early
  <2>3. Length' = Length /\ Length \in Nat
    BY DEF TypeOK, RingTypeOK, Length
  <2>4. writeTokens \in Nat /\ readTokens \in Nat /\ maxCapacity' = maxCapacity
    BY DEF TypeOK, RingTypeOK
  <2>5. CASE Writes(t)
    BY <2>2, <2>3, <2>4, <2>5, HoldersFinite DEF TokensAccounted
  <2>6. CASE ~Writes(t)
    BY <2>2, <2>3, <2>4, <2>6, HoldersFinite DEF TokensAccounted
  <2> QED BY <2>5, <2>6
<1> QED BY <1>1, <1>2, <1>3, <1>4

\* Steps after which the task is still between its token and the ring.
LEMMA EarlyStep ==
  ASSUME IInv, NEW t \in Tasks, NEW label \in Early, pc[t] \in Early, Goto(t, label),
         call' = call, Length' = Length, UNCHANGED <<tokenVars, maxCapacity>>
  PROVE  TokensAccounted'
<1>1. label \in Labels /\ label # "release" /\ pc[t] # "release"
  BY DEF Early, Labels
<1>2. /\ Between("read", Early)' = Between("read", Early)
      /\ Between("write", Early)' = Between("write", Early)
      /\ Between("read", {"release"})' = Between("read", {"release"})
      /\ Between("write", {"release"})' = Between("write", {"release"})
  BY <1>1, InsideMoves, HoldersFinite DEF IInv
<1> QED BY <1>2 DEF IInv, TokensAccounted, tokenVars

LEMMA LockStep ==
  ASSUME IInv, NEW t \in Tasks, Lock(t)
  PROVE  IInv'
<1> USE DEF IInv, Lock, ringVars, tokenVars, taskVars
<1>1. TypeOK'
  BY DEF TypeOK, RingTypeOK, Goto, Labels
<1>2. LockHeld' /\ InsideConnected'
  BY DEF TypeOK, LockHeld, Locking, InsideConnected, Goto, At
<1>3. Staged'
  BY DEF TypeOK, Staged, Goto, At, RingRefuses, Writes, isFull, isEmpty
<1>4. TokensAccounted'
  BY EarlyStep DEF At, Early, Length
<1> QED BY <1>1, <1>2, <1>3, <1>4

\* Whoever holds a token finds what it stands for; the invariant implies it.
LEMMA TokenStandsFor == IInv => TokenKeepsPromise
<1> SUFFICES ASSUME IInv, NEW t \in Tasks
             PROVE  /\ At(t, "copy") => ~RingRefuses(t)
                    /\ At(t, "release") =>
                         IF Writes(t) THEN readTokens < maxCapacity ELSE writeTokens < maxCapacity
  BY DEF TokenKeepsPromise
<1>1. /\ Length \in 0 .. Capacity /\ (isEmpty <=> Length = 0) /\ (isFull <=> Length = Capacity)
      /\ maxCapacity \in 0 .. Capacity /\ writeTokens \in Nat /\ readTokens \in Nat
  BY Positions DEF IInv, TypeOK, RingTypeOK
<1>2. Writes(t) \/ call[t] = "read"
  BY DEF IInv, TypeOK, Writes
<1>3. ASSUME At(t, "copy") PROVE ~RingRefuses(t)
  <2>1. CASE Writes(t)
    <3>1. Between("write", Early) >= 1
      BY <1>3, <2>1, OneIsThere DEF At, Writes, Early
    <3> QED BY <1>1, <2>1, <3>1, HoldersFinite DEF IInv, TokensAccounted, RingRefuses
  <2>2. CASE ~Writes(t)
    <3>1. Between("read", Early) >= 1
      BY <1>2, <1>3, <2>2, OneIsThere DEF At, Early
    <3> QED BY <1>1, <2>2, <3>1, HoldersFinite DEF IInv, TokensAccounted, RingRefuses
  <2> QED BY <2>1, <2>2
<1>4. ASSUME At(t, "release"), Writes(t) PROVE readTokens < maxCapacity
  <2>1. Between("write", {"release"}) >= 1
    BY <1>4, OneIsThere DEF At, Writes
  <2> QED BY <1>1, <2>1, HoldersFinite DEF IInv, TokensAccounted
<1>5. ASSUME At(t, "release"), ~Writes(t) PROVE writeTokens < maxCapacity
  <2>1. Between("read", {"release"}) >= 1
    BY <1>2, <1>5, OneIsThere DEF At
  <2> QED BY <1>1, <2>1, HoldersFinite DEF IInv, TokensAccounted
<1> QED BY <1>3, <1>4, <1>5

LEMMA CopyStep ==
  ASSUME IInv, NEW t \in Tasks, Copy(t)
  PROVE  IInv'
<1> USE DEF Copy, tokenVars
<1>1. ~RingRefuses(t)
  BY TokenStandsFor DEF TokenKeepsPromise
<1>2. Goto(t, "advance") /\ pc[t] = "copy" /\ queueLock = t
  BY <1>1 DEF At, IInv, LockHeld, Locking
<1>3. TypeOK'
  BY <1>1 DEF IInv, TypeOK, RingTypeOK, Goto, Labels
<1>4. LockHeld' /\ InsideConnected'
  BY <1>2 DEF IInv, TypeOK, LockHeld, Locking, InsideConnected, Goto
<1>5. Staged'
  <2> SUFFICES ASSUME NEW u \in Tasks, At(u, "advance")'
               PROVE  /\ ~RingRefuses(u)'
                      /\ (word[u] = memory[IF Writes(u) THEN writePointer ELSE readPointer])'
    BY DEF Staged
  <2>1. u = t
    BY <1>2 DEF IInv, TypeOK, LockHeld, Locking, Goto, At
  <2>2. ~RingRefuses(t)'
    BY <1>1 DEF RingRefuses, Writes, isFull, isEmpty
  <2>3. CASE Writes(t)
    BY <1>1, <2>1, <2>2, <2>3 DEF IInv, TypeOK, RingTypeOK, Writes
  <2>4. CASE ~Writes(t)
    BY <1>1, <2>1, <2>2, <2>4 DEF IInv, TypeOK, RingTypeOK, Writes
  <2> QED BY <2>3, <2>4
<1>6. TokensAccounted'
  BY <1>2, EarlyStep DEF Early, Length
<1> QED BY <1>3, <1>4, <1>5, <1>6 DEF IInv

\* The step of a pointer makes the ring longer or shorter by one word.
LEMMA LengthMoves ==
  ASSUME IInv, NEW t \in Tasks, MovePointer(t)
  PROVE  /\ Length \in Nat
         /\ Length' = IF Writes(t) THEN Length + 1 ELSE Length - 1
<1>1. ~RingRefuses(t) /\ RingTypeOK
  BY DEF MovePointer, IInv, TypeOK, Staged
<1>2. CASE Writes(t)
  BY <1>1, <1>2 DEF MovePointer, RingRefuses, RingTypeOK, Length, Advance, isFull
<1>3. CASE ~Writes(t)
  BY <1>1, <1>3 DEF MovePointer, RingRefuses, RingTypeOK, Length, Advance, isEmpty
<1> QED BY <1>2, <1>3

LEMMA MovePointerStep ==
  ASSUME IInv, NEW t \in Tasks, MovePointer(t)
  PROVE  IInv'
<1> USE DEF MovePointer, tokenVars, taskVars
<1>1. Goto(t, "release") /\ pc[t] = "advance" /\ queueLock = t
  BY DEF At, IInv, LockHeld, Locking
<1>2. TypeOK'
  <2>1. Advance(writePointer) \in Slots /\ Advance(readPointer) \in Slots
    BY DEF IInv, TypeOK, RingTypeOK, Advance
  <2>2. word[t] \in Words /\ RingTypeOK
    BY DEF IInv, TypeOK
  <2>3. result' \in [ok : BOOLEAN, word : Words]
    BY <2>2, ResultType
  <2>4. RingTypeOK'
    BY <2>1, <2>2, <2>3 DEF RingTypeOK
  <2> QED BY <2>4 DEF IInv, TypeOK, Goto, Labels
<1>3. LockHeld' /\ InsideConnected'
  BY <1>1 DEF IInv, TypeOK, LockHeld, Locking, InsideConnected, Goto
<1>4. Staged'
  <2>1. \A u \in Tasks : ~At(u, "advance")'
    BY <1>1 DEF IInv, TypeOK, LockHeld, Locking, Goto, At
  <2> QED BY <2>1 DEF Staged
<1>5. TokensAccounted'
  <2>1. call' = call /\ "release" \in Labels
    BY DEF Labels
  <2>2. /\ Between("read", Early)' = Between("read", Early) - IF Writes(t) THEN 0 ELSE 1
        /\ Between("write", Early)' = Between("write", Early) - IF Writes(t) THEN 1 ELSE 0
        /\ Between("read", {"release"})' =
             Between("read", {"release"}) + IF Writes(t) THEN 0 ELSE 1
        /\ Between("write", {"release"})' =
             Between("write", {"release"}) + IF Writes(t) THEN 1 ELSE 0
    BY <1>1, <2>1, InsideMoves, HoldersFinite DEF IInv, TypeOK, Writes, Early
  <2>3. writeTokens \in Nat /\ readTokens \in Nat /\ maxCapacity \in Nat
    BY DEF IInv, TypeOK, RingTypeOK
  <2>4. CASE Writes(t)
    BY <2>2, <2>3, <2>4, LengthMoves, HoldersFinite DEF IInv, TokensAccounted
  <2>5. CASE ~Writes(t)
    BY <2>2, <2>3, <2>5, LengthMoves, HoldersFinite DEF IInv, TokensAccounted
  <2> QED BY <2>4, <2>5
<1> QED BY <1>2, <1>3, <1>4, <1>5 DEF IInv

LEMMA ReleaseStep ==
  ASSUME IInv, NEW t \in Tasks, ReleaseToken(t)
  PROVE  IInv'
<1> USE DEF IInv, ReleaseToken, ringVars, taskVars
<1>1. TypeOK'
  BY DEF TypeOK, RingTypeOK, Goto, Labels
<1>2. LockHeld' /\ InsideConnected'
  BY DEF TypeOK, LockHeld, Locking, InsideConnected, Goto, At
<1>3. Staged'
  BY DEF TypeOK, Staged, Goto, At, RingRefuses, Writes, isFull, isEmpty
<1>4. TokensAccounted'
  <2>1. Goto(t, "unlock") /\ call' = call /\ pc[t] = "release" /\ "unlock" \in Labels
    BY DEF At, Labels
  <2>2. /\ Between("read", Early)' = Between("read", Early)
        /\ Between("write", Early)' = Between("write", Early)
        /\ Between("read", {"release"})' =
             Between("read", {"release"}) - IF Writes(t) THEN 0 ELSE 1
        /\ Between("write", {"release"})' =
             Between("write", {"release"}) - IF Writes(t) THEN 1 ELSE 0
    BY <2>1, InsideMoves, HoldersFinite DEF TypeOK, Writes, Early
  <2>3. /\ writeTokens \in Nat /\ readTokens \in Nat /\ maxCapacity' = maxCapacity
        /\ Length' = Length /\ Length \in Nat
    BY DEF TypeOK, RingTypeOK, Length
  <2>4. CASE Writes(t)
    BY <2>2, <2>3, <2>4, HoldersFinite DEF TokensAccounted
  <2>5. CASE ~Writes(t)
    BY <2>2, <2>3, <2>5, HoldersFinite DEF TokensAccounted
  <2> QED BY <2>4, <2>5
<1> QED BY <1>1, <1>2, <1>3, <1>4

LEMMA UnlockStep ==
  ASSUME IInv, NEW t \in Tasks, Unlock(t)
  PROVE  IInv'
<1> USE DEF IInv, Unlock, ringVars, tokenVars, taskVars
<1>1. TypeOK'
  BY DEF TypeOK, RingTypeOK, Goto, Labels
<1>2. LockHeld' /\ InsideConnected'
  BY DEF TypeOK, LockHeld, Locking, InsideConnected, Goto, At
<1>3. Staged'
  BY DEF TypeOK, Staged, Goto, At, RingRefuses, Writes, isFull, isEmpty
<1>4. TokensAccounted'
  <2>1. Goto(t, "user") /\ call' = call /\ pc[t] = "unlock" /\ "user" \in Labels
    BY DEF At, Labels
  <2>2. /\ Between("read", Early)' = Between("read", Early)
        /\ Between("write", Early)' = Between("write", Early)
        /\ Between("read", {"release"})' = Between("read", {"release"})
        /\ Between("write", {"release"})' = Between("write", {"release"})
    BY <2>1, InsideMoves, HoldersFinite DEF Early
  <2> QED BY <2>2 DEF TokensAccounted, Length
<1> QED BY <1>1, <1>2, <1>3, <1>4

LEMMA Inductive == IInv /\ [Next]_vars => IInv'
<1> SUFFICES ASSUME IInv, [Next]_vars PROVE IInv'
  OBVIOUS
<1>1. CASE UNCHANGED vars
  BY <1>1 DEF IInv, vars, ringVars, tokenVars, taskVars, TypeOK, RingTypeOK, LockHeld, Locking,
        InsideConnected, Staged, At, RingRefuses, Writes, isFull, isEmpty, TokensAccounted,
        Length, Between, Holders, Early
<1>2. ASSUME NEW t \in Tasks, Comes(t) \/ Disconnect(t) \/ Calls(t) \/ Works(t)
      PROVE  IInv'
  <2>1. CASE Comes(t)
    BY <2>1, OpenStep, ConnectionStep DEF Comes
  <2>2. CASE Disconnect(t)
    BY <2>2, ConnectionStep
  <2>3. CASE Calls(t)
    BY <2>3, CallStep
  <2>4. CASE Works(t)
    BY <2>4, AcquireStep, LockStep, CopyStep, MovePointerStep, ReleaseStep, UnlockStep
       DEF Works
  <2> QED BY <1>2, <2>1, <2>2, <2>3, <2>4
<1> QED BY <1>1, <1>2 DEF Next

-------------------------------------------------------------------------------
\* The inductive invariant of channel.c.
THEOREM ChannelInvariance == Spec => []IInv
BY InitEstablishes, Inductive, PTL DEF Spec

\* Every token is in a semaphore or with a task, also when the channel is set up again for
\* other users (channel.c:12-19, 65-93).
THEOREM Accounted == Spec => []TokensAccounted
<1>1. IInv => TokensAccounted
  BY DEF IInv
<1> QED BY <1>1, ChannelInvariance, PTL

\* Whoever has a token finds a word or room, and never blocks giving the other one back
\* with the lock held (channel.c:68, 74, 82, 89).
THEOREM TokensKept == Spec => []TokenKeepsPromise
BY TokenStandsFor, ChannelInvariance, PTL

-------------------------------------------------------------------------------
(* The refinement of FIFO: words go in and out when a pointer moves. *)

\* The slot at the write pointer is free: what is copied there is not yet in the queue.
LEMMA CopyHides ==
  ASSUME IInv, NEW t \in Tasks, Copy(t)
  PROVE  UNCHANGED <<contents, result>>
<1>1. /\ UNCHANGED <<readPointer, writePointer, result>> /\ Length' = Length
      /\ memory' = memory \/ memory' = [memory EXCEPT ![writePointer] = word[t]]
  BY DEF Copy, Length
<1>2. RingTypeOK
  BY DEF IInv, TypeOK
<1>3. ASSUME NEW i \in 1 .. Length PROVE memory'[SlotAt(i - 1)'] = memory[SlotAt(i - 1)]
  <2>1. SlotAt(i - 1)' = SlotAt(i - 1)
    BY <1>1 DEF SlotAt
  <2>2. SlotAt(i - 1) \in Slots /\ SlotAt(i - 1) # writePointer
    BY <1>2 DEF SlotAt, RingTypeOK, Length
  <2> QED BY <1>1, <1>2, <2>1, <2>2 DEF RingTypeOK
<1>4. contents' = [i \in 1 .. Length |-> memory'[SlotAt(i - 1)']]
  BY <1>1 DEF contents
<1> QED BY <1>1, <1>3, <1>4 DEF contents

LEMMA MovePointerRefines ==
  ASSUME IInv, NEW t \in Tasks, MovePointer(t)
  PROVE  Abstract!Next
<1>1. /\ RingTypeOK /\ ~RingRefuses(t) /\ word[t] \in Words
      /\ word[t] = memory[IF Writes(t) THEN writePointer ELSE readPointer]
      /\ memory' = memory /\ result' = [ok |-> TRUE, word |-> word[t]]
  BY DEF MovePointer, IInv, TypeOK, Staged, ringVars
<1>2. CASE Writes(t)
  <2>1. memory' = [memory EXCEPT ![writePointer] = word[t]]
    BY <1>1, <1>2 DEF RingTypeOK
  <2>2. ~isFull /\ writePointer' = Advance(writePointer) /\ readPointer' = readPointer
    BY <1>1, <1>2 DEF MovePointer, RingRefuses
  <2>3. contents' = Append(contents, word[t])
    BY <1>1, <2>1, <2>2, MoveAppends
  <2>4. Len(contents) < Capacity
    BY <1>1, <2>2, ContentsSeq, Positions
  <2>5. Abstract!Write(word[t])
    BY <1>1, <2>3, <2>4 DEF Abstract!Write, Abstract!Done
  <2> QED BY <1>1, <2>5 DEF Abstract!Next
<1>3. CASE ~Writes(t)
  <2>1. ~isEmpty /\ writePointer' = writePointer /\ readPointer' = Advance(readPointer)
    BY <1>1, <1>3 DEF MovePointer, RingRefuses
  <2>2. contents # <<>> /\ contents' = Tail(contents) /\ Head(contents) = memory[readPointer]
    BY <1>1, <2>1, MoveTakesHead
  <2>3. Abstract!Read
    BY <1>1, <1>3, <2>2 DEF Abstract!Read, Abstract!Done
  <2> QED BY <2>3 DEF Abstract!Next
<1> QED BY <1>2, <1>3

LEMMA ChannelStepRefines ==
  IInv /\ [Next]_vars => [Abstract!Next]_<<contents, result>>
<1> SUFFICES ASSUME IInv, [Next]_vars PROVE [Abstract!Next]_<<contents, result>>
  OBVIOUS
<1>1. CASE UNCHANGED ringVars
  BY <1>1 DEF ringVars, contents, Length, SlotAt
<1>2. ASSUME NEW t \in Tasks, NEW capacity \in 0 .. Capacity, Open(t, capacity)
      PROVE  Abstract!Next
  <2>1. Length' = 0
    BY <1>2 DEF Open, Reset, Length
  <2>2. contents' = <<>>
    BY <2>1 DEF contents
  <2> QED BY <1>2, <2>2 DEF Open, Reset, Abstract!Reset, Abstract!Next
<1>3. ASSUME NEW t \in Tasks, Comes(t) \/ Disconnect(t) \/ Calls(t) \/ Works(t)
      PROVE  [Abstract!Next]_<<contents, result>>
  <2>1. CASE \E capacity \in 0 .. Capacity : Open(t, capacity)
    BY <1>2, <2>1
  <2>2. CASE Copy(t)
    BY <2>2, CopyHides
  <2>3. CASE MovePointer(t)
    BY <2>3, MovePointerRefines
  <2>4. CASE Join(t) \/ Disconnect(t) \/ Calls(t) \/ AcquireToken(t) \/ Lock(t)
             \/ ReleaseToken(t) \/ Unlock(t)
    <3>1. UNCHANGED ringVars
      BY <2>4 DEF Join, Disconnect, Calls, CallWrite, CallRead, AcquireToken, Lock,
                  ReleaseToken, Unlock
    <3> QED BY <1>1, <3>1
  <2> QED BY <1>3, <2>1, <2>2, <2>3, <2>4 DEF Comes, Works
<1>4. CASE UNCHANGED vars
  BY <1>1, <1>4 DEF vars
<1> QED BY <1>3, <1>4 DEF Next

\* Words leave the channel in the order they went in, none twice and none lost, for any
\* interleaving of readers and writers (channel.c:65-93): the channel is a FIFO queue.
THEOREM ChannelRefinement == Spec => IsFIFO
<1>1. Init => Abstract!Init
  BY DEF Init, RingInit, Abstract!Init, contents, Length
<1> QED BY <1>1, ChannelStepRefines, ChannelInvariance, PTL DEF Spec, IsFIFO, Abstract!Spec
===============================================================================
