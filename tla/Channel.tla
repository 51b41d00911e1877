------------------------------- MODULE Channel -------------------------------
(***************************************************************************)
(* A channel of DataStructures/channel.c: a ring of words, a lock around   *)
(* it, and two semaphores that count the words to read and the room to     *)
(* write. Tasks connect to it, read and write as they like, and leave; the *)
(* first to come has it set up (channel_init), as ChannelManager shows.    *)
(*                                                                         *)
(* Semaphore shows that acquiring and releasing a token are single moments *)
(* that block while they are impossible, Mutex that the lock excludes; the *)
(* ring's own functions are taken apart into their accesses to the memory  *)
(* and the pointers, which the lock has to keep together. The ring is the  *)
(* one of RingQueue, made for Capacity = MAX_ALLOWED_CHANNEL_CAPACITY      *)
(* words; maxCapacity is what the tasks asked for.                         *)
(***************************************************************************)
EXTENDS RingQueue, FiniteSets

CONSTANTS Tasks, NULL

ASSUME ChannelAssumption == NULL \notin Tasks /\ IsFiniteSet(Tasks)

VARIABLES writeTokens, readTokens, \* available tokens of the two semaphores
          queueLock,               \* the task that holds it, or NULL
          connected,               \* the tasks that use the channel
          pc, call, \* where each task is in channel.c, and in which function
          word      \* the word it writes, or has read

tokenVars == <<writeTokens, readTokens>>
taskVars == <<call, word>>
vars == <<ringVars, tokenVars, queueLock, connected, pc, taskVars>>

Labels == {"user", "token", "lock", "copy", "advance", "release", "unlock"}

TypeOK == /\ RingTypeOK
          /\ writeTokens \in 0 .. maxCapacity /\ readTokens \in 0 .. maxCapacity
          /\ queueLock \in Tasks \cup {NULL}
          /\ connected \subseteq Tasks
          /\ pc \in [Tasks -> Labels]
          /\ call \in [Tasks -> {"write", "read"}]
          /\ word \in [Tasks -> Words]

\* new_channel, for the channel manager.
Init == /\ RingInit
        /\ writeTokens = Capacity /\ readTokens = 0
        /\ queueLock = NULL
        /\ connected = {}
        /\ pc = [t \in Tasks |-> "user"]
        /\ call = [t \in Tasks |-> "write"]
        /\ word = [t \in Tasks |-> Zero]

At(t, label) == pc[t] = label
Goto(t, label) == pc' = [pc EXCEPT ![t] = label]
Writes(t) == call[t] = "write"

-------------------------------------------------------------------------------
\* Mutant: the words left over can still be read.
OpenKeepsReadTokens(t, capacity) ==
  /\ connected = {} /\ connected' = {t}
  /\ Reset(capacity)
  /\ writeTokens' = capacity /\ UNCHANGED readTokens
  /\ UNCHANGED <<queueLock, pc, taskVars>>

\* channel_init, when the first task connects. The lock and the words stay as they are.
Open(t, capacity) ==
  /\ connected = {} /\ connected' = {t}
  /\ Reset(capacity)
  /\ readTokens' = 0 /\ writeTokens' = capacity
  /\ UNCHANGED <<queueLock, pc, taskVars>>

Join(t) ==
  /\ connected # {} /\ t \notin connected /\ connected' = connected \cup {t}
  /\ UNCHANGED <<ringVars, tokenVars, queueLock, pc, taskVars>>

\* A task that leaves is outside of channel_read and channel_write.
Disconnect(t) ==
  /\ At(t, "user") /\ t \in connected /\ connected' = connected \ {t}
  /\ UNCHANGED <<ringVars, tokenVars, queueLock, pc, taskVars>>

CallWrite(t) ==
  /\ At(t, "user") /\ t \in connected /\ Goto(t, "token")
  /\ call' = [call EXCEPT ![t] = "write"]
  /\ \E w \in Words : word' = [word EXCEPT ![t] = w]
  /\ UNCHANGED <<ringVars, tokenVars, queueLock, connected>>

CallRead(t) ==
  /\ At(t, "user") /\ t \in connected /\ Goto(t, "token")
  /\ call' = [call EXCEPT ![t] = "read"]
  /\ word' = [word EXCEPT ![t] = Zero]
  /\ UNCHANGED <<ringVars, tokenVars, queueLock, connected>>

\* Mutant: a task goes on although there is no token.
AcquireAlways(t) ==
  /\ At(t, "token") /\ Goto(t, "lock")
  /\ IF Writes(t) THEN writeTokens' = writeTokens - 1 /\ UNCHANGED readTokens
                  ELSE readTokens' = readTokens - 1 /\ UNCHANGED writeTokens
  /\ UNCHANGED <<ringVars, queueLock, connected, taskVars>>

\* OS_semaphore_acquire_token: room to write, or a word to read.
AcquireToken(t) ==
  /\ At(t, "token") /\ Goto(t, "lock")
  /\ IF Writes(t)
     THEN writeTokens > 0 /\ writeTokens' = writeTokens - 1 /\ UNCHANGED readTokens
     ELSE readTokens > 0 /\ readTokens' = readTokens - 1 /\ UNCHANGED writeTokens
  /\ UNCHANGED <<ringVars, queueLock, connected, taskVars>>

\* Mutant: the queue is not locked.
LockNothing(t) == At(t, "lock") /\ Goto(t, "copy")
                  /\ UNCHANGED <<ringVars, tokenVars, queueLock, connected, taskVars>>

Lock(t) ==
  /\ At(t, "lock") /\ Goto(t, "copy")
  /\ queueLock = NULL /\ queueLock' = t
  /\ UNCHANGED <<ringVars, tokenVars, connected, taskVars>>

\* The ring refuses a word when it is full and gives none when it is empty; channel.c does
\* not look at the answer.
RingRefuses(t) == IF Writes(t) THEN isFull ELSE isEmpty

\* OS_queue_write and OS_queue_read, the access to the memory.
Copy(t) ==
  /\ At(t, "copy")
  /\ IF RingRefuses(t)
     THEN Goto(t, "release") /\ UNCHANGED <<memory, word>>
     ELSE /\ Goto(t, "advance")
          /\ IF Writes(t)
             THEN memory' = [memory EXCEPT ![writePointer] = word[t]] /\ UNCHANGED word
             ELSE word' = [word EXCEPT ![t] = memory[readPointer]] /\ UNCHANGED memory
  /\ UNCHANGED <<readPointer, writePointer, maxCapacity, result, tokenVars, queueLock,
                 connected, call>>

\* OS_queue_write and OS_queue_read, the step of the pointer.
MovePointer(t) ==
  /\ At(t, "advance") /\ Goto(t, "release")
  /\ IF Writes(t)
     THEN writePointer' = Advance(writePointer) /\ UNCHANGED readPointer
     ELSE readPointer' = Advance(readPointer) /\ UNCHANGED writePointer
  /\ result' = [ok |-> TRUE, word |-> word[t]]
  /\ UNCHANGED <<memory, maxCapacity, tokenVars, queueLock, connected, taskVars>>

\* Mutant: reading frees no room.
ReleaseReadTokenOnly(t) ==
  /\ At(t, "release") /\ Goto(t, "unlock")
  /\ readTokens' = IF Writes(t) THEN readTokens + 1 ELSE readTokens
  /\ UNCHANGED <<ringVars, writeTokens, queueLock, connected, taskVars>>

\* OS_semaphore_release_token of the other semaphore, with the lock held. It blocks while
\* that one has its maximum.
ReleaseToken(t) ==
  /\ At(t, "release") /\ Goto(t, "unlock")
  /\ IF Writes(t)
     THEN readTokens < maxCapacity /\ readTokens' = readTokens + 1 /\ UNCHANGED writeTokens
     ELSE writeTokens < maxCapacity /\ writeTokens' = writeTokens + 1 /\ UNCHANGED readTokens
  /\ UNCHANGED <<ringVars, queueLock, connected, taskVars>>

Unlock(t) ==
  /\ At(t, "unlock") /\ Goto(t, "user")
  /\ queueLock' = NULL
  /\ UNCHANGED <<ringVars, tokenVars, connected, taskVars>>

Comes(t) == (\E capacity \in 0 .. Capacity : Open(t, capacity)) \/ Join(t)
Calls(t) == CallWrite(t) \/ CallRead(t)
Works(t) == \/ AcquireToken(t) \/ Lock(t) \/ Copy(t) \/ MovePointer(t)
            \/ ReleaseToken(t) \/ Unlock(t)

Next == \E t \in Tasks : Comes(t) \/ Disconnect(t) \/ Calls(t) \/ Works(t)

Spec == Init /\ [][Next]_vars

\* Some task that can go on in channel.c does: the semaphores serve somebody as long as
\* they can (Semaphore), and somebody gets a free lock (Mutex).
FairSpec == Spec /\ WF_vars(\E t \in Tasks : Works(t))

-------------------------------------------------------------------------------
\* Words come out of the channel in the order they went in, none twice and none lost, from
\* one channel_init to the next (channel.c:65-93): RingQueue's IsFIFO, with tasks that
\* interleave. TokensAccounted bounds their number by the capacity asked for.

\* A token promises what it stands for, in spite of the tasks that are between their token
\* and the ring: whoever holds one finds room or a word (channel.c:68, 82), and giving the
\* other one back never blocks with the lock held (channel.c:74, 89), where nobody could
\* take a token out to let the task go on.
TokenKeepsPromise ==
  \A t \in Tasks :
    /\ At(t, "copy") => ~RingRefuses(t)
    /\ At(t, "release") =>
         IF Writes(t) THEN readTokens < maxCapacity ELSE writeTokens < maxCapacity

\* While somebody wants to read and somebody wants to write, one of them gets on: the two
\* semaphores and the lock never leave both sides waiting for each other (channel.c:67-93).
\* Nobody gets on in a channel of capacity 0, which connect does not refuse.
Inside(t, c) == call[t] = c /\ pc[t] # "user"
BothSidesMove ==
  (maxCapacity > 0 /\ \E t, u \in Tasks : Inside(t, "write") /\ Inside(u, "read"))
    ~> \E t \in Tasks : At(t, "unlock")

\* The bookkeeping behind these properties (channel.c:12-19, 69-74, 83-89): every token is in
\* a semaphore or with a task, the words in the ring are those that can be read or are about
\* to be, and with the free slots they make up the capacity asked for, also when the channel
\* is set up again for other users.
Holders(c, labels) == {t \in Tasks : call[t] = c /\ pc[t] \in labels}
Between(c, labels) == Cardinality(Holders(c, labels))
Early == {"lock", "copy", "advance"}
TokensAccounted ==
  /\ Length = readTokens + Between("read", Early) + Between("write", {"release"})
  /\ maxCapacity = Length + writeTokens + Between("write", Early) + Between("read", {"release"})

\* The inductive invariant; ChannelProofs proves it. Only the holder of the lock is at the
\* ring, only tasks that are connected are in channel.c, and between the copy and the step
\* of the pointer the word is in both places.
Locking == {"copy", "advance", "release", "unlock"}
LockHeld == \A t \in Tasks : pc[t] \in Locking <=> queueLock = t
InsideConnected == \A t \in Tasks : pc[t] # "user" => t \in connected
Staged == \A t \in Tasks : At(t, "advance") =>
            /\ ~RingRefuses(t)
            /\ word[t] = memory[IF Writes(t) THEN writePointer ELSE readPointer]

IInv == TypeOK /\ LockHeld /\ InsideConnected /\ Staged /\ TokensAccounted
===============================================================================
