------------------------------ MODULE Semaphore ------------------------------
(***************************************************************************)
(* The counting semaphore of DataStructures/semaphore.c over the kernel's  *)
(* wait and notify. A task calls acquire_token or release_token whenever   *)
(* it likes; both sides block, acquire on an empty and release on a full   *)
(* semaphore, and both wait for the same reason.                           *)
(***************************************************************************)
EXTENDS Kernel, Naturals

CONSTANTS semaphore, \* the one OS_semaphore_t, also the reason its users wait for
          Initial, MaxTokens

ASSUME SemaphoreAssumption == /\ Reasons = {semaphore}
                              /\ MaxTokens \in Nat \ {0}
                              /\ Initial \in 0 .. MaxTokens

VARIABLES availableTokens,
          pc,   \* where each task is in semaphore.c
          call, \* the function it is in
          seen  \* its local copy of the tokens, read by LDREX

taskVars == <<pc, call, seen>>
vars == <<kernelVars, availableTokens, taskVars>>

Labels == {"user", "check", "load", "store", "wait", "notify"}
Calls == {"acquire", "release"}

TypeOK == /\ KernelTypeOK
          /\ availableTokens \in 0 .. MaxTokens
          /\ pc \in [Tasks -> Labels]
          /\ call \in [Tasks -> Calls]
          /\ seen \in [Tasks -> 0 .. MaxTokens]

Init == /\ KernelInit
        /\ availableTokens = Initial
        /\ pc = [t \in Tasks |-> "user"]
        /\ call \in [Tasks -> Calls]
        /\ seen = [t \in Tasks |-> 0]

At(t, label) == Executing(t) /\ pc[t] = label
Goto(t, label) == pc' = [pc EXCEPT ![t] = label]

\* A token can be taken, respectively placed, when n are available.
Possible(c, n) == IF c = "acquire" THEN n > 0 ELSE n < MaxTokens
Apply(c, n) == IF c = "acquire" THEN n - 1 ELSE n + 1

-------------------------------------------------------------------------------
Call(t) ==
  /\ At(t, "user") /\ Goto(t, "check")
  /\ \E c \in Calls : call' = [call EXCEPT ![t] = c]
  /\ UNCHANGED <<kernelVars, availableTokens, seen>>

Check(t) ==
  /\ At(t, "check") /\ Goto(t, "load")
  /\ ReadCheckCode(t)
  /\ UNCHANGED <<current, exclusive, waitingFor, availableTokens, call, seen>>

\* LDREX, and the test for a token or for room.
Load(t) ==
  /\ At(t, "load") /\ LoadExclusive
  /\ IF Possible(call[t], availableTokens) THEN Goto(t, "store") ELSE Goto(t, "wait")
  /\ seen' = [seen EXCEPT ![t] = availableTokens]
  /\ UNCHANGED <<current, fresh, waitingFor, availableTokens, call>>

\* Mutant: whoever moves a token tells nobody.
StoreSilently(t) ==
  /\ At(t, "store") /\ StoreExclusive /\ Goto(t, "user")
  /\ availableTokens' = Apply(call[t], seen[t])
  /\ UNCHANGED <<current, fresh, waitingFor, call, seen>>

\* STREX of the changed local copy.
Store(t) ==
  /\ At(t, "store") /\ StoreExclusive /\ Goto(t, "notify")
  /\ availableTokens' = Apply(call[t], seen[t])
  /\ UNCHANGED <<current, fresh, waitingFor, call, seen>>

StoreRetry(t) ==
  /\ At(t, "store") /\ StoreExclusiveFails /\ Goto(t, "check")
  /\ UNCHANGED <<current, fresh, waitingFor, availableTokens, call, seen>>

Wait(t) ==
  /\ At(t, "wait") /\ Goto(t, "check")
  /\ WaitCallback(t, semaphore)
  /\ UNCHANGED <<current, exclusive, fresh, availableTokens, call, seen>>

\* OS_notify after the token was taken or placed, and return. No mutex is involved, so
\* the callback's search of the acquired mutexes finds nothing.
Notify(t) ==
  /\ At(t, "notify") /\ Goto(t, "user")
  /\ NotifyCallback(semaphore)
  /\ UNCHANGED <<current, availableTokens, call, seen>>

PendSV == Schedule /\ UNCHANGED <<availableTokens, taskVars>>

Works(t) == Check(t) \/ Load(t) \/ Store(t) \/ StoreRetry(t) \/ Wait(t) \/ Notify(t)

Next == PendSV \/ \E t \in Tasks : Call(t) \/ Works(t)

Spec == Init /\ [][Next]_vars

\* The scheduler reaches every runnable task, and a dispatch is long enough for progress
\* and, again and again, for an LDREX/STREX pair. Nobody is obliged to call anything.
Fairness == \A t \in Tasks : /\ WF_vars(PendSV /\ current' = t)
                             /\ SF_vars(Works(t))
                             /\ SF_vars(Store(t))

FairSpec == Spec /\ Fairness

-------------------------------------------------------------------------------
\* No lost wakeup: whoever is parked could not be served now, or a notify that wakes
\* everybody is on its way (semaphore.c:40-57, 67-84).
NoLostWakeup ==
  \A t \in Tasks : waitingFor[t] # NULL =>
    \/ ~Possible(call[t], availableTokens)
    \/ \E u \in Tasks : pc[u] = "notify"

\* Takers and placers never block each other: with at least one token of capacity they are
\* not all parked, unless they all want the same and it is impossible.
NoStandoff ==
  (\A t \in Tasks : waitingFor[t] # NULL) =>
    \A t, u \in Tasks : call[t] = call[u] /\ ~Possible(call[t], availableTokens)

\* Exactly one token moves per call, in one atomic moment between call and return.
phase == [t \in Tasks |-> CASE pc[t] = "user" -> "idle"
                            [] pc[t] = "notify" -> "served"
                            [] OTHER -> IF call[t] = "acquire" THEN "acquiring" ELSE "releasing"]
Abstract == INSTANCE CountingSemaphore WITH tokens <- availableTokens
IsCountingSemaphore == Abstract!Spec

\* A call that could be served is served, unless the tokens it needs go to others: no
\* wait lasts while there is something to take or room to place (semaphore.c:36, 61).
Wanting(t, c) == call[t] = c /\ pc[t] \notin {"user", "notify"}
ServedOrDrained ==
  \A t \in Tasks : \A c \in Calls :
    Wanting(t, c) /\ Possible(c, availableTokens)
      ~> ~Wanting(t, c) \/ ~Possible(c, availableTokens)

\* The inductive invariant; SemaphoreProofs proves it. What an LDREX saw is still true
\* while the monitor is set, so the STREX applies the call to the current tokens.
MonitorGuards == \A t \in Tasks : current = t /\ exclusive /\ pc[t] = "store" =>
                   seen[t] = availableTokens
SeenPossible == \A t \in Tasks : pc[t] = "store" => Possible(call[t], seen[t])
NotifyPending == \E u \in Tasks : pc[u] = "notify"
WaitJustified == \A t \in Tasks : pc[t] = "wait" /\ t \in fresh =>
                   ~Possible(call[t], availableTokens) \/ NotifyPending
ParkedInCheck == \A t \in Tasks : waitingFor[t] # NULL => pc[t] = "check"
IInv == /\ TypeOK /\ MonitorGuards /\ SeenPossible
        /\ WaitJustified /\ ParkedInCheck /\ NoLostWakeup
===============================================================================
