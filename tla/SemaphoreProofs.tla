--------------------------- MODULE SemaphoreProofs ---------------------------
(***************************************************************************)
(* For any number of tasks and any maximum of tokens: the semaphore keeps  *)
(* its tokens in range, loses no wakeup, lets takers and placers never     *)
(* block each other, and implements the abstract CountingSemaphore.        *)
(***************************************************************************)
EXTENDS Semaphore, TLAPS

LEMMA InitEstablishes == Init => IInv
<1> USE KernelAssumption, SemaphoreAssumption DEF Init, KernelInit
<1> SUFFICES ASSUME Init PROVE IInv
  OBVIOUS
<1>1. TypeOK
  <2>1. 0 \in 0 .. MaxTokens /\ Initial \in 0 .. MaxTokens
    OBVIOUS
  <2>2. KernelTypeOK
    BY DEF KernelTypeOK
  <2> QED BY <2>1, <2>2 DEF TypeOK, Labels
<1>2. MonitorGuards /\ SeenPossible /\ WaitJustified /\ ParkedInCheck /\ NoLostWakeup
  BY DEF MonitorGuards, SeenPossible, WaitJustified, ParkedInCheck, NoLostWakeup
<1> QED BY <1>1, <1>2 DEF IInv

LEMMA CallStep ==
  ASSUME IInv, NEW t \in Tasks, Call(t)
  PROVE  IInv'
<1> USE KernelAssumption, SemaphoreAssumption
    DEF IInv, TypeOK, KernelTypeOK, Labels, Calls, Possible, kernelVars, Call,
        At, Goto, Executing, Runnable
<1>1. TypeOK'
  BY DEF MonitorGuards, SeenPossible, Apply
<1>2. MonitorGuards' /\ SeenPossible'
  BY DEF MonitorGuards, SeenPossible
<1>3. WaitJustified'
  BY DEF WaitJustified, NotifyPending
<1>4. ParkedInCheck'
  BY DEF ParkedInCheck
<1>5. NoLostWakeup'
  BY DEF NoLostWakeup, WaitJustified, NotifyPending, ParkedInCheck
<1> QED BY <1>1, <1>2, <1>3, <1>4, <1>5

LEMMA CheckStep ==
  ASSUME IInv, NEW t \in Tasks, Check(t)
  PROVE  IInv'
<1> USE KernelAssumption, SemaphoreAssumption
    DEF IInv, TypeOK, KernelTypeOK, Labels, Calls, Possible, kernelVars, Check,
        At, Goto, Executing, Runnable, ReadCheckCode
<1>1. TypeOK'
  BY DEF MonitorGuards, SeenPossible, Apply
<1>2. MonitorGuards' /\ SeenPossible'
  BY DEF MonitorGuards, SeenPossible
<1>3. WaitJustified'
  BY DEF WaitJustified, NotifyPending
<1>4. ParkedInCheck'
  BY DEF ParkedInCheck
<1>5. NoLostWakeup'
  BY DEF NoLostWakeup, WaitJustified, NotifyPending, ParkedInCheck
<1> QED BY <1>1, <1>2, <1>3, <1>4, <1>5

LEMMA LoadStep ==
  ASSUME IInv, NEW t \in Tasks, Load(t)
  PROVE  IInv'
<1> USE KernelAssumption, SemaphoreAssumption
    DEF IInv, TypeOK, KernelTypeOK, Labels, Calls, Possible, kernelVars, Load,
        At, Goto, Executing, Runnable, LoadExclusive
<1>1. TypeOK'
  BY DEF MonitorGuards, SeenPossible, Apply
<1>2. MonitorGuards' /\ SeenPossible'
  BY DEF MonitorGuards, SeenPossible
<1>3. WaitJustified'
  BY DEF WaitJustified, NotifyPending
<1>4. ParkedInCheck'
  BY DEF ParkedInCheck
<1>5. NoLostWakeup'
  BY DEF NoLostWakeup, WaitJustified, NotifyPending, ParkedInCheck
<1> QED BY <1>1, <1>2, <1>3, <1>4, <1>5

LEMMA StoreStep ==
  ASSUME IInv, NEW t \in Tasks, Store(t)
  PROVE  IInv'
<1> USE KernelAssumption, SemaphoreAssumption
    DEF IInv, TypeOK, KernelTypeOK, Labels, Calls, Possible, kernelVars, Store,
        At, Goto, Executing, Runnable, StoreExclusive
<1>1. TypeOK'
  <2>1. seen[t] = availableTokens /\ Possible(call[t], seen[t])
    BY DEF MonitorGuards, SeenPossible
  <2>2. Apply(call[t], seen[t]) \in 0 .. MaxTokens
    BY <2>1 DEF Apply
  <2>3. KernelTypeOK'
    OBVIOUS
  <2> QED BY <2>2, <2>3
<1>2. MonitorGuards' /\ SeenPossible'
  BY DEF MonitorGuards, SeenPossible
<1>3. WaitJustified'
  BY DEF WaitJustified, NotifyPending
<1>4. ParkedInCheck'
  BY DEF ParkedInCheck
<1>5. NoLostWakeup'
  BY DEF NoLostWakeup, WaitJustified, NotifyPending, ParkedInCheck
<1> QED BY <1>1, <1>2, <1>3, <1>4, <1>5

LEMMA StoreRetryStep ==
  ASSUME IInv, NEW t \in Tasks, StoreRetry(t)
  PROVE  IInv'
<1> USE KernelAssumption, SemaphoreAssumption
    DEF IInv, TypeOK, KernelTypeOK, Labels, Calls, Possible, kernelVars, StoreRetry,
        At, Goto, Executing, Runnable, StoreExclusiveFails
<1>1. TypeOK'
  BY DEF MonitorGuards, SeenPossible, Apply
<1>2. MonitorGuards' /\ SeenPossible'
  BY DEF MonitorGuards, SeenPossible
<1>3. WaitJustified'
  BY DEF WaitJustified, NotifyPending
<1>4. ParkedInCheck'
  BY DEF ParkedInCheck
<1>5. NoLostWakeup'
  BY DEF NoLostWakeup, WaitJustified, NotifyPending, ParkedInCheck
<1> QED BY <1>1, <1>2, <1>3, <1>4, <1>5

LEMMA WaitStep ==
  ASSUME IInv, NEW t \in Tasks, Wait(t)
  PROVE  IInv'
<1> USE KernelAssumption, SemaphoreAssumption
    DEF IInv, TypeOK, KernelTypeOK, Labels, Calls, Possible, kernelVars, Wait,
        At, Goto, Executing, Runnable, WaitCallback, WaitParks
<1>1. TypeOK'
  BY DEF MonitorGuards, SeenPossible, Apply
<1>2. MonitorGuards' /\ SeenPossible'
  BY DEF MonitorGuards, SeenPossible
<1>3. WaitJustified'
  BY DEF WaitJustified, NotifyPending
<1>4. ParkedInCheck'
  BY DEF ParkedInCheck
<1>5. NoLostWakeup'
  BY DEF NoLostWakeup, WaitJustified, NotifyPending, ParkedInCheck
<1> QED BY <1>1, <1>2, <1>3, <1>4, <1>5

LEMMA NotifyStep ==
  ASSUME IInv, NEW t \in Tasks, Notify(t)
  PROVE  IInv'
<1> USE KernelAssumption, SemaphoreAssumption
    DEF IInv, TypeOK, KernelTypeOK, Labels, Calls, Possible, kernelVars, Notify,
        At, Goto, Executing, Runnable, NotifyCallback, NewCheckCode
<1>1. TypeOK'
  BY DEF MonitorGuards, SeenPossible, Apply
<1>2. MonitorGuards' /\ SeenPossible'
  BY DEF MonitorGuards, SeenPossible
<1>3. WaitJustified'
  BY DEF WaitJustified, NotifyPending
<1>4. ParkedInCheck'
  BY DEF ParkedInCheck
<1>5. NoLostWakeup'
  BY DEF NoLostWakeup, WaitJustified, NotifyPending, ParkedInCheck
<1> QED BY <1>1, <1>2, <1>3, <1>4, <1>5

LEMMA PendSVStep ==
  ASSUME IInv, PendSV
  PROVE  IInv'
<1> USE KernelAssumption DEF IInv, PendSV, Schedule, TaskSwitch, taskVars
<1>1. TypeOK'
  BY DEF TypeOK, KernelTypeOK
<1>2. MonitorGuards' /\ SeenPossible'
  BY DEF MonitorGuards, SeenPossible
<1>3. WaitJustified' /\ ParkedInCheck' /\ NoLostWakeup'
  BY DEF WaitJustified, NotifyPending, ParkedInCheck, NoLostWakeup
<1> QED BY <1>1, <1>2, <1>3

LEMMA NextPreserves == IInv /\ [Next]_vars => IInv'
<1> SUFFICES ASSUME IInv, [Next]_vars PROVE IInv'
  OBVIOUS
<1>1. CASE PendSV
  BY <1>1, PendSVStep
<1>2. ASSUME NEW t \in Tasks, Call(t) PROVE IInv'
  BY <1>2, CallStep
<1>3. ASSUME NEW t \in Tasks, Works(t) PROVE IInv'
  BY <1>3, CheckStep, LoadStep, StoreStep, StoreRetryStep, WaitStep, NotifyStep DEF Works
<1>4. CASE UNCHANGED vars
  BY <1>4 DEF vars, kernelVars, taskVars, IInv, TypeOK, KernelTypeOK, MonitorGuards,
     SeenPossible, WaitJustified, NotifyPending, ParkedInCheck, NoLostWakeup
<1> QED BY <1>1, <1>2, <1>3, <1>4 DEF Next

\* The inductive invariant holds in every reachable state of semaphore.c over the kernel.
THEOREM Invariance == Spec => []IInv
BY InitEstablishes, NextPreserves, PTL DEF Spec

\* The token counter never under- or overflows: no interleaving of LDREX, STREX and task
\* switches loses or invents a token beyond the range.
THEOREM TokensInRange == Spec => []TypeOK
<1>1. IInv => TypeOK
  BY DEF IInv
<1> QED BY <1>1, Invariance, PTL

\* Whoever is parked cannot be served, or will be woken by a pending notify.
THEOREM WakeupsKept == Spec => []NoLostWakeup
<1>1. IInv => NoLostWakeup
  BY DEF IInv
<1> QED BY <1>1, Invariance, PTL

\* All tasks are parked only when all want the same impossible thing.
THEOREM NobodyStandsOff == Spec => []NoStandoff
<1>1. IInv => NoStandoff
  <2> SUFFICES ASSUME IInv, \A t \in Tasks : waitingFor[t] # NULL, NEW t \in Tasks, NEW u \in Tasks
               PROVE  call[t] = call[u] /\ ~Possible(call[t], availableTokens)
    BY DEF NoStandoff
  <2>1. \A v \in Tasks : pc[v] # "notify" /\ ~Possible(call[v], availableTokens)
    BY DEF IInv, ParkedInCheck, NoLostWakeup
  <2> QED BY <2>1, SemaphoreAssumption DEF IInv, TypeOK, Calls, Possible
<1> QED BY <1>1, Invariance, PTL

(***************************************************************************)
(* The refinement: only Call, Store and Notify change the abstract state,  *)
(* and a Store acts on the tokens its LDREX has seen.                      *)
(***************************************************************************)
LEMMA StepRefines == IInv /\ [Next]_vars => [Abstract!Next]_<<availableTokens, phase>>
<1> SUFFICES ASSUME IInv, [Next]_vars PROVE [Abstract!Next]_<<availableTokens, phase>>
  OBVIOUS
<1> USE DEF Abstract!Next, IInv, TypeOK
<1>1. CASE PendSV
  BY <1>1 DEF PendSV, taskVars, phase
<1>2. ASSUME NEW t \in Tasks, Call(t) PROVE Abstract!Call(t)
  BY <1>2 DEF Call, At, Goto, Abstract!Call, phase, Calls
<1>3. ASSUME NEW t \in Tasks, Store(t) PROVE Abstract!Take(t) \/ Abstract!Place(t)
  <2>1. seen[t] = availableTokens /\ Possible(call[t], availableTokens) /\ pc[t] = "store"
    BY <1>3 DEF Store, At, Executing, StoreExclusive, MonitorGuards, SeenPossible
  <2>2. CASE call[t] = "acquire"
    BY <1>3, <2>1, <2>2 DEF Store, Goto, Possible, Apply, Abstract!Take, phase
  <2>3. CASE call[t] = "release"
    BY <1>3, <2>1, <2>3 DEF Store, Goto, Possible, Apply, Abstract!Place, phase
  <2> QED BY <2>2, <2>3 DEF Calls
<1>4. ASSUME NEW t \in Tasks, Notify(t) PROVE Abstract!Return(t)
  BY <1>4 DEF Notify, At, Goto, Abstract!Return, phase
<1>5. ASSUME NEW t \in Tasks, Check(t) \/ Load(t) \/ StoreRetry(t) \/ Wait(t)
      PROVE  UNCHANGED <<availableTokens, phase>>
  BY <1>5 DEF Check, Load, StoreRetry, Wait, At, Goto, phase
<1>6. CASE UNCHANGED vars
  BY <1>6 DEF vars, taskVars, phase
<1> QED BY <1>1, <1>2, <1>3, <1>4, <1>5, <1>6 DEF Next, Works

\* semaphore.c over the kernel implements the abstract semaphore: one token per call, at
\* one atomic moment.
THEOREM Refinement == Spec => IsCountingSemaphore
<1>1. Init => Abstract!Init
  BY DEF Init, Abstract!Init, phase
<1> QED BY <1>1, StepRefines, Invariance, PTL DEF Spec, IsCountingSemaphore, Abstract!Spec
===============================================================================
