----------------------------- MODULE MutexProofs -----------------------------
(***************************************************************************)
(* For any number of tasks and mutexes, any nesting depth and any ranking: *)
(* the mutex excludes, counts its nesting and loses no wakeup. The         *)
(* argument is the inductive invariant IInv of Mutex, one lemma per step   *)
(* of mutex.c.                                                             *)
(***************************************************************************)
EXTENDS Mutex, WellFoundedInduction, TLAPS

\* A nonempty set of naturals has a least element, the one CHOOSE picks.
LEMMA LeastExists ==
  ASSUME NEW S, S \subseteq Nat, S # {}
  PROVE  (CHOOSE p \in S : \A q \in S : p <= q) \in S
<1> DEFINE Less == {ss \in Nat \X Nat : ss[1] < ss[2]}
<1>1. IsWellFoundedOn(Less, Nat)
  BY NatLessThanWellFounded DEF OpToRel
<1>2. PICK x \in S : \A y \in S : <<y, x>> \notin Less
  <2> HIDE DEF Less
  <2> QED BY <1>1, WFMin
<1>3. ASSUME NEW y \in S PROVE x <= y
  <2>1. <<y, x>> \in Nat \X Nat /\ <<y, x>>[1] = y /\ <<y, x>>[2] = x
    OBVIOUS
  <2>2. ~ (y < x)
    BY <2>1, <1>2
  <2> QED BY <2>2
<1> QED BY <1>3

\* What a task inherits is a natural number: 0, or the priority of some task.
LEMMA InheritedNat ==
  ASSUME TypeOK, NEW t \in Tasks, NEW head, NEW next, NEW waiting
  PROVE  Inherited(t, head, next, waiting) \in Nat
<1> DEFINE urgent == {Effective(w) : w \in {w \in Tasks : waiting[w] \in Acquired(head, next)}}
                       \cup {Priority[t]}
           best == CHOOSE p \in urgent : \A q \in urgent : p <= q
<1>1. urgent \subseteq Nat /\ urgent # {}
  BY MutexAssumption DEF Effective, TypeOK
<1>2. best \in Nat
  <2> HIDE DEF urgent
  <2> QED BY <1>1, LeastExists
<1>3. Inherited(t, head, next, waiting) = IF best < Priority[t] THEN best ELSE 0
  BY DEF Inherited
<1> HIDE DEF best
<1> QED BY <1>2, <1>3

\* The steps that change a key leave numbers behind.
LEMMA InheritTypes ==
  ASSUME TypeOK, NEW t \in Tasks, NEW priority \in Nat, NEW keys \in [Tasks -> Nat],
         Inherit(t, priority, keys)
  PROVE  inheritedPriority' \in [Tasks -> Nat] /\ heapKey' \in [Tasks -> Nat]
BY MutexAssumption DEF TypeOK, Inherit

LEMMA WokenKeysTypes ==
  ASSUME TypeOK, NEW m \in Mutexes
  PROVE  WokenKeys(m) \in [Tasks -> Nat]
BY MutexAssumption DEF TypeOK, WokenKeys, Effective

(***************************************************************************)
(* Every step of mutex.c keeps IInv.                                       *)
(***************************************************************************)
LEMMA AcquireStep ==
  ASSUME IInv, NEW t \in Tasks, NEW m \in Mutexes, Acquire(t, m)
  PROVE  IInv'
<1> USE KernelAssumption, MutexAssumption
     DEF IInv, TypeOK, KernelTypeOK, Labels, Acquire, At, Goto, Executing, Runnable,
         Mutexes, Owns, InCritical, Free, Mine, ReleasePending, kernelVars, mutexVars,
         piVars
<1>1. TypeOK'
  BY DEF CounterIsDepth, CriticalOwns
<1>2. CriticalOwns'
  BY DEF CriticalOwns, MonitorGuards, CounterIsDepth, ClearIsLast
<1>3. MonitorGuards'
  BY DEF MonitorGuards, CriticalOwns
<1>4. CounterIsDepth'
  BY DEF CriticalOwns, MonitorGuards, CounterIsDepth, ClearIsLast
<1>5. ClearIsLast'
  BY DEF CriticalOwns, CounterIsDepth, ClearIsLast
<1>6. WaitJustified'
  <2> SUFFICES ASSUME NEW u \in Tasks, pc'[u] = "wait"
               PROVE  ~Owns(u, mutex[u])' /\ (u \in fresh' => ReleasePending(mutex[u])')
    BY DEF WaitJustified
  <2>1. u # t /\ pc[u] = "wait" /\ mutex'[u] = mutex[u]
    OBVIOUS
  <2>2. \A v \in Tasks : pc[v] = "notify" => pc'[v] = "notify" /\ mutex'[v] = mutex[v]
    OBVIOUS
  <2> QED BY <2>1, <2>2 DEF WaitJustified
<1>7. ParkedInAcquire'
  BY DEF ParkedInAcquire, WaitJustified, CriticalOwns
<1> QED BY <1>1, <1>2, <1>3, <1>4, <1>5, <1>6, <1>7 DEF IInv

LEMMA AcquireNonBlockingStep ==
  ASSUME IInv, NEW t \in Tasks, NEW m \in Mutexes, AcquireNonBlocking(t, m)
  PROVE  IInv'
<1> USE KernelAssumption, MutexAssumption
     DEF IInv, TypeOK, KernelTypeOK, Labels, AcquireNonBlocking, At, Goto, Executing,
         Runnable, Mutexes, Owns, InCritical, Free, Mine, ReleasePending, kernelVars,
         mutexVars, piVars
<1>1. TypeOK'
  BY DEF CounterIsDepth, CriticalOwns
<1>2. CriticalOwns'
  BY DEF CriticalOwns, MonitorGuards, CounterIsDepth, ClearIsLast
<1>3. MonitorGuards'
  BY DEF MonitorGuards, CriticalOwns
<1>4. CounterIsDepth'
  BY DEF CriticalOwns, MonitorGuards, CounterIsDepth, ClearIsLast
<1>5. ClearIsLast'
  BY DEF CriticalOwns, CounterIsDepth, ClearIsLast
<1>6. WaitJustified'
  <2> SUFFICES ASSUME NEW u \in Tasks, pc'[u] = "wait"
               PROVE  ~Owns(u, mutex[u])' /\ (u \in fresh' => ReleasePending(mutex[u])')
    BY DEF WaitJustified
  <2>1. u # t /\ pc[u] = "wait" /\ mutex'[u] = mutex[u]
    OBVIOUS
  <2>2. \A v \in Tasks : pc[v] = "notify" => pc'[v] = "notify" /\ mutex'[v] = mutex[v]
    OBVIOUS
  <2> QED BY <2>1, <2>2 DEF WaitJustified
<1>7. ParkedInAcquire'
  BY DEF ParkedInAcquire, WaitJustified, CriticalOwns
<1> QED BY <1>1, <1>2, <1>3, <1>4, <1>5, <1>6, <1>7 DEF IInv

LEMMA ReleaseStep ==
  ASSUME IInv, NEW t \in Tasks, NEW m \in Mutexes, Release(t, m)
  PROVE  IInv'
<1> USE KernelAssumption, MutexAssumption
     DEF IInv, TypeOK, KernelTypeOK, Labels, Release, At, Goto, Executing, Runnable,
         Mutexes, Owns, InCritical, Free, Mine, ReleasePending, kernelVars, mutexVars,
         piVars
<1>1. TypeOK'
  BY DEF CounterIsDepth, CriticalOwns
<1>2. CriticalOwns'
  BY DEF CriticalOwns, MonitorGuards, CounterIsDepth, ClearIsLast
<1>3. MonitorGuards'
  BY DEF MonitorGuards, CriticalOwns
<1>4. CounterIsDepth'
  BY DEF CriticalOwns, MonitorGuards, CounterIsDepth, ClearIsLast
<1>5. ClearIsLast'
  BY DEF CriticalOwns, CounterIsDepth, ClearIsLast
<1>6. WaitJustified'
  BY DEF WaitJustified, CriticalOwns
<1>7. ParkedInAcquire'
  BY DEF ParkedInAcquire, WaitJustified, CriticalOwns
<1> QED BY <1>1, <1>2, <1>3, <1>4, <1>5, <1>6, <1>7 DEF IInv

LEMMA CheckStep ==
  ASSUME IInv, NEW t \in Tasks, Check(t)
  PROVE  IInv'
<1> USE KernelAssumption, MutexAssumption
     DEF IInv, TypeOK, KernelTypeOK, Labels, Check, At, Goto, Executing, Runnable,
         ReadCheckCode, Mutexes, Owns, InCritical, Free, Mine, ReleasePending, kernelVars,
         mutexVars, piVars
<1>1. TypeOK'
  BY DEF CounterIsDepth, CriticalOwns
<1>2. CriticalOwns'
  BY DEF CriticalOwns, MonitorGuards, CounterIsDepth, ClearIsLast
<1>3. MonitorGuards'
  BY DEF MonitorGuards, CriticalOwns
<1>4. CounterIsDepth'
  BY DEF CriticalOwns, MonitorGuards, CounterIsDepth, ClearIsLast
<1>5. ClearIsLast'
  BY DEF CriticalOwns, CounterIsDepth, ClearIsLast
<1>6. WaitJustified'
  BY DEF WaitJustified, CriticalOwns
<1>7. ParkedInAcquire'
  BY DEF ParkedInAcquire, WaitJustified, CriticalOwns
<1> QED BY <1>1, <1>2, <1>3, <1>4, <1>5, <1>6, <1>7 DEF IInv

LEMMA LoadStep ==
  ASSUME IInv, NEW t \in Tasks, Load(t)
  PROVE  IInv'
<1> USE KernelAssumption, MutexAssumption
     DEF IInv, TypeOK, KernelTypeOK, Labels, Load, At, Goto, Executing, Runnable,
         LoadExclusive, Mutexes, Owns, InCritical, Free, Mine, ReleasePending, kernelVars,
         mutexVars, piVars
<1>1. TypeOK'
  BY ZenonT(40) DEF CounterIsDepth, CriticalOwns
<1>2. CriticalOwns'
  BY DEF CriticalOwns, MonitorGuards, CounterIsDepth, ClearIsLast
<1>3. MonitorGuards'
  BY DEF MonitorGuards, CriticalOwns
<1>4. CounterIsDepth'
  BY DEF CriticalOwns, MonitorGuards, CounterIsDepth, ClearIsLast
<1>5. ClearIsLast'
  BY DEF CriticalOwns, CounterIsDepth, ClearIsLast
<1>6. WaitJustified'
  BY DEF WaitJustified, CriticalOwns
<1>7. ParkedInAcquire'
  BY DEF ParkedInAcquire, WaitJustified, CriticalOwns
<1> QED BY <1>1, <1>2, <1>3, <1>4, <1>5, <1>6, <1>7 DEF IInv

LEMMA StoreStep ==
  ASSUME IInv, NEW t \in Tasks, Store(t)
  PROVE  IInv'
<1> USE KernelAssumption, MutexAssumption
     DEF IInv, TypeOK, KernelTypeOK, Labels, Store, At, Goto, Executing, Runnable,
         StoreExclusive, Mutexes, Owns, InCritical, Free, Mine, ReleasePending, kernelVars,
         mutexVars, piVars
<1>1. TypeOK'
  BY DEF CounterIsDepth, CriticalOwns
<1>2. CriticalOwns'
  BY DEF CriticalOwns, MonitorGuards, CounterIsDepth, ClearIsLast
<1>3. MonitorGuards'
  BY DEF MonitorGuards, CriticalOwns
<1>4. CounterIsDepth'
  BY DEF CriticalOwns, MonitorGuards, CounterIsDepth, ClearIsLast
<1>5. ClearIsLast'
  BY DEF CriticalOwns, CounterIsDepth, ClearIsLast
<1>6. WaitJustified'
  BY DEF WaitJustified, CriticalOwns
<1>7. ParkedInAcquire'
  BY DEF ParkedInAcquire, WaitJustified, CriticalOwns
<1> QED BY <1>1, <1>2, <1>3, <1>4, <1>5, <1>6, <1>7 DEF IInv

LEMMA StoreRetryStep ==
  ASSUME IInv, NEW t \in Tasks, StoreRetry(t)
  PROVE  IInv'
<1> USE KernelAssumption, MutexAssumption
     DEF IInv, TypeOK, KernelTypeOK, Labels, StoreRetry, At, Goto, Executing, Runnable,
         StoreExclusiveFails, Mutexes, Owns, InCritical, Free, Mine, ReleasePending,
         kernelVars, mutexVars, piVars
<1>1. TypeOK'
  BY DEF CounterIsDepth, CriticalOwns
<1>2. CriticalOwns'
  BY DEF CriticalOwns, MonitorGuards, CounterIsDepth, ClearIsLast
<1>3. MonitorGuards'
  BY DEF MonitorGuards, CriticalOwns
<1>4. CounterIsDepth'
  BY DEF CriticalOwns, MonitorGuards, CounterIsDepth, ClearIsLast
<1>5. ClearIsLast'
  BY DEF CriticalOwns, CounterIsDepth, ClearIsLast
<1>6. WaitJustified'
  BY DEF WaitJustified, CriticalOwns
<1>7. ParkedInAcquire'
  BY DEF ParkedInAcquire, WaitJustified, CriticalOwns
<1> QED BY <1>1, <1>2, <1>3, <1>4, <1>5, <1>6, <1>7 DEF IInv

LEMMA WaitStep ==
  ASSUME IInv, NEW t \in Tasks, Wait(t)
  PROVE  IInv'
<1> USE KernelAssumption, MutexAssumption
     DEF IInv, TypeOK, KernelTypeOK, Labels, Wait, At, Goto, Executing, Runnable,
         WaitCallback, WaitParks, Mutexes, Owns, InCritical, Free, Mine, ReleasePending,
         kernelVars, mutexVars, piVars
<1>1. TypeOK'
  <2>1. inheritedPriority' \in [Tasks -> Nat] /\ heapKey' \in [Tasks -> Nat]
    <3> DEFINE owner == tcbPointer[mutex[t]]
    <3>1. CASE WaitParks(t) /\ owner # NULL
      <4>1. owner \in Tasks
        BY <3>1
      <4>2. PICK head : Inherit(owner, Inherited(owner, head, nextAcquiredResource, waitingFor'),
                                heapKey)
        BY <3>1
      <4> HIDE DEF owner
      <4> QED BY <4>1, <4>2, InheritedNat, InheritTypes
    <3>2. CASE ~(WaitParks(t) /\ owner # NULL)
      BY <3>2
    <3> QED BY <3>1, <3>2
  <2> QED BY <2>1 DEF CounterIsDepth, CriticalOwns
<1>2. CriticalOwns'
  BY DEF CriticalOwns, MonitorGuards, CounterIsDepth, ClearIsLast
<1>3. MonitorGuards'
  BY DEF MonitorGuards, CriticalOwns
<1>4. CounterIsDepth'
  BY DEF CriticalOwns, MonitorGuards, CounterIsDepth, ClearIsLast
<1>5. ClearIsLast'
  BY DEF CriticalOwns, CounterIsDepth, ClearIsLast
<1>6. WaitJustified'
  BY DEF WaitJustified, CriticalOwns
<1>7. ParkedInAcquire'
  <2> SUFFICES ASSUME NEW u \in Tasks, waitingFor'[u] # NULL
               PROVE  /\ pc'[u] = "check" /\ mutex'[u] = waitingFor'[u]
                      /\ ~Owns(u, waitingFor[u])' /\ ReleasePending(waitingFor[u])'
    BY DEF ParkedInAcquire
  <2>1. \A m \in Mutexes : ReleasePending(m) => ReleasePending(m)'
    <3> SUFFICES ASSUME NEW m \in Mutexes, ReleasePending(m) PROVE ReleasePending(m)'
      OBVIOUS
    <3>1. \A v \in Tasks : pc[v] = "notify" => pc'[v] = "notify" /\ mutex'[v] = mutex[v]
      OBVIOUS
    <3> QED BY <3>1
  <2>2. CASE u = t
    <3>1. t \in fresh /\ waitingFor'[t] = mutex[t]
      BY <2>2
    <3> QED BY <2>1, <2>2, <3>1 DEF WaitJustified
  <2>3. CASE u # t
    <3>1. waitingFor'[u] = waitingFor[u] /\ pc'[u] = pc[u] /\ mutex'[u] = mutex[u]
      BY <2>3
    <3> HIDE DEF ReleasePending
    <3> QED BY <2>1, <3>1 DEF ParkedInAcquire
  <2> QED BY <2>2, <2>3
<1> QED BY <1>1, <1>2, <1>3, <1>4, <1>5, <1>6, <1>7 DEF IInv

LEMMA ResourceAcquiredStep ==
  ASSUME IInv, NEW t \in Tasks, ResourceAcquired(t)
  PROVE  IInv'
<1> USE KernelAssumption, MutexAssumption
     DEF IInv, TypeOK, KernelTypeOK, Labels, ResourceAcquired, At, Goto, Executing,
         Runnable, Mutexes, Owns, InCritical, Free, Mine, ReleasePending, kernelVars,
         mutexVars, piVars
<1>1. TypeOK'
  <2>1. /\ nextAcquiredResource' \in [Mutexes -> Mutexes \cup {NULL}]
        /\ acquiredResources' \in [Tasks -> Mutexes \cup {NULL}]
    OBVIOUS
  <2>2. pc' \in [Tasks -> Labels]
    OBVIOUS
  <2> QED BY <2>1, <2>2
<1>2. CriticalOwns'
  BY DEF CriticalOwns, MonitorGuards, CounterIsDepth, ClearIsLast
<1>3. MonitorGuards'
  BY DEF MonitorGuards, CriticalOwns
<1>4. CounterIsDepth'
  BY DEF CriticalOwns, MonitorGuards, CounterIsDepth, ClearIsLast
<1>5. ClearIsLast'
  BY DEF CriticalOwns, CounterIsDepth, ClearIsLast
<1>6. WaitJustified'
  BY DEF WaitJustified, CriticalOwns
<1>7. ParkedInAcquire'
  BY DEF ParkedInAcquire, WaitJustified, CriticalOwns
<1> QED BY <1>1, <1>2, <1>3, <1>4, <1>5, <1>6, <1>7 DEF IInv

LEMMA CountStep ==
  ASSUME IInv, NEW t \in Tasks, Count(t)
  PROVE  IInv'
<1> USE KernelAssumption, MutexAssumption
     DEF IInv, TypeOK, KernelTypeOK, Labels, Count, At, Goto, Executing, Runnable, Mutexes,
         Owns, InCritical, Free, Mine, ReleasePending, kernelVars, mutexVars, piVars
<1>1. TypeOK'
  BY DEF CounterIsDepth, CriticalOwns
<1>2. CriticalOwns'
  BY DEF CriticalOwns, MonitorGuards, CounterIsDepth, ClearIsLast
<1>3. MonitorGuards'
  BY DEF MonitorGuards, CriticalOwns
<1>4. CounterIsDepth'
  BY DEF CriticalOwns, MonitorGuards, CounterIsDepth, ClearIsLast
<1>5. ClearIsLast'
  BY DEF CriticalOwns, CounterIsDepth, ClearIsLast
<1>6. WaitJustified'
  BY DEF WaitJustified, CriticalOwns
<1>7. ParkedInAcquire'
  BY DEF ParkedInAcquire, WaitJustified, CriticalOwns
<1> QED BY <1>1, <1>2, <1>3, <1>4, <1>5, <1>6, <1>7 DEF IInv

LEMMA TryLoadStep ==
  ASSUME IInv, NEW t \in Tasks, TryLoad(t)
  PROVE  IInv'
<1> USE KernelAssumption, MutexAssumption
     DEF IInv, TypeOK, KernelTypeOK, Labels, TryLoad, At, Goto, Executing, Runnable,
         LoadExclusive, Mutexes, Owns, InCritical, Free, Mine, ReleasePending, kernelVars,
         mutexVars, piVars
<1>1. TypeOK'
  BY ZenonT(40) DEF CounterIsDepth, CriticalOwns
<1>2. CriticalOwns'
  BY DEF CriticalOwns, MonitorGuards, CounterIsDepth, ClearIsLast
<1>3. MonitorGuards'
  BY DEF MonitorGuards, CriticalOwns
<1>4. CounterIsDepth'
  BY DEF CriticalOwns, MonitorGuards, CounterIsDepth, ClearIsLast
<1>5. ClearIsLast'
  BY DEF CriticalOwns, CounterIsDepth, ClearIsLast
<1>6. WaitJustified'
  BY DEF WaitJustified, CriticalOwns
<1>7. ParkedInAcquire'
  BY DEF ParkedInAcquire, WaitJustified, CriticalOwns
<1> QED BY <1>1, <1>2, <1>3, <1>4, <1>5, <1>6, <1>7 DEF IInv

LEMMA TryStoreStep ==
  ASSUME IInv, NEW t \in Tasks, TryStore(t)
  PROVE  IInv'
<1> USE KernelAssumption, MutexAssumption
     DEF IInv, TypeOK, KernelTypeOK, Labels, TryStore, At, Goto, Executing, Runnable,
         StoreExclusive, Mutexes, Owns, InCritical, Free, Mine, ReleasePending, kernelVars,
         mutexVars, piVars
<1>1. TypeOK'
  BY DEF CounterIsDepth, CriticalOwns
<1>2. CriticalOwns'
  BY DEF CriticalOwns, MonitorGuards, CounterIsDepth, ClearIsLast
<1>3. MonitorGuards'
  BY DEF MonitorGuards, CriticalOwns
<1>4. CounterIsDepth'
  BY DEF CriticalOwns, MonitorGuards, CounterIsDepth, ClearIsLast
<1>5. ClearIsLast'
  BY DEF CriticalOwns, CounterIsDepth, ClearIsLast
<1>6. WaitJustified'
  BY DEF WaitJustified, CriticalOwns
<1>7. ParkedInAcquire'
  BY DEF ParkedInAcquire, WaitJustified, CriticalOwns
<1> QED BY <1>1, <1>2, <1>3, <1>4, <1>5, <1>6, <1>7 DEF IInv

LEMMA TryStoreFailsStep ==
  ASSUME IInv, NEW t \in Tasks, TryStoreFails(t)
  PROVE  IInv'
<1> USE KernelAssumption, MutexAssumption
     DEF IInv, TypeOK, KernelTypeOK, Labels, TryStoreFails, At, Goto, Executing, Runnable,
         StoreExclusiveFails, Mutexes, Owns, InCritical, Free, Mine, ReleasePending,
         kernelVars, mutexVars, piVars
<1>1. TypeOK'
  BY DEF CounterIsDepth, CriticalOwns
<1>2. CriticalOwns'
  BY DEF CriticalOwns, MonitorGuards, CounterIsDepth, ClearIsLast
<1>3. MonitorGuards'
  BY DEF MonitorGuards, CriticalOwns
<1>4. CounterIsDepth'
  BY DEF CriticalOwns, MonitorGuards, CounterIsDepth, ClearIsLast
<1>5. ClearIsLast'
  BY DEF CriticalOwns, CounterIsDepth, ClearIsLast
<1>6. WaitJustified'
  BY DEF WaitJustified, CriticalOwns
<1>7. ParkedInAcquire'
  BY DEF ParkedInAcquire, WaitJustified, CriticalOwns
<1> QED BY <1>1, <1>2, <1>3, <1>4, <1>5, <1>6, <1>7 DEF IInv

LEMMA UncountStep ==
  ASSUME IInv, NEW t \in Tasks, Uncount(t)
  PROVE  IInv'
<1> USE KernelAssumption, MutexAssumption
     DEF IInv, TypeOK, KernelTypeOK, Labels, Uncount, At, Goto, Executing, Runnable,
         Mutexes, Owns, InCritical, Free, Mine, ReleasePending, kernelVars, mutexVars,
         piVars
<1>1. TypeOK'
  <2>1. /\ mutex[t] \in Mutexes /\ tcbPointer[mutex[t]] = t /\ t # NULL
        /\ pc[t] = "uncount" /\ depth[t][mutex[t]] \in Nat
    OBVIOUS
  <2>2. counter[mutex[t]] = depth[t][mutex[t]] + 1
    BY <2>1 DEF CounterIsDepth
  <2>3. counter[mutex[t]] - 1 \in Nat
    BY <2>1, <2>2
  <2> QED BY <2>3
<1>2. CriticalOwns'
  BY DEF CriticalOwns, MonitorGuards, CounterIsDepth, ClearIsLast
<1>3. MonitorGuards'
  BY DEF MonitorGuards, CriticalOwns
<1>4. CounterIsDepth'
  BY DEF CriticalOwns, MonitorGuards, CounterIsDepth, ClearIsLast
<1>5. ClearIsLast'
  BY DEF CriticalOwns, CounterIsDepth, ClearIsLast
<1>6. WaitJustified'
  BY DEF WaitJustified, CriticalOwns
<1>7. ParkedInAcquire'
  BY DEF ParkedInAcquire, WaitJustified, CriticalOwns
<1> QED BY <1>1, <1>2, <1>3, <1>4, <1>5, <1>6, <1>7 DEF IInv

LEMMA ClearStep ==
  ASSUME IInv, NEW t \in Tasks, Clear(t)
  PROVE  IInv'
<1> USE KernelAssumption, MutexAssumption
     DEF IInv, TypeOK, KernelTypeOK, Labels, Clear, At, Goto, Executing, Runnable, Mutexes,
         Owns, InCritical, Free, Mine, ReleasePending, kernelVars, mutexVars, piVars
<1>1. TypeOK'
  BY DEF CounterIsDepth, CriticalOwns
<1>2. CriticalOwns'
  BY DEF CriticalOwns, MonitorGuards, CounterIsDepth, ClearIsLast
<1>3. MonitorGuards'
  BY DEF MonitorGuards, CriticalOwns
<1>4. CounterIsDepth'
  BY DEF CriticalOwns, MonitorGuards, CounterIsDepth, ClearIsLast
<1>5. ClearIsLast'
  BY DEF CriticalOwns, CounterIsDepth, ClearIsLast
<1>6. WaitJustified'
  BY DEF WaitJustified, CriticalOwns
<1>7. ParkedInAcquire'
  BY DEF ParkedInAcquire, WaitJustified, CriticalOwns
<1> QED BY <1>1, <1>2, <1>3, <1>4, <1>5, <1>6, <1>7 DEF IInv

LEMMA NotifyStep ==
  ASSUME IInv, NEW t \in Tasks, Notify(t)
  PROVE  IInv'
<1> USE KernelAssumption, MutexAssumption
     DEF IInv, TypeOK, KernelTypeOK, Labels, Notify, At, Goto, Executing, Runnable,
         NotifyCallback, NewCheckCode, Unlink, Mutexes, Owns, InCritical, Free, Mine, ReleasePending,
         kernelVars, mutexVars, piVars
<1>1. TypeOK'
  <2>1. /\ nextAcquiredResource' \in [Mutexes -> Mutexes \cup {NULL}]
        /\ acquiredResources' \in [Tasks -> Mutexes \cup {NULL}]
    <3>1. CASE mutex[t] \in Acquired(acquiredResources[t], nextAcquiredResource)
      <4> DEFINE m == mutex[t]
                 head == acquiredResources[t]
                 cell == Walk(head, nextAcquiredResource)
                 at == CHOOSE i \in 0 .. Cardinality(Mutexes) :
                         cell[i] = m /\ \A j \in 0 .. i - 1 : cell[j] # m
                 newHead == IF at = 0 THEN nextAcquiredResource[m] ELSE head
                 bypassed == IF at = 0 THEN nextAcquiredResource
                   ELSE [nextAcquiredResource EXCEPT ![cell[at - 1]] = nextAcquiredResource[m]]
                 unlinked == [bypassed EXCEPT ![m] = NULL]
      <4>1. /\ nextAcquiredResource' = unlinked
            /\ acquiredResources' = [acquiredResources EXCEPT ![t] = newHead]
        BY <3>1
      <4> HIDE DEF at, cell
      <4>2. newHead \in Mutexes \cup {NULL} /\ bypassed \in [Mutexes -> Mutexes \cup {NULL}]
        OBVIOUS
      <4> HIDE DEF newHead, bypassed
      <4> QED BY <4>1, <4>2
    <3>2. CASE mutex[t] \notin Acquired(acquiredResources[t], nextAcquiredResource)
      BY <3>2
    <3> QED BY <3>1, <3>2
  <2>2. inheritedPriority' \in [Tasks -> Nat] /\ heapKey' \in [Tasks -> Nat]
    <3>1. CASE UNCHANGED inheritedPriority /\ heapKey' = WokenKeys(mutex[t])
      BY <3>1, WokenKeysTypes
    <3>2. CASE \E head, next : Inherit(t, Inherited(t, head, next, waitingFor'),
                                       WokenKeys(mutex[t]))
      <4>1. mutex[t] \in Mutexes
        OBVIOUS
      <4> QED BY <3>2, <4>1, InheritedNat, InheritTypes, WokenKeysTypes
    <3> QED BY <3>1, <3>2
  <2>3. KernelTypeOK'
    OBVIOUS
  <2> QED BY <2>1, <2>2, <2>3
<1>2. CriticalOwns'
  BY DEF CriticalOwns, MonitorGuards, CounterIsDepth, ClearIsLast
<1>3. MonitorGuards'
  BY DEF MonitorGuards, CriticalOwns
<1>4. CounterIsDepth'
  BY DEF CriticalOwns, MonitorGuards, CounterIsDepth, ClearIsLast
<1>5. ClearIsLast'
  BY DEF CriticalOwns, CounterIsDepth, ClearIsLast
<1>6. WaitJustified'
  BY DEF WaitJustified, CriticalOwns
<1>7. ParkedInAcquire'
  BY DEF ParkedInAcquire, WaitJustified, CriticalOwns
<1> QED BY <1>1, <1>2, <1>3, <1>4, <1>5, <1>6, <1>7 DEF IInv

LEMMA YieldStep ==
  ASSUME IInv, NEW t \in Tasks, Yield(t)
  PROVE  IInv'
<1> USE KernelAssumption, MutexAssumption
     DEF IInv, TypeOK, KernelTypeOK, Labels, Yield, At, Goto, Executing, Runnable, Mutexes,
         Owns, InCritical, Free, Mine, ReleasePending, kernelVars, mutexVars, piVars
<1>1. TypeOK'
  BY DEF CounterIsDepth, CriticalOwns
<1>2. CriticalOwns'
  BY DEF CriticalOwns, MonitorGuards, CounterIsDepth, ClearIsLast
<1>3. MonitorGuards'
  BY DEF MonitorGuards, CriticalOwns
<1>4. CounterIsDepth'
  BY DEF CriticalOwns, MonitorGuards, CounterIsDepth, ClearIsLast
<1>5. ClearIsLast'
  BY DEF CriticalOwns, CounterIsDepth, ClearIsLast
<1>6. WaitJustified'
  BY DEF WaitJustified, CriticalOwns
<1>7. ParkedInAcquire'
  BY DEF ParkedInAcquire, WaitJustified, CriticalOwns
<1> QED BY <1>1, <1>2, <1>3, <1>4, <1>5, <1>6, <1>7 DEF IInv

LEMMA PendSVStep ==
  ASSUME IInv, PendSV
  PROVE  IInv'
<1> USE KernelAssumption DEF IInv, TypeOK, KernelTypeOK, PendSV, Schedule, TaskSwitch,
        KeepTask, kernelVars, mutexVars, taskVars, Runnable, Owns, InCritical, ReleasePending
<1>1. TypeOK'
  <2>1. heapKey' \in [Tasks -> Nat]
    OBVIOUS
  <2>2. KernelTypeOK'
    BY ZenonT(40)
  <2> QED BY <2>1, <2>2
<1>2. CriticalOwns' /\ CounterIsDepth' /\ ClearIsLast'
  BY DEF CriticalOwns, CounterIsDepth, ClearIsLast
<1>3. MonitorGuards'
  BY DEF MonitorGuards
<1>4. WaitJustified' /\ ParkedInAcquire'
  BY DEF WaitJustified, ParkedInAcquire
<1> QED BY <1>1, <1>2, <1>3, <1>4

(***************************************************************************)
(* IInv holds initially, every step and every stutter keeps it, and it     *)
(* implies the properties the runs check.                                  *)
(***************************************************************************)
LEMMA InitEstablishes == Init => IInv
<1> USE KernelAssumption, MutexAssumption DEF Init, KernelInit, Owns, InCritical
<1> SUFFICES ASSUME Init PROVE IInv
  OBVIOUS
<1>1. TypeOK
  BY DEF TypeOK, KernelTypeOK, Labels
<1>2. CriticalOwns /\ MonitorGuards /\ CounterIsDepth /\ ClearIsLast
  BY DEF CriticalOwns, MonitorGuards, CounterIsDepth, ClearIsLast
<1>3. WaitJustified /\ ParkedInAcquire
  BY DEF WaitJustified, ParkedInAcquire
<1> QED BY <1>1, <1>2, <1>3 DEF IInv

LEMMA NextPreserves == IInv /\ [Next]_vars => IInv'
<1> SUFFICES ASSUME IInv, [Next]_vars PROVE IInv'
  OBVIOUS
<1>1. CASE PendSV
  BY <1>1, PendSVStep
<1>2. ASSUME NEW t \in Tasks, Call(t) PROVE IInv'
  BY <1>2, AcquireStep, AcquireNonBlockingStep, ReleaseStep DEF Call
<1>3. ASSUME NEW t \in Tasks, InAcquire(t) PROVE IInv'
  BY <1>3, CheckStep, LoadStep, StoreStep, StoreRetryStep, WaitStep DEF InAcquire
<1>4. ASSUME NEW t \in Tasks, InTry(t) PROVE IInv'
  BY <1>4, TryLoadStep, TryStoreStep, TryStoreFailsStep DEF InTry
<1>5. ASSUME NEW t \in Tasks, Entering(t) PROVE IInv'
  BY <1>5, ResourceAcquiredStep, CountStep DEF Entering
<1>6. ASSUME NEW t \in Tasks, InRelease(t) PROVE IInv'
  BY <1>6, UncountStep, ClearStep, NotifyStep, YieldStep DEF InRelease
<1>7. CASE UNCHANGED vars
  BY <1>7 DEF vars, kernelVars, mutexVars, piVars, taskVars, IInv, TypeOK, KernelTypeOK,
     CriticalOwns, MonitorGuards, CounterIsDepth, ClearIsLast, WaitJustified,
     ParkedInAcquire, Owns, InCritical, ReleasePending
<1> QED BY <1>1, <1>2, <1>3, <1>4, <1>5, <1>6, <1>7 DEF Next

\* The inductive invariant holds in every reachable state of mutex.c over the kernel.
THEOREM Invariance == Spec => []IInv
BY InitEstablishes, NextPreserves, PTL DEF Spec

\* Every variable keeps its type; in particular the lock counter never runs below 0.
THEOREM TypeCorrect == Spec => []TypeOK
<1>1. IInv => TypeOK
  BY DEF IInv
<1> QED BY <1>1, Invariance, PTL

\* Two tasks are never both between taking a mutex and giving it up.
THEOREM Exclusion == Spec => []MutualExclusion
<1>1. IInv => MutualExclusion
  BY DEF IInv, CriticalOwns, MutualExclusion
<1> QED BY <1>1, Invariance, PTL

\* The counter is the nesting depth of the owner, and 0 when nobody owns the mutex.
THEOREM NestingCounted == Spec => []CounterIsDepth
<1>1. IInv => CounterIsDepth
  BY DEF IInv
<1> QED BY <1>1, Invariance, PTL

\* The check code closes the window between looking at a mutex and waiting for it: whoever
\* is parked has an owner or a pending notify to wake it.
THEOREM WakeupsKept == Spec => []NoLostWakeup
<1>1. IInv => NoLostWakeup
  BY DEF IInv, ParkedInAcquire, NoLostWakeup
<1> QED BY <1>1, Invariance, PTL

(***************************************************************************)
(* The keys of the scheduler heap.                                         *)
(***************************************************************************)
LEMMA EffectiveNat == ASSUME TypeOK, NEW t \in Tasks PROVE Effective(t) \in Nat \ {0}
BY MutexAssumption DEF TypeOK, Effective

\* Whatever a task comes to inherit, its key follows, and it stays in or out of the heap.
LEMMA InheritKeeps ==
  ASSUME TypeOK, NEW t \in Tasks, NEW priority \in Nat, NEW keys \in [Tasks -> Nat],
         Inherit(t, priority, keys),
         NEW u \in Tasks, keys[u] # 0 => keys[u] = Effective(u)
  PROVE  /\ heapKey'[u] = 0 <=> keys[u] = 0
         /\ heapKey'[u] # 0 => heapKey'[u] = Effective(u)'
<1>1. CASE u = t
  BY <1>1, MutexAssumption DEF TypeOK, Inherit, Effective
<1>2. CASE u # t
  BY <1>2, MutexAssumption DEF TypeOK, Inherit, Effective
<1> QED BY <1>1, <1>2

LEMMA WaitKeepsKeys ==
  ASSUME IInv, HeapKeyIsUrgency, NEW t \in Tasks, Wait(t)
  PROVE  HeapKeyIsUrgency'
<1> DEFINE owner == tcbPointer[mutex[t]]
<1>1. mutex[t] \in Mutexes /\ mutex[t] # NULL /\ waitingFor \in [Tasks -> Reasons \cup {NULL}]
  BY KernelAssumption DEF IInv, TypeOK, KernelTypeOK, Mutexes
<1>2. \A u \in Tasks : Runnable(u)' => Runnable(u)
  BY <1>1 DEF Wait, WaitCallback, Runnable
<1>3. CASE WaitParks(t) /\ owner # NULL
  <2>1. owner \in Tasks /\ TypeOK /\ heapKey \in [Tasks -> Nat]
    BY <1>1, <1>3 DEF IInv, TypeOK
  <2>2. PICK head : Inherit(owner, Inherited(owner, head, nextAcquiredResource, waitingFor'), heapKey)
    BY <1>3 DEF Wait
  <2> HIDE DEF owner
  <2> SUFFICES ASSUME NEW u \in Tasks
               PROVE  IF heapKey'[u] = 0 THEN ~Runnable(u)' ELSE heapKey'[u] = Effective(u)'
    BY DEF HeapKeyIsUrgency
  <2>3. heapKey[u] # 0 => heapKey[u] = Effective(u)
    BY DEF HeapKeyIsUrgency
  <2>4. /\ heapKey'[u] = 0 <=> heapKey[u] = 0
        /\ heapKey'[u] # 0 => heapKey'[u] = Effective(u)'
    BY <2>1, <2>2, <2>3, InheritedNat, InheritKeeps
  <2> QED BY <1>2, <2>4 DEF HeapKeyIsUrgency
<1>4. CASE ~(WaitParks(t) /\ owner # NULL)
  BY <1>2, <1>4 DEF Wait, HeapKeyIsUrgency, Effective
<1> QED BY <1>3, <1>4

LEMMA NotifyKeepsKeys ==
  ASSUME IInv, HeapKeyIsUrgency, NEW t \in Tasks, Notify(t)
  PROVE  HeapKeyIsUrgency'
<1> DEFINE m == mutex[t]
           keys == WokenKeys(m)
<1>1. m \in Mutexes /\ TypeOK
  BY DEF IInv, TypeOK
<1>2. keys \in [Tasks -> Nat]
  BY <1>1, WokenKeysTypes
<1>3. \A u \in Tasks : keys[u] # 0 => keys[u] = Effective(u)
  BY DEF HeapKeyIsUrgency, WokenKeys
<1>4. \A u \in Tasks : keys[u] = 0 => ~Runnable(u)'
  <2> SUFFICES ASSUME NEW u \in Tasks, keys[u] = 0 PROVE ~Runnable(u)'
    OBVIOUS
  <2>1. heapKey[u] = 0 /\ waitingFor[u] # m
    BY <1>1, EffectiveNat DEF WokenKeys
  <2> QED BY <2>1 DEF Notify, NotifyCallback, HeapKeyIsUrgency, Runnable
<1> HIDE DEF keys
<1>5. CASE UNCHANGED inheritedPriority /\ heapKey' = keys
  BY <1>3, <1>4, <1>5 DEF HeapKeyIsUrgency, Effective
<1>6. CASE \E head, next : Inherit(t, Inherited(t, head, next, waitingFor'), keys)
  <2>1. PICK head, next : Inherit(t, Inherited(t, head, next, waitingFor'), keys)
    BY <1>6
  <2> SUFFICES ASSUME NEW u \in Tasks
               PROVE  IF heapKey'[u] = 0 THEN ~Runnable(u)' ELSE heapKey'[u] = Effective(u)'
    BY DEF HeapKeyIsUrgency
  <2>2. /\ heapKey'[u] = 0 <=> keys[u] = 0
        /\ heapKey'[u] # 0 => heapKey'[u] = Effective(u)'
    BY <1>1, <1>2, <1>3, <2>1, InheritedNat, InheritKeeps
  <2>3. keys[u] = 0 => ~Runnable(u)'
    BY <1>4
  <2> QED BY <2>2, <2>3
<1>7. \/ UNCHANGED inheritedPriority /\ heapKey' = keys
      \/ \E head, next : Inherit(t, Inherited(t, head, next, waitingFor'), keys)
  BY DEF Notify, Unlink, keys
<1> QED BY <1>5, <1>6, <1>7

LEMMA PendSVKeepsKeys ==
  ASSUME IInv, HeapKeyIsUrgency, PendSV
  PROVE  HeapKeyIsUrgency'
<1>1. UNCHANGED <<inheritedPriority, waitingFor>>
  BY DEF PendSV, Schedule, KeepTask, kernelVars
<1>2. \A u \in Tasks : heapKey'[u] = heapKey[u] \/ (heapKey'[u] = 0 /\ ~Runnable(u))
  BY DEF PendSV
<1> QED BY <1>1, <1>2 DEF HeapKeyIsUrgency, Effective, Runnable

LEMMA NextKeepsKeys ==
  ASSUME IInv, HeapKeyIsUrgency, [Next]_vars
  PROVE  HeapKeyIsUrgency'
<1>1. CASE UNCHANGED <<heapKey, inheritedPriority, waitingFor>>
  BY <1>1 DEF HeapKeyIsUrgency, Effective, Runnable
<1>2. ASSUME NEW t \in Tasks, Call(t) \/ InTry(t) \/ Entering(t)
      PROVE  UNCHANGED <<heapKey, inheritedPriority, waitingFor>>
  BY <1>2 DEF Call, Acquire, AcquireNonBlocking, Release, InTry, TryLoad, TryStore,
     TryStoreFails, Entering, ResourceAcquired, Count, kernelVars, piVars
<1>3. ASSUME NEW t \in Tasks, InAcquire(t)
      PROVE  UNCHANGED <<heapKey, inheritedPriority, waitingFor>> \/ Wait(t)
  BY <1>3 DEF InAcquire, Check, Load, Store, StoreRetry, piVars
<1>4. ASSUME NEW t \in Tasks, InRelease(t)
      PROVE  UNCHANGED <<heapKey, inheritedPriority, waitingFor>> \/ Notify(t)
  BY <1>4 DEF InRelease, Uncount, Clear, Yield, kernelVars, piVars
<1>5. CASE UNCHANGED vars
  BY <1>1, <1>5 DEF vars, kernelVars, piVars
<1> QED BY <1>1, <1>2, <1>3, <1>4, <1>5, WaitKeepsKeys, NotifyKeepsKeys, PendSVKeepsKeys DEF Next

\* In every reachable state the scheduler heap holds every task that can be picked, under
\* the priority it has at that moment, inherited or its own.
THEOREM KeysFollow == Spec => []HeapKeyIsUrgency
<1>1. Init => HeapKeyIsUrgency
  BY MutexAssumption DEF Init, HeapKeyIsUrgency, Effective
<1>2. IInv /\ HeapKeyIsUrgency /\ [Next]_vars => HeapKeyIsUrgency'
  BY NextKeepsKeys
<1> QED BY <1>1, <1>2, Invariance, PTL DEF Spec

\* A task never waits for a mutex it holds.
THEOREM Reentrant == Spec => []NoSelfWait
<1>1. IInv => NoSelfWait
  <2> SUFFICES ASSUME IInv, NEW m \in Mutexes, NEW t \in Waiters(m) PROVE ~Owns(t, m)
    BY DEF NoSelfWait
  <2>1. t \in Tasks /\ waitingFor[t] = m /\ m # NULL
    BY KernelAssumption DEF Waiters, Mutexes
  <2> QED BY <2>1 DEF IInv, ParkedInAcquire
<1> QED BY <1>1, Invariance, PTL
===============================================================================
