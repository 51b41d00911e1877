-------------------------------- MODULE Kernel --------------------------------
(***************************************************************************)
(* The part of the DocetOS kernel that synchronisation primitives rely on: *)
(* which task owns the CPU, the exclusive monitor behind LDREX/STREX, the  *)
(* check code that ties a wait() to the notify()s before it, and the set   *)
(* of tasks parked by wait().                                              *)
(*                                                                         *)
(* SVC, PendSV and SysTick run at one priority, so a handler is one atomic *)
(* step; thread code may lose the CPU between any two of its own steps.    *)
(* Which runnable task PendSV picks is random in the code                  *)
(* (stochasticScheduler.c:199-251) and any runnable task here; sleeping    *)
(* and exiting tasks belong to the scheduler's own module.                 *)
(*                                                                         *)
(* This module has no Next: a primitive EXTENDS it and conjoins these      *)
(* operators with its own thread steps.                                    *)
(***************************************************************************)

CONSTANTS Tasks,   \* the TCBs known to the scheduler
          Reasons, \* what a task may wait for: mutexes, semaphores
          NULL,    \* the null pointer
          Idle     \* OS_idleTCB_p

ASSUME KernelAssumption == /\ NULL \notin Tasks \cup Reasons
                           /\ Idle \notin Tasks

VARIABLES current,    \* _currentTCB
          exclusive,  \* the core's exclusive monitor is set
          fresh,      \* tasks whose local checkCode still equals _checkCode
          waitingFor  \* waitingTasksHashTable: the reason a task waits for, or NULL

kernelVars == <<current, exclusive, fresh, waitingFor>>

KernelTypeOK == /\ current \in Tasks \cup {Idle}
                /\ exclusive \in BOOLEAN
                /\ fresh \subseteq Tasks
                /\ waitingFor \in [Tasks -> Reasons \cup {NULL}]

\* OS_start enters the idle task; no task waits yet.
KernelInit == /\ current = Idle
              /\ exclusive = FALSE
              /\ fresh = {}
              /\ waitingFor = [t \in Tasks |-> NULL]

Runnable(t) == waitingFor[t] = NULL
Waiters(r) == {t \in Tasks : waitingFor[t] = r}

\* Thread code of t executes: it is current, and PendSV is not pending to park it.
Executing(t) == current = t /\ Runnable(t)

\* Mutant: a switch without CLREX.
TaskSwitchKeepsMonitor(next) == /\ next # current
                                /\ current' = next
                                /\ UNCHANGED exclusive

(***************************************************************************)
(* PendSV with a change of task, which ends with CLREX. The kernel's state *)
(* does not change when the task does not (os_asm.s:77-78).                *)
(***************************************************************************)
TaskSwitch(next) == /\ next # current
                    /\ current' = next
                    /\ exclusive' = FALSE

Schedule == /\ \/ \E t \in Tasks : Runnable(t) /\ TaskSwitch(t)
               \/ (\A t \in Tasks : ~Runnable(t)) /\ TaskSwitch(Idle)
            /\ UNCHANGED <<fresh, waitingFor>>

\* PendSV that comes out with the current task.
KeepTask == /\ IF current = Idle THEN \A t \in Tasks : ~Runnable(t) ELSE Runnable(current)
            /\ UNCHANGED kernelVars

\* __LDREXW and __STREXW by the executing task. The monitor has no address.
LoadExclusive == exclusive' = TRUE
StoreExclusive == exclusive /\ exclusive' = FALSE
StoreExclusiveFails == ~exclusive /\ UNCHANGED exclusive

\* checkCode = OS_checkCode()
ReadCheckCode(t) == fresh' = fresh \cup {t}

\* Mutant: the callback ignores the check code.
WaitAlwaysParks(t) == t \in Tasks

(***************************************************************************)
(* SVC OS_wait(reason, checkCode, ...): the task is parked unless a notify *)
(* came after it read the check code.                                      *)
(***************************************************************************)
WaitParks(t) == t \in fresh

WaitCallback(t, reason) ==
  waitingFor' = IF WaitParks(t) THEN [waitingFor EXCEPT ![t] = reason] ELSE waitingFor

\* The SVC counts _checkCode up through the exclusive monitor, which its STREX leaves clear.
NewCheckCode == fresh' = {} /\ exclusive' = FALSE

\* Mutant: the check code is not advanced.
NotifyKeepsCheckCode(reason) ==
  /\ exclusive' = FALSE
  /\ waitingFor' = [t \in Tasks |-> IF waitingFor[t] = reason THEN NULL ELSE waitingFor[t]]
  /\ UNCHANGED fresh

(***************************************************************************)
(* SVC OS_notify(reason): a new check code makes every local copy stale,   *)
(* and every task that waits for reason becomes active again.              *)
(***************************************************************************)
NotifyCallback(reason) ==
  /\ NewCheckCode
  /\ waitingFor' = [t \in Tasks |-> IF waitingFor[t] = reason THEN NULL ELSE waitingFor[t]]
===============================================================================
