-------------------------------- MODULE MCMutex --------------------------------
(***************************************************************************)
(* Model checking of Mutex: up to three tasks, and up to three mutexes     *)
(* that are nested in one order.                                           *)
(***************************************************************************)
EXTENDS Mutex

CONSTANTS t1, t2, t3, m1, m2, m3

\* t1 is the most urgent task.
PriorityOf == [t \in Tasks |-> CASE t = t1 -> 1 [] t = t2 -> 2 [] OTHER -> 3]

\* m1 is always locked before m2, and m2 before m3.
Ordered == [m \in Mutexes |-> CASE m = m1 -> 1 [] m = m2 -> 2 [] OTHER -> 3]
===============================================================================
