----------------------------- MODULE MCScheduler -----------------------------
(***************************************************************************)
(* Instances of the scheduler. Tasks have one priority, so that they are   *)
(* interchangeable, or two. Their addresses hash to one bucket, or that of *)
(* one task to a bucket of its own.                                        *)
(***************************************************************************)
EXTENDS StochasticScheduler, TLC

OnePriority == [t \in Tasks |-> 2]
Favourite == CHOOSE t \in Tasks : TRUE
TwoPriorities == [t \in Tasks |-> IF t = Favourite THEN 1 ELSE 2]
OneBucket == [t \in Tasks |-> 1]
TwoBuckets == [t \in Tasks |-> IF t = Favourite THEN 1 ELSE 2]
Symmetry == Permutations(Tasks)
===============================================================================
