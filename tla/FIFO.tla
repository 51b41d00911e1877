-------------------------------- MODULE FIFO --------------------------------
(***************************************************************************)
(* What queue.h promises: a bounded first-in-first-out queue of words.     *)
(* result is what the last call returned to its caller.                    *)
(***************************************************************************)
EXTENDS Naturals, Sequences

CONSTANTS Words, Capacity

VARIABLES contents, result

Done(word) == [ok |-> TRUE, word |-> word]

Init == contents = <<>>

\* A refused call changes nothing but its return code.
Refused == /\ result' = [result EXCEPT !.ok = FALSE]
           /\ UNCHANGED contents

Write(word) == IF Len(contents) < Capacity
               THEN contents' = Append(contents, word) /\ result' = Done(word)
               ELSE Refused

Read == IF contents # <<>>
        THEN contents' = Tail(contents) /\ result' = Done(Head(contents))
        ELSE Refused

Reset == contents' = <<>> /\ UNCHANGED result

Next == (\E word \in Words : Write(word)) \/ Read \/ Reset

Spec == Init /\ [][Next]_<<contents, result>>
===============================================================================
