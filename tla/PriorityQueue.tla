---------------------------- MODULE PriorityQueue ----------------------------
(***************************************************************************)
(* What a heap of DataStructures/heap.h promises to its users: whatever is *)
(* added stays until it is removed; who only ever asks for the next node   *)
(* gets one of the smallest. Once somebody has drawn a node by its place   *)
(* or by its content, the order is not promised any more.                  *)
(***************************************************************************)
EXTENDS Naturals, FiniteSets

CONSTANTS Elements, Values, MaxNodes

VARIABLES queued, \* the nodes: contents with their values
          drawn   \* a node was drawn out of turn

Init == queued = {} /\ drawn = FALSE

Add == /\ Cardinality(queued) < MaxNodes
       /\ \E c \in Elements, v \in Values :
            /\ \A node \in queued : node.content # c
            /\ queued' = queued \cup {[content |-> c, value |-> v]}
       /\ UNCHANGED drawn

Remove == /\ \E next \in queued :
               /\ drawn \/ \A node \in queued : next.value <= node.value
               /\ queued' = queued \ {next}
          /\ UNCHANGED drawn

Draw == /\ \E node \in queued : queued' = queued \ {node}
        /\ drawn' = TRUE

Next == Add \/ Remove \/ Draw

Spec == Init /\ [][Next]_<<queued, drawn>>
===============================================================================
