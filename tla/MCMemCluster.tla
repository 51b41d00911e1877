---------------------------- MODULE MCMemCluster -----------------------------
(***************************************************************************)
(* An instance of the memory cluster: two pools, of blocks of one word and *)
(* of two, in a memory that makes room for four blocks; t2 and t3 run in   *)
(* the last two of them, and may exit. OneAndEight and NoStacks are for    *)
(* the claims that the README refutes.                                     *)
(***************************************************************************)
EXTENDS MemCluster

CONSTANTS t1, t2, t3

OneAndTwo == <<1, 2>>
OneAndEight == <<1, 8>>
StacksOfT2T3 == [t \in Tasks |-> CASE t = t3 -> Head(FreeAtFirst[1])
                                 [] t = t2 -> Head(FreeAtFirst[2])
                                 [] OTHER -> NULL]
NoStacks == [t \in Tasks |-> NULL]
===============================================================================
