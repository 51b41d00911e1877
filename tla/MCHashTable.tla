----------------------------- MODULE MCHashTable -----------------------------
(***************************************************************************)
(* Instances of the hash table: three cells, two keys that collide and one *)
(* that does not, and two values, one of them NULL.                        *)
(***************************************************************************)
EXTENDS HashTable, TLC

CONSTANTS k1, k2, k3, v

TwoCollide == k1 :> 0 @@ k2 :> 2 @@ k3 :> 3
===============================================================================
