------------------------------ MODULE Multimap -------------------------------
(***************************************************************************)
(* What DataStructures/hashtable.h promises: a bounded collection of       *)
(* values stored under keys, where a key may hold several values and the   *)
(* newest is found and removed first. answer and valid are what the last   *)
(* call returned, with the mode of a put.                                  *)
(***************************************************************************)
EXTENDS Naturals, Sequences

CONSTANTS Keys, Values, NULL, Modes, maximumCapacity

VARIABLES stored,   \* the values of each key, newest first
          room,     \* how many more are accepted
          answer, valid

Init == stored = [k \in Keys |-> <<>>] /\ room = maximumCapacity
        /\ answer = NULL /\ valid = FALSE

Has(k, v) == \E i \in DOMAIN stored[k] : stored[k][i] = v

\* A value in any key's list is reason enough for "distinct" to refuse it.
MayRefuse(k, v, mode) == CASE mode = "any" -> FALSE
                           [] mode = "oneValue" -> stored[k] # <<>>
                           [] mode = "distinct" -> \E l \in Keys : Has(l, v)
MustRefuse(k, v, mode) == \/ room = 0
                          \/ mode = "oneValue" /\ stored[k] # <<>>
                          \/ mode = "distinct" /\ Has(k, v)

Put(k, v, mode) ==
  /\ \/ /\ ~MustRefuse(k, v, mode) /\ answer' = <<mode, TRUE>>
        /\ stored' = [stored EXCEPT ![k] = <<v>> \o @] /\ room' = room - 1
     \/ /\ MustRefuse(k, v, mode) \/ MayRefuse(k, v, mode)
        /\ answer' = <<mode, FALSE>> /\ UNCHANGED <<stored, room>>
  /\ UNCHANGED valid

Returns(found, value) == valid' = found /\ answer' = (IF found THEN value ELSE NULL)

\* The n-th newest value of a key, counted from 0.
GetNth(k, n) == /\ Returns(n < Len(stored[k]), stored[k][n + 1])
                /\ UNCHANGED <<stored, room>>

Remove(k) == /\ Returns(stored[k] # <<>>, Head(stored[k]))
             /\ IF stored[k] = <<>> THEN UNCHANGED <<stored, room>>
                ELSE stored' = [stored EXCEPT ![k] = Tail(@)] /\ room' = room + 1

\* The newest value of some key, or none.
Peek == /\ Returns(FALSE, NULL) \/ \E k \in Keys : stored[k] # <<>> /\ Returns(TRUE, Head(stored[k]))
        /\ UNCHANGED <<stored, room>>

Next == \/ \E k \in Keys, v \in Values, mode \in Modes : Put(k, v, mode)
        \/ \E k \in Keys, n \in 0 .. maximumCapacity - 1 : GetNth(k, n)
        \/ \E k \in Keys : Remove(k)
        \/ Peek

Spec == Init /\ [][Next]_<<stored, room, answer, valid>>
===============================================================================
