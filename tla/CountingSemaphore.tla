-------------------------- MODULE CountingSemaphore --------------------------
(***************************************************************************)
(* What a semaphore promises: each call of acquire takes exactly one token *)
(* and each call of release places exactly one, at a single moment between *)
(* call and return, and the tokens stay between 0 and the maximum.         *)
(***************************************************************************)
EXTENDS Naturals

CONSTANTS Tasks, Initial, MaxTokens

VARIABLES tokens, phase

Init == /\ tokens = Initial
        /\ phase = [t \in Tasks |-> "idle"]

Call(t) == /\ phase[t] = "idle"
           /\ \/ phase' = [phase EXCEPT ![t] = "acquiring"]
              \/ phase' = [phase EXCEPT ![t] = "releasing"]
           /\ UNCHANGED tokens

Take(t) == /\ phase[t] = "acquiring" /\ tokens > 0
           /\ tokens' = tokens - 1
           /\ phase' = [phase EXCEPT ![t] = "served"]

Place(t) == /\ phase[t] = "releasing" /\ tokens < MaxTokens
            /\ tokens' = tokens + 1
            /\ phase' = [phase EXCEPT ![t] = "served"]

Return(t) == /\ phase[t] = "served"
             /\ phase' = [phase EXCEPT ![t] = "idle"]
             /\ UNCHANGED tokens

Next == \E t \in Tasks : Call(t) \/ Take(t) \/ Place(t) \/ Return(t)

Spec == Init /\ [][Next]_<<tokens, phase>>
===============================================================================
