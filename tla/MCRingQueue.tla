----------------------------- MODULE MCRingQueue -----------------------------
(***************************************************************************)
(* Model checking of RingQueue: a ring of four slots, so that each pointer *)
(* laps the other, and three distinguishable words.                        *)
(***************************************************************************)
EXTENDS RingQueue

CONSTANTS a, b
===============================================================================
