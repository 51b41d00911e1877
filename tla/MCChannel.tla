------------------------------ MODULE MCChannel ------------------------------
(***************************************************************************)
(* Instances of the channel: three tasks that read and write, two words to *)
(* tell apart, and channels of every capacity the ring has room for.       *)
(***************************************************************************)
EXTENDS Channel

CONSTANTS a
===============================================================================
