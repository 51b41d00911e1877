-------------------------- MODULE MCChannelManager ---------------------------
(***************************************************************************)
(* Instances of the channel manager: one ID more than there are channels,  *)
(* so that the list runs empty and somebody still asks.                    *)
(***************************************************************************)
EXTENDS ChannelManager, TLC

Symmetry == Permutations(Tasks) \cup Permutations(Channels) \cup Permutations(IDs)
===============================================================================
