---------------------------- MODULE MCFreeBlocks ----------------------------
(* FreeBlocks on small instances. *)
EXTENDS FreeBlocks, TLC

\* Processes are alike, and so are blocks.
Perms == Permutations(Proc) \cup Permutations(Block)
=============================================================================
