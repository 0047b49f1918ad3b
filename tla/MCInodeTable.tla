---------------------------- MODULE MCInodeTable ----------------------------
(* InodeTable on small instances. *)
EXTENDS InodeTable, TLC

\* Processes are alike.
Perms == Permutations(Proc)
=============================================================================
