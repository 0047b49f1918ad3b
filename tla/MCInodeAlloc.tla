---------------------------- MODULE MCInodeAlloc ----------------------------
(* InodeAlloc on small instances. *)
EXTENDS InodeAlloc, TLC

\* Processes are alike.
Perms == Permutations(Proc)
=============================================================================
