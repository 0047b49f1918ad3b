----------------------------- MODULE MCAllocator -----------------------------
(* Allocator on small instances. *)
EXTENDS Allocator

\* Clients are alike.
Perms == Permutations(Client)
=============================================================================
