------------------------------- MODULE MCPipe -------------------------------
(* Pipe on small instances. *)
EXTENDS Pipe, TLC

\* Readers are alike, and so are writers.
Perms == Permutations(Reader) \cup Permutations(Writer)
=============================================================================
