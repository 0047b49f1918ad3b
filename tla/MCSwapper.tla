---------------------------- MODULE MCSwapper ----------------------------
(* Swapper on small instances. *)
EXTENDS Swapper
=============================================================================
