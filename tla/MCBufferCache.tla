--------------------------- MODULE MCBufferCache ---------------------------
(* BufferCache on small instances. *)
EXTENDS BufferCache, TLC

CONSTANT Blank   \* a block that differs from the others

\* every block holds ones, except Blank: no two buffers agree by chance
Images == {[k \in Block |-> [i \in Part |-> IF k = Blank THEN 0 ELSE 1]]}

\* Processes are alike, and so are the blocks that are only read.
Perms == Permutations(Proc) \cup Permutations(Block \ (WriteBlock \cup {Blank}))

\* bound: at most one block goes bad
OneBad == Cardinality(bad) <= 1
=============================================================================
