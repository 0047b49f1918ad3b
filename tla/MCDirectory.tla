----------------------------- MODULE MCDirectory -----------------------------
(* Directory on small instances. *)
EXTENDS Directory, TLC

CONSTANTS p1, p2

\* one process removes names, the other one adds links
OneUnlinks == p1 :> {"creat", "unlink"}
              @@ p2 :> {"open", "creat", "link"}

\* both processes remove names
BothUnlink == [p \in Proc |-> {"open", "creat", "link", "unlink"}]

\* one process does everything
OneProc == p1 :> {"open", "creat", "link", "unlink"}

\* names of two slots each, two of them with the same first slot
LongNames == {<<"a", "x">>, <<"a", "y">>}

\* two names of one slot and one of two
MixedNames == {<<"a">>, <<"b">>, <<"c", "x">>}
=============================================================================
