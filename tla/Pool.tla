-------------------------------- MODULE Pool --------------------------------
(***************************************************************************)
(* What an allocator of contiguous areas promises its clients: an area is  *)
(* made of units nobody else has, an area can be cut or given back, and a  *)
(* request fails only if no run of units is long enough.  The managers of  *)
(* mm/PageManager.cpp and mm/SwapperManager.cpp implement it (Allocator).  *)
(***************************************************************************)
EXTENDS Integers

CONSTANTS
  Client,   \* those who hold areas: images of processes, texts
  UNIT,     \* bytes of a unit: PAGE_SIZE or BLOCK_SIZE
  START,    \* first unit of the pool
  POOL,     \* units of the pool
  MaxBytes, \* bound: bytes of an area
  NoArea    \* a client without an area

VARIABLES
  free,  \* the free units
  held,  \* the area of each client: its first unit and its bytes
  ret    \* what a request returned in this step: a unit, or 0 if it failed

vars == <<free, held, ret>>

Units == START .. START + POOL - 1
Sizes == 1 .. MaxBytes
NoRet == -1  \* after a step that is no request

\* the units that n bytes take
Count(n) == (n + UNIT - 1) \div UNIT

\* the n units from a on
Run(a, n) == a .. a + n - 1

\* the units of an area
AreaUnits(h) == Run(h.addr, Count(h.size))

\* The starts of the runs of n units that c could get, if it gives back its
\* area only after it has the new one.
Fits(n) == {a \in Units : Run(a, n) \subseteq free}

Init ==
  /\ free = Units
  /\ held = [c \in Client |-> NoArea]
  /\ ret = NoRet

Holds(c, a, n) == held' = [held EXCEPT ![c] = [addr |-> a, size |-> n]]

Get(c, n) ==
  /\ held[c] = NoArea
  /\ \E a \in Fits(Count(n)) : /\ free' = free \ Run(a, Count(n))
                               /\ Holds(c, a, n)
                               /\ ret' = a

Fail(c, n) ==
  /\ held[c] = NoArea
  /\ Fits(Count(n)) = {}
  /\ ret' = 0
  /\ UNCHANGED <<free, held>>

Put(c) ==
  /\ held[c] # NoArea
  /\ free' = free \cup AreaUnits(held[c])
  /\ held' = [held EXCEPT ![c] = NoArea]
  /\ ret' = NoRet

\* the area keeps its start and loses the units that n bytes do not need
Cut(c, n) ==
  /\ held[c] # NoArea /\ n <= held[c].size
  /\ free' = free \cup (AreaUnits(held[c]) \ Run(held[c].addr, Count(n)))
  /\ Holds(c, held[c].addr, n)
  /\ ret' = NoRet

\* the area becomes larger, in another place
Move(c, n) ==
  /\ held[c] # NoArea /\ n > held[c].size
  /\ \E a \in Fits(Count(n)) :
       /\ free' = (free \ Run(a, Count(n))) \cup AreaUnits(held[c])
       /\ Holds(c, a, n)
       /\ ret' = a

\* there is no room for the larger area; the client loses its own
MoveFail(c, n) ==
  /\ held[c] # NoArea /\ n > held[c].size
  /\ Fits(Count(n)) = {}
  /\ free' = free \cup AreaUnits(held[c])
  /\ held' = [held EXCEPT ![c] = NoArea]
  /\ ret' = 0

Next ==
  \E c \in Client :
    \/ Put(c)
    \/ \E n \in Sizes : \/ Get(c, n) \/ Fail(c, n) \/ Cut(c, n)
                        \/ Move(c, n) \/ MoveFail(c, n)

Spec == Init /\ [][Next]_vars
=============================================================================
