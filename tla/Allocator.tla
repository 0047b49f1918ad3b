------------------------------ MODULE Allocator ------------------------------
(***************************************************************************)
(* The allocator of memory and of swap space (mm/Allocator.cpp) with its   *)
(* managers (mm/PageManager.cpp, mm/SwapperManager.cpp) and its main       *)
(* client Process::Expand (proc/Process.cpp).                              *)
(*                                                                         *)
(* A map is an array of nodes for the free areas, in the order of their    *)
(* addresses, that ends at the first node of size 0; the entries after     *)
(* that one are 0 as well, so the array is a sequence here.  The search is *)
(* "next fit": it starts where the last one ended.  Calls do not sleep and *)
(* the kernel is not preempted: each is one action.  Managers take bytes   *)
(* and addresses and turn them into units, rounding sizes up and addresses *)
(* down.                                                                   *)
(***************************************************************************)
EXTENDS Integers, FiniteSets, SequencesExt

CONSTANTS
  Client,   \* those who hold areas: images of processes, texts
  UNIT,     \* bytes of a unit: PAGE_SIZE or BLOCK_SIZE
  START,    \* first unit of the pool
  POOL,     \* units of the pool
  MAPSIZE,  \* nodes of the array
  MaxBytes, \* bound: bytes of an area
  ShrinkTo, \* bound: bytes an image may shrink to
  NoArea    \* a client without an area

ASSUME AllocatorAssumption ==
  /\ UNIT \in Nat \ {0} /\ START \in Nat \ {0} /\ POOL \in Nat \ {0}
  /\ MaxBytes \in Nat /\ ShrinkTo \subseteq 1 .. MaxBytes
  /\ MAPSIZE \in Nat
  /\ NoArea \notin [addr : Int, size : Int]

VARIABLES
  map,        \* the nodes before the end, m_AddressIdx and m_Size
  beginNode,  \* index of the node where the next search starts
  held,       \* the area of each client: its first unit and its bytes
  ret         \* what Alloc returned in this step: a unit, or 0

mapVars == <<map, beginNode, held, ret>>

NoRet == -1  \* after a step without Alloc

Node(a, n) == [addr |-> a, size |-> n]

----------------------------------------------------------------------------
(* Allocator *)

\* the least element of a set of numbers
Least(S) == CHOOSE i \in S : \A j \in S : i <= j

\* mutant: the search never goes back to the start of the map
FindForward(n) ==
  LET Big == {i \in DOMAIN map : i >= beginNode /\ map[i].size >= n}
  IN  IF Big = {} THEN 0 ELSE Least(Big)

\* The node an area of n units is taken from: the first large enough from
\* beginNode on, or else from the start on; 0 if there is none.
Find(n) ==
  LET Big == {i \in DOMAIN map : map[i].size >= n}
      Ahead == {i \in Big : i >= beginNode}
  IN  IF Ahead # {} THEN Least(Ahead) ELSE IF Big # {} THEN Least(Big) ELSE 0

\* mutant: a node that is used up stays in the map
TakenKept(i, n) == [map EXCEPT ![i] = Node(@.addr + n, @.size - n)]

\* the map after n units were taken from node i
Taken(i, n) ==
  IF map[i].size = n
  THEN RemoveAt(map, i)
  ELSE [map EXCEPT ![i] = Node(@.addr + n, @.size - n)]

\* where the search starts after that
Advanced(i, n) == IF map[i].size = n THEN i ELSE i + 1

\* mutant: an area is not merged with the one after it
FreedApart(m, n, a) ==
  LET i    == Least({j \in DOMAIN m : m[j].addr > a} \cup {Len(m) + 1})
      prev == i > 1 /\ a = m[i - 1].addr + m[i - 1].size
  IN  IF prev THEN [m EXCEPT ![i - 1].size = @ + n]
      ELSE IF n > 0 THEN InsertAt(m, i, Node(a, n)) ELSE m

\* Allocator::Free: the map m after the n units from a on were given back.
\* The area is merged with the node before it, with the one after it, or
\* with both, or becomes a node of its own.
Freed(m, n, a) ==
  LET i    == Least({j \in DOMAIN m : m[j].addr > a} \cup {Len(m) + 1})
      prev == i > 1 /\ a = m[i - 1].addr + m[i - 1].size
      next == i <= Len(m) /\ a + n = m[i].addr
  IN  CASE prev /\ next   -> RemoveAt([m EXCEPT ![i - 1].size = @ + n + m[i].size], i)
        [] prev /\ ~ next -> [m EXCEPT ![i - 1].size = @ + n]
        [] ~ prev /\ next -> [m EXCEPT ![i] = Node(a, @.size + n)]
        [] OTHER -> IF n > 0 THEN InsertAt(m, i, Node(a, n)) ELSE m

----------------------------------------------------------------------------
(* The managers *)

\* the units of n bytes
Count(n) == (n + UNIT - 1) \div UNIT

\* AllocMemory, AllocSwap: c gets n bytes
AllocMemory(c, n) ==
  LET i == Find(Count(n)) IN
  /\ held[c] = NoArea
  /\ i # 0
  /\ map' = Taken(i, Count(n))
  /\ beginNode' = Advanced(i, Count(n))
  /\ ret' = map[i].addr
  /\ held' = [held EXCEPT ![c] = Node(map[i].addr, n)]

AllocFails(c, n) ==
  /\ held[c] = NoArea
  /\ Find(Count(n)) = 0
  /\ ret' = 0
  /\ UNCHANGED <<map, beginNode, held>>

\* FreeMemory, FreeSwap: c gives its area back
FreeMemory(c) ==
  /\ held[c] # NoArea
  /\ map' = Freed(map, Count(held[c].size), held[c].addr)
  /\ held' = [held EXCEPT ![c] = NoArea]
  /\ ret' = NoRet
  /\ UNCHANGED beginNode

----------------------------------------------------------------------------
(* Process::Expand *)

\* The image shrinks to n bytes: what is past them is given back, its address
\* rounded down and its size rounded up.
ExpandShrink(c, n) ==
  LET h == held[c] IN
  /\ h # NoArea /\ h.size >= n
  /\ map' = Freed(map, Count(h.size - n), (h.addr * UNIT + n) \div UNIT)
  /\ held' = [held EXCEPT ![c] = Node(h.addr, n)]
  /\ ret' = NoRet
  /\ UNCHANGED beginNode

\* The image grows: a new area is taken, the image is copied, the old area is
\* given back.
ExpandGrow(c, n) ==
  LET h == held[c]
      i == Find(Count(n)) IN
  /\ h # NoArea /\ n > h.size
  /\ i # 0
  /\ map' = Freed(Taken(i, Count(n)), Count(h.size), h.addr)
  /\ beginNode' = Advanced(i, Count(n))
  /\ held' = [held EXCEPT ![c] = Node(map[i].addr, n)]
  /\ ret' = map[i].addr

\* There is no room: XSwap writes the image to the swap area and gives its
\* memory back by its old size.
ExpandSwap(c, n) ==
  LET h == held[c] IN
  /\ h # NoArea /\ n > h.size
  /\ Find(Count(n)) = 0
  /\ map' = Freed(map, Count(h.size), h.addr)
  /\ held' = [held EXCEPT ![c] = NoArea]
  /\ ret' = 0
  /\ UNCHANGED beginNode

----------------------------------------------------------------------------
\* Initialize: one node holds the pool
MapInit ==
  /\ map = <<Node(START, POOL)>>
  /\ beginNode = 1
  /\ held = [c \in Client |-> NoArea]
  /\ ret = NoRet

MapNext ==
  \E c \in Client :
    \/ FreeMemory(c)
    \/ \E n \in 1 .. MaxBytes : \/ AllocMemory(c, n) \/ AllocFails(c, n)
                               \/ ExpandGrow(c, n) \/ ExpandSwap(c, n)
    \/ \E n \in ShrinkTo : ExpandShrink(c, n)

MapSpec == MapInit /\ [][MapNext]_mapVars

----------------------------------------------------------------------------
(* Properties *)

\* the units of node i, and of an area
NodeUnits(i) == map[i].addr .. map[i].addr + map[i].size - 1
AreaUnits(h) == h.addr .. h.addr + Count(h.size) - 1

FreeUnits == UNION {NodeUnits(i) : i \in DOMAIN map}

\* the clients with an area
Holders == {c \in Client : held[c] # NoArea}

MapTypeOK ==
  /\ map \in Seq([addr : Nat, size : Nat])
  /\ beginNode \in 1 .. MAPSIZE
  /\ held \in [Client -> [addr : Nat, size : 1 .. MaxBytes] \cup {NoArea}]
  /\ ret \in {NoRet, 0} \cup START .. START + POOL - 1

\* The map is in order and fully merged: between two nodes there is at least
\* one unit that is in use.  A node left empty or two nodes that touch would
\* end the array early or hide room from requests.
Merged ==
  /\ \A i \in DOMAIN map : map[i].size > 0
  /\ \A i \in 1 .. Len(map) - 1 :
       map[i].addr + map[i].size < map[i + 1].addr

\* No unit is used twice: areas are disjoint, and what is free is in nobody's
\* area (Expand gives back only what the smaller image does not need).
OneUse ==
  /\ \A c, d \in Holders :
       c # d => AreaUnits(held[c]) \cap AreaUnits(held[d]) = {}
  /\ \A c \in Holders : AreaUnits(held[c]) \cap FreeUnits = {}

\* The array is never too short for its nodes and the end mark: Free, which
\* does not look at the size of the array, adds a node only between areas in
\* use, so there are at most as many nodes as areas, and one more.
MapFits == Len(map) <= Cardinality(Holders) + 1 /\ Len(map) < MAPSIZE

\* The map, the search and the merging together are an allocator: no unit is
\* lost or given out twice, and a request fails only if there is no run of
\* free units of its length, wherever the search begins.
Area == INSTANCE Pool WITH free <- FreeUnits
IsPool == Area!Spec
=============================================================================
