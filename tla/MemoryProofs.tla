---------------------------- MODULE MemoryProofs ----------------------------
(***************************************************************************)
(* Main memory and the swap area.  First part: Allocator implements Pool,  *)
(* and its map stays merged and fits its array, for every set of clients,  *)
(* unit and pool.  Second part: the safety properties of Swapper, which    *)
(* counts the pages that Allocator places, for every size of the process   *)
(* table, of the memory and of the swap area, and every length of sleep.   *)
(***************************************************************************)
EXTENDS Allocator, Swapper, SequenceTheorems, FiniteSetTheorems, WellFoundedInduction, TLAPS

----------------------------------------------------------------------------
(* Hypotheses and the inductive invariant *)

\* Images shrink to whole units.  (Expand frees the unit its new end is in
\* otherwise, although the image still uses it.)
WholeUnits == \A n \in ShrinkTo : \E k \in Nat : n = k * UNIT

\* The array has a node for every client, one more, and the end mark.
RoomInArray == IsFiniteSet(Client) /\ Cardinality(Client) + 1 < MAPSIZE

Nodes == [addr : Nat, size : Nat]
Areas == [addr : Nat, size : 1 .. MaxBytes] \cup {NoArea}
Units == START .. START + POOL - 1

\* unit u is free in map m; u is in the area h
In(m, u)  == \E i \in DOMAIN m : u \in m[i].addr .. m[i].addr + m[i].size - 1
Uses(h, u) == h # NoArea /\ u \in AreaUnits(h)

\* the nodes are in order, none is empty and no two of them touch
Sorted(m) ==
  /\ \A i \in DOMAIN m : m[i].size > 0
  /\ \A i, j \in DOMAIN m : i < j => m[i].addr + m[i].size < m[j].addr

\* the units of the pool are those that are free or in an area
Covered ==
  \A u \in Int : u \in Units <=> In(map, u) \/ \E c \in Client : Uses(held[c], u)

MapTypes ==
  /\ map \in Seq(Nodes)
  /\ beginNode \in Nat \ {0}
  /\ held \in [Client -> Areas]
  /\ ret \in {NoRet, 0} \cup Units

IndInv == MapTypes /\ Sorted(map) /\ OneUse /\ Covered

----------------------------------------------------------------------------
(* Arithmetic *)

LEMMA Division ==
  ASSUME NEW x \in Nat
  PROVE  /\ x \div UNIT \in Nat
         /\ (x \div UNIT) * UNIT <= x /\ x < (x \div UNIT) * UNIT + UNIT
BY AllocatorAssumption

LEMMA Times ==
  ASSUME NEW a \in Nat, NEW b \in Nat, a <= b
  PROVE  a * UNIT \in Nat /\ a * UNIT <= b * UNIT
<1>1. PICK d \in Nat : b = a + d
  <2>1. b - a \in Nat /\ b = a + (b - a)
    OBVIOUS
  <2> QED BY <2>1
<1>2. d * UNIT \in Nat /\ a * UNIT \in Nat
  BY AllocatorAssumption
<1>3. b * UNIT = a * UNIT + d * UNIT
  BY <1>1, AllocatorAssumption
<1> QED BY <1>2, <1>3

\* a quotient is the only number with its multiple that near
LEMMA Quotient ==
  ASSUME NEW x \in Nat, NEW q \in Nat, q * UNIT <= x, x < q * UNIT + UNIT
  PROVE  x \div UNIT = q
<1> DEFINE r == x \div UNIT
<1>1. r \in Nat /\ r * UNIT <= x /\ x < r * UNIT + UNIT
  BY Division
<1> HIDE DEF r
<1>2. q * UNIT \in Nat /\ r * UNIT \in Nat
  BY <1>1, AllocatorAssumption
<1>3. ASSUME NEW a \in Nat, NEW b \in Nat, a < b
      PROVE  a * UNIT + UNIT <= b * UNIT
  <2>1. (a + 1) * UNIT <= b * UNIT
    BY <1>3, Times
  <2>2. (a + 1) * UNIT = a * UNIT + UNIT /\ a * UNIT \in Nat /\ b * UNIT \in Nat
    BY AllocatorAssumption
  <2> QED BY <2>1, <2>2, AllocatorAssumption
<1>4. ~ q < r
  <2>1. q < r => q * UNIT + UNIT <= r * UNIT
    BY <1>1, <1>3
  <2> QED BY <2>1, <1>1, <1>2, AllocatorAssumption
<1>5. ~ r < q
  <2>1. r < q => r * UNIT + UNIT <= q * UNIT
    BY <1>1, <1>3
  <2> QED BY <2>1, <1>1, <1>2, AllocatorAssumption
<1>6. r = q
  BY <1>1, <1>4, <1>5
<1> QED BY <1>6 DEF r

LEMMA CountType ==
  ASSUME NEW n \in Nat \ {0}
  PROVE  Count(n) \in Nat \ {0}
<1>1. n + UNIT - 1 \in Nat /\ n + UNIT - 1 >= UNIT
  BY AllocatorAssumption
<1>2. Count(n) \in Nat /\ n + UNIT - 1 < Count(n) * UNIT + UNIT
  BY <1>1, Division DEF Count
<1>3. Count(n) # 0
  <2>1. 0 * UNIT = 0
    BY AllocatorAssumption
  <2> QED BY <1>1, <1>2, <2>1, AllocatorAssumption
<1> QED BY <1>2, <1>3

\* whole units and the rest of an area
LEMMA CountSplit ==
  ASSUME NEW k \in Nat, NEW r \in Nat
  PROVE  /\ Count(k * UNIT) = k
         /\ Count(r) \in Nat
         /\ Count(k * UNIT + r) = k + Count(r)
<1> DEFINE x == r + UNIT - 1
<1>1. x \in Nat /\ UNIT - 1 \in Nat /\ k * UNIT \in Nat
  BY AllocatorAssumption
<1>2. /\ Count(r) \in Nat
      /\ Count(r) * UNIT <= x /\ x < Count(r) * UNIT + UNIT
  BY <1>1, Division DEF Count
<1>3. Count(r) * UNIT \in Nat /\ (k + Count(r)) * UNIT = k * UNIT + Count(r) * UNIT
  BY <1>2, AllocatorAssumption
<1>4. (k * UNIT + x) \div UNIT = k + Count(r)
  <2>1. k * UNIT + x \in Nat /\ k + Count(r) \in Nat
    BY <1>1, <1>2
  <2>2. /\ (k + Count(r)) * UNIT <= k * UNIT + x
        /\ k * UNIT + x < (k + Count(r)) * UNIT + UNIT
    <3> HIDE DEF x
    <3> QED BY <1>1, <1>2, <1>3, AllocatorAssumption
  <2> QED BY <2>1, <2>2, Quotient
<1>5. Count(k * UNIT + r) = k + Count(r)
  <2>1. k * UNIT + r + UNIT - 1 = k * UNIT + x
    BY <1>1, AllocatorAssumption
  <2> QED BY <2>1, <1>4 DEF Count
<1>6. (k * UNIT + (UNIT - 1)) \div UNIT = k
  <2>1. k * UNIT + (UNIT - 1) \in Nat
    BY <1>1
  <2> QED BY <2>1, <1>1, Quotient, AllocatorAssumption
<1>7. Count(k * UNIT) = k
  <2>1. k * UNIT + UNIT - 1 = k * UNIT + (UNIT - 1)
    BY <1>1, AllocatorAssumption
  <2> QED BY <1>6, <2>1 DEF Count
<1> QED BY <1>2, <1>5, <1>7

\* the unit that an address k units into an area is in
LEMMA UnitOf ==
  ASSUME NEW a \in Nat, NEW k \in Nat
  PROVE  (a * UNIT + k * UNIT) \div UNIT = a + k
<1>1. a * UNIT + k * UNIT = (a + k) * UNIT /\ (a + k) * UNIT \in Nat
  BY AllocatorAssumption
<1> QED BY <1>1, Quotient, AllocatorAssumption

\* the least of a set of numbers
LEMMA LeastIs ==
  ASSUME NEW S, S \subseteq Nat, S # {}
  PROVE  Least(S) \in S /\ \A j \in S : Least(S) <= j
<1>1. PICK n \in S : \A m \in S : ~ (<<m, n>> \in OpToRel(<, Nat))
  BY NatLessThanWellFounded, WFMin, Zenon
<1>2. \A m \in S : ~ (m < n)
  BY <1>1 DEF OpToRel
<1>3. \E i \in S : \A j \in S : i <= j
  BY <1>2
<1> QED BY <1>3 DEF Least

\* the units of a run without the first k of them
LEMMA RunCut ==
  ASSUME NEW x \in Nat, NEW y \in Nat, NEW v \in Nat, NEW w \in Nat, NEW k \in Nat,
         v = x + k, v + w = x + y, NEW u \in Int
  PROVE  u \in v .. v + w - 1 <=> (u \in x .. x + y - 1 /\ u \notin x .. x + k - 1)
OBVIOUS

----------------------------------------------------------------------------
(* Sequences of nodes *)

LEMMA Removed ==
  ASSUME NEW S, NEW s \in Seq(S), NEW i \in 1 .. Len(s)
  PROVE  /\ RemoveAt(s, i) \in Seq(S)
         /\ Len(RemoveAt(s, i)) = Len(s) - 1
         /\ \A j \in 1 .. Len(s) - 1 :
              RemoveAt(s, i)[j] = IF j < i THEN s[j] ELSE s[j + 1]
<1> DEFINE a == SubSeq(s, 1, i - 1)
           b == SubSeq(s, i + 1, Len(s))
<1>0. Len(s) \in Nat /\ i \in Nat /\ 1 <= i /\ i <= Len(s)
  OBVIOUS
<1>1. /\ a \in Seq(S) /\ Len(a) = i - 1
      /\ \A j \in 1 .. i - 1 : a[j] = s[j]
  <2>1. \A j \in 1 .. i - 1 : s[j] \in S
    OBVIOUS
  <2>2. /\ a \in Seq(S) /\ Len(a) = IF 1 <= i - 1 THEN i - 1 - 1 + 1 ELSE 0
        /\ \A j \in 1 .. i - 1 - 1 + 1 : a[j] = s[1 + j - 1]
    BY <2>1, SubSeqProperties
  <2>3. \A j \in 1 .. i - 1 : 1 + j - 1 = j /\ j \in 1 .. i - 1 - 1 + 1
    BY <1>0
  <2> HIDE DEF a
  <2> QED BY <2>2, <2>3, <1>0
<1>2. /\ b \in Seq(S) /\ Len(b) = Len(s) - i
      /\ \A j \in 1 .. Len(s) - i : b[j] = s[j + i]
  <2>1. \A j \in i + 1 .. Len(s) : s[j] \in S
    OBVIOUS
  <2>2. /\ b \in Seq(S) /\ Len(b) = IF i + 1 <= Len(s) THEN Len(s) - (i + 1) + 1 ELSE 0
        /\ \A j \in 1 .. Len(s) - (i + 1) + 1 : b[j] = s[(i + 1) + j - 1]
    BY <2>1, SubSeqProperties
  <2> HIDE DEF b
  <2> QED BY <2>2
<1>3. RemoveAt(s, i) = a \o b
  BY DEF RemoveAt
<1> HIDE DEF a, b
<1>4. /\ a \o b \in Seq(S) /\ Len(a \o b) = Len(a) + Len(b)
      /\ \A j \in 1 .. Len(a) + Len(b) : (a \o b)[j] = IF j <= Len(a) THEN a[j] ELSE b[j - Len(a)]
  BY <1>1, <1>2, ConcatProperties
<1>5. ASSUME NEW j \in 1 .. Len(s) - 1
      PROVE  (a \o b)[j] = IF j < i THEN s[j] ELSE s[j + 1]
  <2>1. j \in 1 .. Len(a) + Len(b)
    BY <1>1, <1>2
  <2>2. CASE j < i
    BY <2>1, <2>2, <1>1, <1>4
  <2>3. CASE ~ j < i
    <3>1. (a \o b)[j] = b[j - Len(a)]
      BY <2>1, <2>3, <1>1, <1>4
    <3>2. j - Len(a) \in 1 .. Len(s) - i /\ j - Len(a) + i = j + 1
      BY <2>3, <1>1
    <3> QED BY <2>3, <3>1, <3>2, <1>2
  <2> QED BY <2>2, <2>3
<1> QED BY <1>1, <1>2, <1>3, <1>4, <1>5

LEMMA Inserted ==
  ASSUME NEW S, NEW s \in Seq(S), NEW i \in 1 .. Len(s) + 1, NEW e \in S
  PROVE  /\ InsertAt(s, i, e) \in Seq(S)
         /\ Len(InsertAt(s, i, e)) = Len(s) + 1
         /\ \A j \in 1 .. Len(s) + 1 :
              InsertAt(s, i, e)[j] = IF j < i THEN s[j] ELSE IF j = i THEN e ELSE s[j - 1]
<1> DEFINE a == SubSeq(s, 1, i - 1)
           b == SubSeq(s, i, Len(s))
<1>0. Len(s) \in Nat /\ i \in Nat /\ 1 <= i /\ i <= Len(s) + 1
  OBVIOUS
<1>1. /\ a \in Seq(S) /\ Len(a) = i - 1
      /\ \A j \in 1 .. i - 1 : a[j] = s[j]
  <2>1. \A j \in 1 .. i - 1 : s[j] \in S
    OBVIOUS
  <2>2. /\ a \in Seq(S) /\ Len(a) = IF 1 <= i - 1 THEN i - 1 - 1 + 1 ELSE 0
        /\ \A j \in 1 .. i - 1 - 1 + 1 : a[j] = s[1 + j - 1]
    BY <2>1, SubSeqProperties
  <2> HIDE DEF a
  <2> QED BY <2>2, <1>0
<1>2. /\ b \in Seq(S) /\ Len(b) = Len(s) - i + 1
      /\ \A j \in 1 .. Len(s) - i + 1 : b[j] = s[j + i - 1]
  <2>1. \A j \in i .. Len(s) : s[j] \in S
    OBVIOUS
  <2>2. /\ b \in Seq(S) /\ Len(b) = IF i <= Len(s) THEN Len(s) - i + 1 ELSE 0
        /\ \A j \in 1 .. Len(s) - i + 1 : b[j] = s[i + j - 1]
    BY <2>1, SubSeqProperties
  <2> HIDE DEF b
  <2> QED BY <2>2
<1>3. InsertAt(s, i, e) = (a \o <<e>>) \o b
  BY DEF InsertAt
<1> HIDE DEF a, b
<1>e. <<e>> \in Seq(S) /\ Len(<<e>>) = 1 /\ <<e>>[1] = e
  OBVIOUS
<1> DEFINE d == a \o <<e>>
<1>4. /\ d \in Seq(S) /\ Len(d) = i
      /\ \A j \in 1 .. i : d[j] = IF j < i THEN s[j] ELSE e
  <2> HIDE DEF d
  <2>1. /\ d \in Seq(S) /\ Len(d) = Len(a) + 1
        /\ \A j \in 1 .. Len(a) + 1 : d[j] = IF j <= Len(a) THEN a[j] ELSE <<e>>[j - Len(a)]
    BY <1>1, <1>e, ConcatProperties DEF d
  <2>2. ASSUME NEW j \in 1 .. i PROVE d[j] = IF j < i THEN s[j] ELSE e
    <3>1. CASE j < i
      BY <3>1, <2>1, <1>1
    <3>2. CASE j = i
      <4>1. d[j] = <<e>>[j - Len(a)] /\ j - Len(a) = 1
        BY <3>2, <2>1, <1>1
      <4> QED BY <4>1, <3>2, <1>e
    <3> QED BY <3>1, <3>2
  <2> QED BY <2>1, <2>2, <1>1
<1> HIDE DEF d
<1>5. /\ d \o b \in Seq(S) /\ Len(d \o b) = Len(d) + Len(b)
      /\ \A j \in 1 .. Len(d) + Len(b) : (d \o b)[j] = IF j <= Len(d) THEN d[j] ELSE b[j - Len(d)]
  BY <1>4, <1>2, ConcatProperties
<1>6. ASSUME NEW j \in 1 .. Len(s) + 1
      PROVE  (d \o b)[j] = IF j < i THEN s[j] ELSE IF j = i THEN e ELSE s[j - 1]
  <2>1. j \in 1 .. Len(d) + Len(b)
    BY <1>4, <1>2
  <2>2. CASE j <= i
    BY <2>1, <2>2, <1>4, <1>5
  <2>3. CASE j > i
    <3>1. (d \o b)[j] = b[j - i]
      BY <2>1, <2>3, <1>4, <1>5
    <3>2. j - i \in 1 .. Len(s) - i + 1 /\ (j - i) + i - 1 = j - 1
      BY <2>3
    <3> QED BY <2>3, <3>1, <3>2, <1>2
  <2>4. j <= i \/ j > i
    BY <1>0
  <2> QED BY <2>2, <2>3, <2>4
<1>7. Len(d \o b) = Len(s) + 1
  BY <1>0, <1>2, <1>4, <1>5
<1> QED BY <1>3, <1>5, <1>6, <1>7 DEF d

----------------------------------------------------------------------------
(* Alloc and Free *)

\* the fields of the nodes are numbers
LEMMA NodesOf ==
  ASSUME NEW m \in Seq(Nodes)
  PROVE  /\ Len(m) \in Nat /\ DOMAIN m = 1 .. Len(m)
         /\ \A j \in DOMAIN m : m[j].addr \in Nat /\ m[j].size \in Nat
<1>1. Len(m) \in Nat /\ DOMAIN m = 1 .. Len(m)
  OBVIOUS
<1>2. \A j \in DOMAIN m : m[j] \in Nodes
  OBVIOUS
<1>3. \A x \in Nodes : x.addr \in Nat /\ x.size \in Nat
  BY DEF Nodes
<1> QED BY <1>1, <1>2, <1>3

\* no unit is in two nodes
LEMMA OneNode ==
  ASSUME NEW m \in Seq(Nodes), Sorted(m), NEW i \in DOMAIN m, NEW j \in DOMAIN m, NEW u \in Int,
         u \in m[i].addr .. m[i].addr + m[i].size - 1,
         u \in m[j].addr .. m[j].addr + m[j].size - 1
  PROVE  i = j
<1>1. /\ i \in Nat /\ j \in Nat
      /\ m[i].addr \in Nat /\ m[i].size \in Nat /\ m[j].addr \in Nat /\ m[j].size \in Nat
  BY NodesOf
<1>2. /\ i < j => m[i].addr + m[i].size < m[j].addr
      /\ j < i => m[j].addr + m[j].size < m[i].addr
  BY DEF Sorted
<1>3. \A a, s, b, t \in Nat : u \in a .. a + s - 1 /\ u \in b .. b + t - 1 => ~ a + s < b
  OBVIOUS
<1>4. ~ m[i].addr + m[i].size < m[j].addr /\ ~ m[j].addr + m[j].size < m[i].addr
  BY <1>1, <1>3
<1>5. ~ i < j /\ ~ j < i
  BY <1>2, <1>4
<1>6. \A x, y \in Nat : ~ x < y /\ ~ y < x => x = y
  OBVIOUS
<1> QED BY <1>1, <1>5, <1>6

\* a node is taken out of an array
LEMMA NodeRemoved ==
  ASSUME NEW s \in Seq(Nodes), NEW i \in DOMAIN s,
         \A j \in DOMAIN s \ {i} : s[j].size > 0,
         \A j, k \in DOMAIN s \ {i} : j < k => s[j].addr + s[j].size < s[k].addr
  PROVE  /\ RemoveAt(s, i) \in Seq(Nodes)
         /\ Len(RemoveAt(s, i)) <= Len(s)
         /\ Sorted(RemoveAt(s, i))
         /\ \A u : In(RemoveAt(s, i), u) <=>
              \E j \in DOMAIN s \ {i} : u \in s[j].addr .. s[j].addr + s[j].size - 1
<1> DEFINE t == RemoveAt(s, i)
           from(j) == IF j < i THEN j ELSE j + 1
<1>0. DOMAIN s = 1 .. Len(s) /\ Len(s) \in Nat
  BY NodesOf
<1>1. /\ t \in Seq(Nodes) /\ Len(t) = Len(s) - 1
      /\ \A j \in 1 .. Len(s) - 1 : t[j] = IF j < i THEN s[j] ELSE s[j + 1]
  <2>1. i \in 1 .. Len(s)
    BY <1>0
  <2> QED BY <2>1, Removed
<1>2. DOMAIN t = 1 .. Len(s) - 1
  BY <1>1
<1> HIDE DEF t
<1>3. \A j \in DOMAIN t : from(j) \in DOMAIN s \ {i} /\ t[j] = s[from(j)]
  BY <1>0, <1>1, <1>2
<1>4. \A j, k \in DOMAIN t : j < k => from(j) < from(k)
  BY <1>0, <1>2
<1>5. \A k \in DOMAIN s \ {i} : \E j \in DOMAIN t : k = from(j)
  <2>1. ASSUME NEW k \in DOMAIN s, k < i PROVE k \in DOMAIN t /\ k = from(k)
    BY <2>1, <1>0, <1>2
  <2>2. ASSUME NEW k \in DOMAIN s, i < k PROVE k - 1 \in DOMAIN t /\ k = from(k - 1)
    BY <2>2, <1>0, <1>2
  <2> QED BY <2>1, <2>2, <1>0
<1> HIDE DEF from
<1>6. Sorted(t)
  BY <1>3, <1>4 DEF Sorted
<1>7. \A u : In(t, u) <=>
        \E j \in DOMAIN s \ {i} : u \in s[j].addr .. s[j].addr + s[j].size - 1
  BY <1>3, <1>5 DEF In
<1>8. Len(t) <= Len(s)
  BY <1>0, <1>1
<1> QED BY <1>1, <1>6, <1>7, <1>8 DEF t

\* A node is replaced by what is left of it.
LEMMA TakenIs ==
  ASSUME map \in Seq(Nodes), Sorted(map), NEW i \in DOMAIN map,
         NEW n \in Nat \ {0}, n <= map[i].size
  PROVE  /\ Taken(i, n) \in Seq(Nodes)
         /\ Len(Taken(i, n)) <= Len(map)
         /\ Sorted(Taken(i, n))
         /\ \A u \in Int : In(Taken(i, n), u) <=>
              (In(map, u) /\ u \notin map[i].addr .. map[i].addr + n - 1)
<1> DEFINE t == Taken(i, n)
<1>0. /\ DOMAIN map = 1 .. Len(map) /\ Len(map) \in Nat
      /\ map[i].addr \in Nat /\ map[i].size \in Nat
      /\ \A u \in map[i].addr .. map[i].addr + n - 1 : u \in map[i].addr .. map[i].addr + map[i].size - 1
  <2>1. /\ DOMAIN map = 1 .. Len(map) /\ Len(map) \in Nat
        /\ map[i].addr \in Nat /\ map[i].size \in Nat
    BY NodesOf
  <2> QED BY <2>1
<1>1. CASE map[i].size = n
  <2>1. \A j \in DOMAIN map : map[j].size > 0
    BY DEF Sorted
  <2>2. \A j, k \in DOMAIN map : j < k => map[j].addr + map[j].size < map[k].addr
    BY DEF Sorted
  <2>3. /\ t \in Seq(Nodes) /\ Len(t) <= Len(map) /\ Sorted(t)
        /\ \A u : In(t, u) <=>
             \E j \in DOMAIN map \ {i} : u \in map[j].addr .. map[j].addr + map[j].size - 1
    BY <1>1, <2>1, <2>2, NodeRemoved DEF Taken
  <2> HIDE DEF t
  <2>4. ASSUME NEW u \in Int
        PROVE  In(t, u) <=> (In(map, u) /\ u \notin map[i].addr .. map[i].addr + n - 1)
    <3>1. ASSUME NEW j \in DOMAIN map \ {i}, u \in map[j].addr .. map[j].addr + map[j].size - 1
          PROVE  u \notin map[i].addr .. map[i].addr + n - 1
      BY <3>1, <1>1, OneNode
    <3> QED BY <3>1, <2>3, <1>1 DEF In
  <2> QED BY <2>3, <2>4 DEF t
<1>2. CASE map[i].size # n
  <2>1. t = [map EXCEPT ![i] = Node(map[i].addr + n, map[i].size - n)]
    BY <1>2 DEF Taken
  <2>2. Node(map[i].addr + n, map[i].size - n) \in Nodes /\ map[i].size - n > 0
    <3>1. map[i].addr + n \in Nat /\ map[i].size - n \in Nat /\ map[i].size - n > 0
      BY <1>0, <1>2
    <3>2. \A x, y \in Nat : Node(x, y) \in Nodes
      BY DEF Node, Nodes
    <3> QED BY <3>1, <3>2
  <2>3. t \in Seq(Nodes) /\ Len(t) = Len(map)
    BY <2>1, <2>2, <1>0, ExceptSeq
  <2>4. /\ DOMAIN t = DOMAIN map
        /\ \A j \in DOMAIN map : j # i => t[j] = map[j]
        /\ t[i].addr = map[i].addr + n /\ t[i].size = map[i].size - n
    BY <2>1 DEF Node
  <2> HIDE DEF t
  <2>5. \A j \in DOMAIN map : /\ t[j].addr \in Nat /\ t[j].size \in Nat /\ t[j].size > 0
                              /\ map[j].addr <= t[j].addr
                              /\ t[j].addr + t[j].size = map[j].addr + map[j].size
    <3>1. ASSUME NEW j \in DOMAIN map, j # i
          PROVE  t[j] = map[j] /\ map[j].addr \in Nat /\ map[j].size \in Nat /\ map[j].size > 0
      BY <3>1, <2>4, NodesOf DEF Sorted
    <3>2. /\ t[i].addr \in Nat /\ t[i].size \in Nat /\ t[i].size > 0
          /\ map[i].addr <= t[i].addr
          /\ t[i].addr + t[i].size = map[i].addr + map[i].size
      <4>1. /\ map[i].addr + n \in Nat /\ map[i].size - n \in Nat
            /\ map[i].addr <= map[i].addr + n
            /\ (map[i].addr + n) + (map[i].size - n) = map[i].addr + map[i].size
        <5>1. \A x, y \in Nat : y - n > 0 =>
                /\ x + n \in Nat /\ y - n \in Nat
                /\ x <= x + n /\ (x + n) + (y - n) = x + y
          <6>1. n \in Nat
            OBVIOUS
          <6>2. \A x, y, z \in Nat : y - z > 0 =>
                  /\ x + z \in Nat /\ y - z \in Nat
                  /\ x <= x + z /\ (x + z) + (y - z) = x + y
            OBVIOUS
          <6> QED BY <6>1, <6>2
        <5>2. map[i].addr \in Nat /\ map[i].size \in Nat
          BY <1>0
        <5> QED BY <2>2, <5>1, <5>2
      <4> QED BY <2>2, <2>4, <4>1
    <3> QED BY <3>1, <3>2
  <2>6. Sorted(t)
    <3>1. ASSUME NEW j \in DOMAIN map, NEW k \in DOMAIN map, j < k
          PROVE  t[j].addr + t[j].size < t[k].addr
      <4>1. map[j].addr + map[j].size < map[k].addr /\ map[k].addr \in Nat
        BY <3>1, NodesOf DEF Sorted
      <4> QED BY <4>1, <2>5
    <3> QED BY <3>1, <2>4, <2>5 DEF Sorted
  <2>7. ASSUME NEW u \in Int
        PROVE  In(t, u) <=> (In(map, u) /\ u \notin map[i].addr .. map[i].addr + n - 1)
    <3>1. ASSUME NEW j \in DOMAIN map
          PROVE  u \in t[j].addr .. t[j].addr + t[j].size - 1 <=>
                   (u \in map[j].addr .. map[j].addr + map[j].size - 1
                    /\ u \notin map[i].addr .. map[i].addr + n - 1)
      <4>1. CASE j = i
        <5> DEFINE v == t[i].addr  w == t[i].size  x == map[i].addr  y == map[i].size
        <5>1. /\ v \in Nat /\ w \in Nat /\ x \in Nat /\ y \in Nat /\ n \in Nat
              /\ v = x + n /\ v + w = x + y
          BY <1>0, <2>4, <2>5
        <5> HIDE DEF v, w, x, y
        <5>2. u \in v .. v + w - 1 <=> (u \in x .. x + y - 1 /\ u \notin x .. x + n - 1)
          BY <5>1, RunCut
        <5> QED BY <4>1, <5>2 DEF v, w, x, y
      <4>2. CASE j # i
        <5>1. t[j] = map[j]
          BY <4>2, <2>4
        <5>2. u \in map[j].addr .. map[j].addr + map[j].size - 1 =>
                u \notin map[i].addr .. map[i].addr + map[i].size - 1
          BY <4>2, OneNode
        <5> QED BY <5>1, <5>2, <1>0
      <4> QED BY <4>1, <4>2
    <3> QED BY <2>4, <3>1 DEF In
  <2>8. Len(t) <= Len(map)
    BY <2>3, <1>0
  <2> QED BY <2>3, <2>6, <2>7, <2>8 DEF t
<1> QED BY <1>1, <1>2

\* node r becomes the units from lo to hi - 1
LEMMA NodeReplaced ==
  ASSUME NEW m \in Seq(Nodes), Sorted(m), NEW r \in DOMAIN m,
         NEW lo \in Nat, NEW hi \in Nat, lo < hi,
         NEW s, s = [m EXCEPT ![r] = Node(lo, hi - lo)]
  PROVE  /\ s \in Seq(Nodes) /\ DOMAIN s = DOMAIN m
         /\ \A j \in DOMAIN m : s[j].size > 0
         /\ \A j, k \in DOMAIN m :
              /\ j < k
              /\ j = r => hi < m[k].addr
              /\ k = r => m[j].addr + m[j].size < lo
              => s[j].addr + s[j].size < s[k].addr
         /\ s[r].addr = lo /\ s[r].size = hi - lo
         /\ \A j \in DOMAIN m \ {r} : s[j] = m[j]
<1>1. Node(lo, hi - lo) \in Nodes
  BY DEF Node, Nodes
<1>2. s \in Seq(Nodes)
  BY <1>1, ExceptSeq, NodesOf
<1>3. /\ DOMAIN s = DOMAIN m
      /\ \A j \in DOMAIN m \ {r} : s[j] = m[j]
      /\ s[r] = Node(lo, hi - lo)
  OBVIOUS
<1>4. s[r].addr = lo /\ s[r].size = hi - lo /\ s[r].addr + s[r].size = hi /\ s[r].size > 0
  BY <1>3 DEF Node
<1>5. \A j \in DOMAIN m : s[j].size > 0
  BY <1>3, <1>4 DEF Sorted
<1>6. ASSUME NEW j \in DOMAIN m, NEW k \in DOMAIN m, j < k,
             j = r => hi < m[k].addr,
             k = r => m[j].addr + m[j].size < lo
      PROVE  s[j].addr + s[j].size < s[k].addr
  <2>0. j # k
    BY <1>6, NodesOf
  <2>1. CASE j = r
    BY <2>0, <2>1, <1>3, <1>4, <1>6
  <2>2. CASE k = r
    BY <2>0, <2>2, <1>3, <1>4, <1>6
  <2>3. CASE j # r /\ k # r
    BY <2>3, <1>3, <1>6 DEF Sorted
  <2> QED BY <2>1, <2>2, <2>3
<1> QED BY <1>2, <1>3, <1>4, <1>5, <1>6

\* where Free looks: the first node after the address a
Place(m, a) == Least({j \in DOMAIN m : m[j].addr > a} \cup {Len(m) + 1})

\* The nodes before that place end before the area, those from it on start
\* after the area.
LEMMA PlaceIs ==
  ASSUME NEW m \in Seq(Nodes), Sorted(m), NEW n \in Nat, NEW a \in Nat,
         \A u \in a .. a + n - 1 : ~ In(m, u)
  PROVE  /\ Place(m, a) \in 1 .. Len(m) + 1
         /\ \A j \in DOMAIN m : j < Place(m, a) =>
              /\ m[j].addr <= a
              /\ n > 0 => m[j].addr + m[j].size <= a
         /\ \A j \in DOMAIN m : Place(m, a) <= j => m[j].addr > a /\ a + n <= m[j].addr
<1> DEFINE S == {j \in DOMAIN m : m[j].addr > a} \cup {Len(m) + 1}
           i == Place(m, a)
<1>0. /\ Len(m) \in Nat /\ DOMAIN m = 1 .. Len(m)
      /\ \A j \in DOMAIN m : m[j].addr \in Nat /\ m[j].size \in Nat
  BY NodesOf
<1>1. i \in S /\ \A j \in S : i <= j
  <2>1. S \subseteq Nat /\ S # {}
    BY <1>0
  <2> HIDE DEF S
  <2>2. Least(S) \in S /\ \A j \in S : Least(S) <= j
    BY <2>1, LeastIs
  <2> QED BY <2>2 DEF Place, S
<1>2. i \in 1 .. Len(m) + 1
  BY <1>0, <1>1
<1> HIDE DEF i
<1>3. ASSUME NEW j \in DOMAIN m, j < i
      PROVE  m[j].addr <= a /\ (n > 0 => m[j].addr + m[j].size <= a)
  <2>1. m[j].addr <= a
    <3>1. ~ m[j].addr > a
      BY <1>0, <1>1, <1>2, <1>3
    <3> QED BY <3>1, <1>0
  <2>2. ASSUME n > 0 PROVE m[j].addr + m[j].size <= a
    <3>1. a \in a .. a + n - 1
      BY <2>2
    <3>2. a \notin m[j].addr .. m[j].addr + m[j].size - 1
      BY <3>1 DEF In
    <3> QED BY <3>2, <2>1, <1>0
  <2> QED BY <2>1, <2>2
<1>4. ASSUME NEW j \in DOMAIN m, i <= j
      PROVE  m[j].addr > a /\ a + n <= m[j].addr
  <2>1. i \in DOMAIN m /\ m[i].addr > a
    BY <1>0, <1>1, <1>2, <1>4
  <2>2. m[j].addr > a
    <3>1. i < j => m[i].addr + m[i].size < m[j].addr
      BY <2>1 DEF Sorted
    <3>2. i < j \/ i = j
      BY <1>0, <1>2, <1>4
    <3> QED BY <3>1, <3>2, <2>1, <1>0
  <2>3. m[j].size > 0
    BY DEF Sorted
  <2>4. m[j].addr \in m[j].addr .. m[j].addr + m[j].size - 1
    BY <2>3, <1>0
  <2>5. m[j].addr \notin a .. a + n - 1
    BY <2>4 DEF In
  <2> QED BY <2>2, <2>5, <1>0
<1> QED BY <1>2, <1>3, <1>4 DEF i

\* The map is in order again, and has the units of the area besides its own.
LEMMA FreedIs ==
  ASSUME NEW m \in Seq(Nodes), Sorted(m), NEW n \in Nat, NEW a \in Nat,
         \A u \in a .. a + n - 1 : ~ In(m, u)
  PROVE  /\ Freed(m, n, a) \in Seq(Nodes)
         /\ Sorted(Freed(m, n, a))
         /\ \A u \in Int : In(Freed(m, n, a), u) <=> (In(m, u) \/ u \in a .. a + n - 1)
<1> DEFINE i == Place(m, a)
           t == Freed(m, n, a)
           end(j) == m[j].addr + m[j].size
           prev == i > 1 /\ a = m[i - 1].addr + m[i - 1].size
           next == i <= Len(m) /\ a + n = m[i].addr
<1>1. t = CASE prev /\ next   -> RemoveAt([m EXCEPT ![i - 1].size = @ + n + m[i].size], i)
            [] prev /\ ~ next -> [m EXCEPT ![i - 1].size = @ + n]
            [] ~ prev /\ next -> [m EXCEPT ![i] = Node(a, @.size + n)]
            [] OTHER -> IF n > 0 THEN InsertAt(m, i, Node(a, n)) ELSE m
  BY DEF Freed, Place
<1>2. /\ Len(m) \in Nat /\ DOMAIN m = 1 .. Len(m) /\ i \in 1 .. Len(m) + 1
      /\ \A j \in DOMAIN m : /\ m[j].addr \in Nat /\ m[j].size \in Nat /\ m[j].size > 0
                             /\ end(j) \in Nat
  <2>1. /\ Len(m) \in Nat /\ DOMAIN m = 1 .. Len(m) /\ i \in 1 .. Len(m) + 1
        /\ \A j \in DOMAIN m : m[j].addr \in Nat /\ m[j].size \in Nat
    BY NodesOf, PlaceIs
  <2> QED BY <2>1 DEF Sorted
<1>3. /\ \A j \in DOMAIN m : j < i => m[j].addr <= a /\ (n > 0 => end(j) <= a)
      /\ \A j \in DOMAIN m : i <= j => m[j].addr > a /\ a + n <= m[j].addr
  BY PlaceIs
<1>4. \A j, k \in DOMAIN m : j < k => end(j) < m[k].addr
  BY DEF Sorted
<1> HIDE DEF i, t, end
<1>5. ~ prev /\ n > 0 => \A j \in DOMAIN m : j < i => end(j) < a
  <2>1. ASSUME ~ prev, n > 0, NEW j \in DOMAIN m, j < i
        PROVE  end(j) < a
    <3>1. i - 1 \in DOMAIN m /\ i - 1 < i /\ i > 1
      BY <2>1, <1>2
    <3>2. end(i - 1) < a
      <4>1. end(i - 1) # a
        BY <2>1, <3>1 DEF end
      <4>2. end(i - 1) <= a
        BY <2>1, <3>1, <1>3
      <4> QED BY <4>1, <4>2, <3>1, <1>2
    <3>3. CASE j = i - 1
      BY <3>2, <3>3
    <3>4. CASE j < i - 1
      <4>1. end(j) < m[i - 1].addr /\ m[i - 1].addr <= a
        BY <3>1, <3>4, <1>3, <1>4
      <4> QED BY <4>1, <3>1, <1>2
    <3>5. j = i - 1 \/ j < i - 1
      <4>1. i \in Int /\ j \in Int /\ j < i
        BY <2>1, <1>2
      <4> QED BY <4>1
    <3> QED BY <3>3, <3>4, <3>5
  <2> QED BY <2>1
<1>6. ~ next => \A j \in DOMAIN m : i <= j => a + n < m[j].addr
  <2>1. ASSUME ~ next, NEW j \in DOMAIN m, i <= j
        PROVE  a + n < m[j].addr
    <3>1. i \in DOMAIN m /\ i <= Len(m)
      BY <2>1, <1>2
    <3>2. a + n < m[i].addr
      <4>1. a + n # m[i].addr /\ a + n <= m[i].addr
        BY <2>1, <3>1, <1>2, <1>3
      <4>2. m[i].addr \in Nat
        BY <3>1, <1>2
      <4> QED BY <4>1, <4>2
    <3>3. CASE j = i
      BY <3>2, <3>3
    <3>4. CASE i < j
      <4>1. end(i) < m[j].addr
        BY <3>1, <3>4, <1>4
      <4>2. m[i].addr < m[j].addr
        BY <4>1, <3>1, <1>2 DEF end
      <4> QED BY <4>2, <3>1, <3>2, <1>2
    <3> QED BY <3>3, <3>4, <2>1, <1>2
  <2> QED BY <2>1
<1>7. next => n > 0 /\ i \in DOMAIN m
  BY <1>2, <1>3
<1>8. prev => i - 1 \in DOMAIN m
  BY <1>2
<1> HIDE DEF prev, next
<1> SUFFICES /\ t \in Seq(Nodes)
             /\ Sorted(t)
             /\ \A u \in Int : In(t, u) <=> (In(m, u) \/ u \in a .. a + n - 1)
  BY DEF t
\* the units of node j, and of the whole area from node i - 1 on
<1> DEFINE has(u, j) == u \in m[j].addr .. m[j].addr + m[j].size - 1
<1>9. \A u \in Int : In(m, u) <=> \E j \in DOMAIN m : has(u, j)
  BY DEF In
<1>10. CASE ~ prev /\ ~ next /\ n = 0
  <2>1. t = m
    BY <1>1, <1>10
  <2> QED BY <2>1, <1>10
<1>11. CASE ~ prev /\ ~ next /\ n > 0
  <2>1. Node(a, n) \in Nodes
    BY DEF Node, Nodes
  <2>2. t = InsertAt(m, i, Node(a, n))
    BY <1>1, <1>11
  <2>3. /\ t \in Seq(Nodes) /\ Len(t) = Len(m) + 1
        /\ \A j \in 1 .. Len(m) + 1 :
             t[j] = IF j < i THEN m[j] ELSE IF j = i THEN Node(a, n) ELSE m[j - 1]
    <3>1. ASSUME NEW e \in Nodes
          PROVE  /\ InsertAt(m, i, e) \in Seq(Nodes) /\ Len(InsertAt(m, i, e)) = Len(m) + 1
                 /\ \A j \in 1 .. Len(m) + 1 :
                      InsertAt(m, i, e)[j] = IF j < i THEN m[j] ELSE IF j = i THEN e ELSE m[j - 1]
      BY <1>2, Inserted
    <3> QED BY <2>1, <2>2, <3>1, SMTT(30)
  <2>4. /\ DOMAIN t = 1 .. Len(m) + 1 /\ i \in DOMAIN t
        /\ t[i].addr = a /\ t[i].size = n
        /\ \A j \in DOMAIN t : j < i => j \in DOMAIN m /\ t[j] = m[j]
        /\ \A j \in DOMAIN t : i < j => j - 1 \in DOMAIN m /\ i <= j - 1 /\ t[j] = m[j - 1]
    <3>1. DOMAIN t = 1 .. Len(m) + 1 /\ i \in DOMAIN t /\ t[i] = Node(a, n)
      BY <2>3, <1>2
    <3>2. \A j \in DOMAIN t : j < i => j \in DOMAIN m /\ t[j] = m[j]
      BY <3>1, <2>3, <1>2
    <3>3. \A j \in DOMAIN t : i < j => j - 1 \in DOMAIN m /\ i <= j - 1 /\ t[j] = m[j - 1]
      BY <3>1, <2>3, <1>2
    <3> QED BY <3>1, <3>2, <3>3 DEF Node
  <2>5. Sorted(t)
    <3>1. \A j \in DOMAIN t : t[j].size > 0
      <4>1. \A j \in DOMAIN t : j < i \/ j = i \/ i < j
        BY <2>4, <1>2
      <4> QED BY <4>1, <2>4, <1>2, <1>11
    <3>2. ASSUME NEW j \in DOMAIN t, NEW k \in DOMAIN t, j < k
          PROVE  t[j].addr + t[j].size < t[k].addr
      <4>0. j \in Int /\ k \in Int /\ i \in Int
        BY <2>4, <1>2
      <4>1. CASE k < i
        <5>1. j < i
          BY <4>0, <4>1, <3>2
        <5>2. /\ j \in DOMAIN m /\ t[j] = m[j]
              /\ k \in DOMAIN m /\ t[k] = m[k]
          BY <5>1, <4>1, <2>4
        <5> QED BY <5>2, <3>2, <1>4 DEF end
      <4>2. CASE k = i
        <5>1. j \in DOMAIN m /\ t[j] = m[j] /\ j < i
          BY <4>2, <3>2, <2>4
        <5> QED BY <5>1, <4>2, <2>4, <1>5, <1>11 DEF end
      <4>3. CASE i < k /\ j < i
        <5>1. /\ j \in DOMAIN m /\ t[j] = m[j] /\ k - 1 \in DOMAIN m /\ t[k] = m[k - 1]
              /\ j < k - 1
          BY <4>3, <4>0, <2>4
        <5> QED BY <5>1, <1>4 DEF end
      <4>4. CASE i < k /\ j = i
        <5>1. k - 1 \in DOMAIN m /\ t[k] = m[k - 1] /\ i <= k - 1
          BY <4>4, <2>4
        <5> QED BY <5>1, <4>4, <2>4, <1>6, <1>11
      <4>5. CASE i < k /\ i < j
        <5>1. /\ j - 1 \in DOMAIN m /\ t[j] = m[j - 1] /\ k - 1 \in DOMAIN m /\ t[k] = m[k - 1]
              /\ j - 1 < k - 1
          BY <4>5, <4>0, <3>2, <2>4
        <5> QED BY <5>1, <1>4 DEF end
      <4> QED BY <4>0, <4>1, <4>2, <4>3, <4>4, <4>5
    <3> QED BY <3>1, <3>2 DEF Sorted
  <2>6. ASSUME NEW u \in Int PROVE In(t, u) <=> (In(m, u) \/ u \in a .. a + n - 1)
    <3>1. ASSUME NEW j \in DOMAIN t, u \in t[j].addr .. t[j].addr + t[j].size - 1
          PROVE  In(m, u) \/ u \in a .. a + n - 1
      <4>1. j < i \/ j = i \/ i < j
        BY <2>4, <1>2
      <4> QED BY <3>1, <4>1, <2>4 DEF In
    <3>2. ASSUME NEW j \in DOMAIN m, has(u, j) PROVE In(t, u)
      <4>1. CASE j < i
        <5>1. j \in DOMAIN t /\ t[j] = m[j]
          BY <4>1, <2>3, <2>4, <1>2
        <5> QED BY <5>1, <3>2 DEF In
      <4>2. CASE ~ j < i
        <5>1. j + 1 \in DOMAIN t /\ t[j + 1] = m[(j + 1) - 1] /\ (j + 1) - 1 = j
          BY <4>2, <2>4, <1>2
        <5> QED BY <5>1, <3>2 DEF In
      <4> QED BY <4>1, <4>2
    <3>3. u \in a .. a + n - 1 => In(t, u)
      BY <2>4 DEF In
    <3> QED BY <3>1, <3>2, <3>3, <1>9 DEF In
  <2> QED BY <2>3, <2>5, <2>6
<1>13. ASSUME prev
       PROVE  /\ i - 1 \in DOMAIN m /\ m[i - 1].addr \in Nat /\ end(i - 1) = a
              /\ m[i - 1].addr < a
              /\ m[i - 1].size = a - m[i - 1].addr
              /\ \A j \in DOMAIN m : j < i - 1 => end(j) < m[i - 1].addr
              /\ \A u \in Int : has(u, i - 1) <=> u \in m[i - 1].addr .. a - 1
  <2>1. i - 1 \in DOMAIN m /\ end(i - 1) = a
    BY <1>8, <1>13 DEF prev, end
  <2>2. m[i - 1].addr \in Nat /\ m[i - 1].size \in Nat /\ m[i - 1].size > 0
    BY <2>1, <1>2
  <2>3. a = m[i - 1].addr + m[i - 1].size
    BY <2>1 DEF end
  <2> QED BY <2>1, <2>2, <2>3, <1>4
<1>14. ASSUME next
       PROVE  /\ i \in DOMAIN m /\ m[i].addr = a + n /\ n > 0
              /\ end(i) \in Nat /\ a + n < end(i) /\ m[i].size = end(i) - (a + n)
              /\ \A j \in DOMAIN m : i < j => end(i) < m[j].addr
              /\ \A u \in Int : has(u, i) <=> u \in a + n .. end(i) - 1
  <2>1. i \in DOMAIN m /\ m[i].addr = a + n /\ n > 0
    BY <1>7, <1>14 DEF next
  <2>2. end(i) \in Nat /\ m[i].size \in Nat /\ m[i].size > 0
    BY <2>1, <1>2
  <2>3. end(i) = a + n + m[i].size
    BY <2>1 DEF end
  <2> QED BY <2>1, <2>2, <2>3, <1>4
<1>21. CASE prev /\ ~ next
  <2> DEFINE lo == m[i - 1].addr
             hi == a + n
  <2>1. lo \in Nat /\ hi \in Nat /\ lo < hi /\ i - 1 \in DOMAIN m
    BY <1>13, <1>21
  <2>2. t = [m EXCEPT ![i - 1] = Node(lo, hi - lo)]
    <3>1. t = [m EXCEPT ![i - 1].size = m[i - 1].size + n]
      BY <1>1, <1>21
    <3>2. m[i - 1].size + n = hi - lo
      BY <1>13, <1>21
    <3>3. m[i - 1] \in Nodes
      BY <2>1
    <3>4. \A x \in Nodes : \A z : [x EXCEPT !.size = z] = Node(x.addr, z)
      BY DEF Node, Nodes
    <3>5. [m[i - 1] EXCEPT !.size = hi - lo] = Node(lo, hi - lo)
      BY <3>3, <3>4
    <3> QED BY <3>1, <3>2, <3>5
  <2>3. /\ \A j \in DOMAIN m : j < i - 1 => end(j) < lo
        /\ \A k \in DOMAIN m : i - 1 < k => hi < m[k].addr
        /\ \A u \in Int : u \in lo .. hi - 1 <=> has(u, i - 1) \/ u \in a .. a + n - 1
    <3>1. \A k \in DOMAIN m : i - 1 < k => i <= k
      BY <1>2
    <3>2. lo < a /\ a <= hi
      BY <1>13, <1>21
    <3>3. \A u \in Int : u \in lo .. hi - 1 <=> u \in lo .. a - 1 \/ u \in a .. a + n - 1
      BY <2>1, <3>2
    <3> QED BY <3>1, <3>3, <1>6, <1>13, <1>21
  <2> HIDE DEF lo, hi
  <2>4. /\ t \in Seq(Nodes) /\ DOMAIN t = DOMAIN m
        /\ \A j \in DOMAIN m : t[j].size > 0
        /\ \A j, k \in DOMAIN m :
             /\ j < k
             /\ j = i - 1 => hi < m[k].addr
             /\ k = i - 1 => m[j].addr + m[j].size < lo
             => t[j].addr + t[j].size < t[k].addr
        /\ t[i - 1].addr = lo /\ t[i - 1].size = hi - lo
        /\ \A j \in DOMAIN m \ {i - 1} : t[j] = m[j]
    BY <2>1, <2>2, NodeReplaced
  <2>5. Sorted(t)
    BY <2>3, <2>4 DEF Sorted, end
  <2>6. ASSUME NEW u \in Int PROVE In(t, u) <=> (In(m, u) \/ u \in a .. a + n - 1)
    <3>1. (u \in t[i - 1].addr .. t[i - 1].addr + t[i - 1].size - 1) <=> u \in lo .. hi - 1
      BY <2>1, <2>4
    <3>2. \A j \in DOMAIN m \ {i - 1} :
            (u \in t[j].addr .. t[j].addr + t[j].size - 1) <=> has(u, j)
      BY <2>4
    <3> HIDE DEF has
    <3>3. In(t, u) <=> (u \in lo .. hi - 1 \/ \E j \in DOMAIN m \ {i - 1} : has(u, j))
      BY <3>1, <3>2, <2>1, <2>4 DEF In
    <3>4. In(m, u) <=> (has(u, i - 1) \/ \E j \in DOMAIN m \ {i - 1} : has(u, j))
      BY <2>1, <1>9
    <3> QED BY <3>3, <3>4, <2>3
  <2> QED BY <2>4, <2>5, <2>6
<1>22. CASE ~ prev /\ next
  <2> DEFINE hi == end(i)
  <2>1. hi \in Nat /\ a < hi /\ i \in DOMAIN m
    BY <1>14, <1>22
  <2>2. t = [m EXCEPT ![i] = Node(a, hi - a)]
    <3>1. t = [m EXCEPT ![i] = Node(a, m[i].size + n)]
      BY <1>1, <1>22
    <3>2. m[i].size + n = hi - a
      <4>1. m[i].size = hi - (a + n) /\ hi \in Nat
        BY <1>14, <1>22
      <4> HIDE DEF hi
      <4> QED BY <4>1
    <3> QED BY <3>1, <3>2
  <2>3. /\ \A j \in DOMAIN m : j < i => end(j) < a
        /\ \A k \in DOMAIN m : i < k => hi < m[k].addr
        /\ \A u \in Int : u \in a .. hi - 1 <=> has(u, i) \/ u \in a .. a + n - 1
    <3>1. a + n < hi
      BY <1>14, <1>22
    <3>2. \A u \in Int : u \in a .. hi - 1 <=> u \in a + n .. hi - 1 \/ u \in a .. a + n - 1
      BY <2>1, <3>1
    <3> QED BY <3>2, <1>5, <1>14, <1>22
  <2> HIDE DEF hi
  <2>4. /\ t \in Seq(Nodes) /\ DOMAIN t = DOMAIN m
        /\ \A j \in DOMAIN m : t[j].size > 0
        /\ \A j, k \in DOMAIN m :
             /\ j < k
             /\ j = i => hi < m[k].addr
             /\ k = i => m[j].addr + m[j].size < a
             => t[j].addr + t[j].size < t[k].addr
        /\ t[i].addr = a /\ t[i].size = hi - a
        /\ \A j \in DOMAIN m \ {i} : t[j] = m[j]
    BY <2>1, <2>2, NodeReplaced
  <2>5. Sorted(t)
    BY <2>3, <2>4 DEF Sorted, end
  <2>6. ASSUME NEW u \in Int PROVE In(t, u) <=> (In(m, u) \/ u \in a .. a + n - 1)
    <3>1. (u \in t[i].addr .. t[i].addr + t[i].size - 1) <=> u \in a .. hi - 1
      BY <2>1, <2>4
    <3>2. \A j \in DOMAIN m \ {i} :
            (u \in t[j].addr .. t[j].addr + t[j].size - 1) <=> has(u, j)
      BY <2>4
    <3> HIDE DEF has
    <3>3. In(t, u) <=> (u \in a .. hi - 1 \/ \E j \in DOMAIN m \ {i} : has(u, j))
      BY <3>1, <3>2, <2>1, <2>4 DEF In
    <3>4. In(m, u) <=> (has(u, i) \/ \E j \in DOMAIN m \ {i} : has(u, j))
      BY <2>1, <1>9
    <3> QED BY <3>3, <3>4, <2>3
  <2> QED BY <2>4, <2>5, <2>6
<1>23. CASE prev /\ next
  <2> DEFINE lo == m[i - 1].addr
             hi == end(i)
             s  == [m EXCEPT ![i - 1] = Node(lo, hi - lo)]
  <2>1. lo \in Nat /\ hi \in Nat /\ lo < hi /\ i - 1 \in DOMAIN m /\ i \in DOMAIN m /\ i - 1 # i
    BY <1>2, <1>13, <1>14, <1>23
  <2>2. t = RemoveAt(s, i)
    <3>1. t = RemoveAt([m EXCEPT ![i - 1].size = m[i - 1].size + n + m[i].size], i)
      BY <1>1, <1>23
    <3>2. m[i - 1].size + n + m[i].size = hi - lo
      <4>1. /\ m[i - 1].size = a - lo /\ m[i].size = hi - (a + n)
            /\ lo \in Nat /\ hi \in Nat
        BY <1>13, <1>14, <1>23
      <4> HIDE DEF lo, hi
      <4> QED BY <4>1
    <3>3. m[i - 1] \in Nodes
      BY <2>1
    <3>4. \A x \in Nodes : \A z : [x EXCEPT !.size = z] = Node(x.addr, z)
      BY DEF Node, Nodes
    <3>5. [m[i - 1] EXCEPT !.size = hi - lo] = Node(lo, hi - lo)
      BY <3>3, <3>4
    <3> QED BY <3>1, <3>2, <3>5
  <2>3. /\ \A j \in DOMAIN m : j < i - 1 => end(j) < lo
        /\ \A k \in DOMAIN m \ {i} : i - 1 < k => hi < m[k].addr
        /\ \A u \in Int : u \in lo .. hi - 1 <=>
             has(u, i - 1) \/ has(u, i) \/ u \in a .. a + n - 1
    <3>1. \A k \in DOMAIN m \ {i} : i - 1 < k => i < k
      BY <1>2
    <3>2. lo < a /\ a + n < hi
      BY <1>13, <1>14, <1>23
    <3>3. \A u \in Int : u \in lo .. hi - 1 <=>
            u \in lo .. a - 1 \/ u \in a + n .. hi - 1 \/ u \in a .. a + n - 1
      BY <2>1, <3>2
    <3> QED BY <3>1, <3>3, <1>13, <1>14, <1>23
  <2> HIDE DEF lo, hi, s
  <2>4. /\ s \in Seq(Nodes) /\ DOMAIN s = DOMAIN m
        /\ \A j \in DOMAIN m : s[j].size > 0
        /\ \A j, k \in DOMAIN m :
             /\ j < k
             /\ j = i - 1 => hi < m[k].addr
             /\ k = i - 1 => m[j].addr + m[j].size < lo
             => s[j].addr + s[j].size < s[k].addr
        /\ s[i - 1].addr = lo /\ s[i - 1].size = hi - lo
        /\ \A j \in DOMAIN m \ {i - 1} : s[j] = m[j]
    <3>1. s = [m EXCEPT ![i - 1] = Node(lo, hi - lo)]
      BY DEF s
    <3> QED BY <2>1, <3>1, NodeReplaced
  <2>5. \A j, k \in DOMAIN s \ {i} : j < k => s[j].addr + s[j].size < s[k].addr
    BY <2>3, <2>4 DEF end
  <2>6. /\ t \in Seq(Nodes) /\ Sorted(t)
        /\ \A u : In(t, u) <=>
             \E j \in DOMAIN s \ {i} : u \in s[j].addr .. s[j].addr + s[j].size - 1
    BY <2>1, <2>2, <2>4, <2>5, NodeRemoved
  <2>7. ASSUME NEW u \in Int PROVE In(t, u) <=> (In(m, u) \/ u \in a .. a + n - 1)
    <3>1. (u \in s[i - 1].addr .. s[i - 1].addr + s[i - 1].size - 1) <=> u \in lo .. hi - 1
      BY <2>1, <2>4
    <3>2. \A j \in DOMAIN m \ {i - 1} :
            (u \in s[j].addr .. s[j].addr + s[j].size - 1) <=> has(u, j)
      BY <2>4
    <3> HIDE DEF has
    <3>3. In(t, u) <=> (u \in lo .. hi - 1 \/ \E j \in DOMAIN m \ {i - 1, i} : has(u, j))
      BY <3>1, <3>2, <2>1, <2>4, <2>6
    <3>4. In(m, u) <=> (has(u, i - 1) \/ has(u, i) \/ \E j \in DOMAIN m \ {i - 1, i} : has(u, j))
      BY <2>1, <1>9
    <3> QED BY <3>3, <3>4, <2>3
  <2> QED BY <2>6, <2>7
<1>24. n = 0 \/ n > 0
  OBVIOUS
<1> QED BY <1>10, <1>11, <1>21, <1>22, <1>23, <1>24

----------------------------------------------------------------------------
(* The search *)

LEMMA FindIs ==
  ASSUME MapTypes, NEW n \in Nat
  PROVE  /\ Find(n) = 0 => \A i \in DOMAIN map : map[i].size < n
         /\ Find(n) # 0 => Find(n) \in DOMAIN map /\ n <= map[Find(n)].size
<1> DEFINE Big   == {i \in DOMAIN map : map[i].size >= n}
           Ahead == {i \in Big : i >= beginNode}
<1>1. /\ DOMAIN map \subseteq Nat /\ 0 \notin DOMAIN map
      /\ \A i \in DOMAIN map : map[i].size \in Nat
  BY NodesOf DEF MapTypes
<1>2. Find(n) = IF Ahead # {} THEN Least(Ahead) ELSE IF Big # {} THEN Least(Big) ELSE 0
  BY DEF Find
<1>3. Ahead # {} => Least(Ahead) \in Ahead
  <2>1. Ahead \subseteq Nat
    BY <1>1
  <2> HIDE DEF Ahead
  <2> QED BY <2>1, LeastIs
<1>4. Big # {} => Least(Big) \in Big
  <2>1. Big \subseteq Nat
    BY <1>1
  <2> HIDE DEF Big
  <2> QED BY <2>1, LeastIs
<1>5. Ahead \subseteq Big
  OBVIOUS
<1> HIDE DEF Ahead
<1>6. (Find(n) = 0 /\ Big = {}) \/ Find(n) \in Big
  BY <1>2, <1>3, <1>4, <1>5
<1>7. Big = {} => \A i \in DOMAIN map : map[i].size < n
  <2>1. ASSUME Big = {}, NEW i \in DOMAIN map PROVE map[i].size < n
    <3>1. ~ map[i].size >= n
      BY <2>1
    <3> QED BY <3>1, <1>1
  <2> QED BY <2>1
<1>8. \A i \in Big : i \in DOMAIN map /\ n <= map[i].size /\ i # 0
  BY <1>1
<1> HIDE DEF Big
<1> QED BY <1>6, <1>7, <1>8

\* A run of free units is in one node: no node ends where another one begins.
LEMMA RunInNode ==
  ASSUME map \in Seq(Nodes), Sorted(map), NEW a \in Int, NEW n \in Nat \ {0},
         \A u \in a .. a + n - 1 : In(map, u)
  PROVE  \E i \in DOMAIN map : n <= map[i].size
<1>1. a \in a .. a + n - 1
  OBVIOUS
<1>2. PICK i \in DOMAIN map : a \in map[i].addr .. map[i].addr + map[i].size - 1
  BY <1>1 DEF In
<1> DEFINE e == map[i].addr + map[i].size
<1>3. map[i].addr \in Nat /\ map[i].size \in Nat
  BY NodesOf
<1>4. e \notin a .. a + n - 1
  <2>1. SUFFICES ASSUME e \in a .. a + n - 1 PROVE FALSE
    OBVIOUS
  <2>2. PICK j \in DOMAIN map : e \in map[j].addr .. map[j].addr + map[j].size - 1
    BY <2>1 DEF In
  <2>3. map[j].addr \in Nat /\ map[j].size \in Nat /\ i \in Nat /\ j \in Nat
    BY NodesOf
  <2>4. /\ i < j => e < map[j].addr
        /\ j < i => map[j].addr + map[j].size < map[i].addr
    BY DEF Sorted
  <2>5. ~ i < j /\ ~ j < i /\ i # j
    BY <2>2, <2>3, <2>4, <1>3, SMTT(30)
  <2> QED BY <2>3, <2>5
<1>5. n <= map[i].size
  BY <1>2, <1>3, <1>4
<1> QED BY <1>5

\* So the search fails just when the pool has no run of the length.
LEMMA FindsRoom ==
  ASSUME IndInv, NEW n \in Nat \ {0}
  PROVE  /\ Find(n) = 0 => Area!Fits(n) = {}
         /\ Find(n) # 0 => map[Find(n)].addr \in Area!Fits(n)
<1>1. \A u \in Int : In(map, u) <=> u \in FreeUnits
  BY DEF In, FreeUnits, NodeUnits
<1>2. ASSUME Find(n) = 0, NEW a \in Area!Fits(n) PROVE FALSE
  <2>1. a \in Int /\ \A u \in a .. a + n - 1 : u \in Int /\ u \in FreeUnits
    BY AllocatorAssumption DEF Area!Fits, Area!Run, Area!Units
  <2>2. PICK i \in DOMAIN map : n <= map[i].size
    BY <1>1, <2>1, RunInNode DEF IndInv, MapTypes
  <2>3. map[i].size < n /\ map[i].size \in Nat
    BY <1>2, FindIs, NodesOf DEF IndInv, MapTypes
  <2> QED BY <2>2, <2>3
<1>3. ASSUME Find(n) # 0 PROVE map[Find(n)].addr \in Area!Fits(n)
  <2> DEFINE i == Find(n)
  <2>1. /\ i \in DOMAIN map /\ n <= map[i].size
        /\ map[i].addr \in Nat /\ map[i].size \in Nat
    BY <1>3, FindIs, NodesOf DEF IndInv, MapTypes
  <2> HIDE DEF i
  <2>2. \A u \in map[i].addr .. map[i].addr + n - 1 :
          u \in Int /\ u \in map[i].addr .. map[i].addr + map[i].size - 1
    BY <2>1
  <2>3. \A u \in map[i].addr .. map[i].addr + n - 1 : u \in Int /\ In(map, u)
    BY <2>1, <2>2 DEF In
  <2>4. map[i].addr \in map[i].addr .. map[i].addr + n - 1
    BY <2>1
  <2>5. map[i].addr \in Units
    BY <2>3, <2>4 DEF IndInv, Covered
  <2>6. map[i].addr .. map[i].addr + n - 1 \subseteq FreeUnits
    BY <2>3, <1>1
  <2> QED BY <2>5, <2>6 DEF Area!Fits, Area!Run, Area!Units, Units, i
<1> QED BY <1>2, <1>3

----------------------------------------------------------------------------
(* Units that change hands *)

LEMMA FreeIs ==
  ASSUME NEW m \in Seq(Nodes)
  PROVE  UNION {m[i].addr .. m[i].addr + m[i].size - 1 : i \in DOMAIN m} = {u \in Int : In(m, u)}
BY NodesOf DEF In

\* free units and areas, unit by unit
Apart ==
  /\ \A c, d \in Client : \A u \in Int : Uses(held[c], u) /\ Uses(held[d], u) => c = d
  /\ \A c \in Client : \A u \in Int : ~ (Uses(held[c], u) /\ In(map, u))

LEMMA OneUseIs ==
  ASSUME MapTypes
  PROVE  OneUse <=> Apart
<1>1. FreeUnits = {u \in Int : In(map, u)}
  BY FreeIs DEF MapTypes, FreeUnits, NodeUnits
<1>2. \A c \in Client : \A u : Uses(held[c], u) <=> (c \in Holders /\ u \in AreaUnits(held[c]))
  BY DEF Uses, Holders
<1>3. ASSUME NEW c \in Holders, NEW u \in AreaUnits(held[c]) PROVE u \in Int
  <2>1. held[c].addr \in Nat /\ held[c].size \in 1 .. MaxBytes
    BY <1>3 DEF MapTypes, Areas, Holders
  <2>2. Count(held[c].size) \in Nat
    BY <2>1, CountType, AllocatorAssumption
  <2> QED BY <2>1, <2>2 DEF AreaUnits
<1>4. Holders \subseteq Client
  BY DEF Holders
<1>5. ASSUME OneUse PROVE Apart
  BY <1>1, <1>2, <1>5 DEF OneUse, Apart
<1>6. ASSUME Apart PROVE OneUse
  <2>1. ASSUME NEW c \in Holders, NEW d \in Holders, c # d
        PROVE  AreaUnits(held[c]) \cap AreaUnits(held[d]) = {}
    BY <2>1, <1>2, <1>3, <1>4, <1>6 DEF Apart
  <2>2. ASSUME NEW c \in Holders
        PROVE  AreaUnits(held[c]) \cap FreeUnits = {}
    BY <1>1, <1>2, <1>4, <1>6 DEF Apart
  <2> QED BY <2>1, <2>2 DEF OneUse
<1> QED BY <1>5, <1>6

\* c has the area h instead of the one it had, and the map has the units that
\* makes free
Reassigned(c, h) ==
  /\ held' = [held EXCEPT ![c] = h] /\ h \in Areas
  /\ map' \in Seq(Nodes) /\ Sorted(map')
  /\ \A u \in Int : In(map', u) <=> ((In(map, u) \/ Uses(held[c], u)) /\ ~ Uses(h, u))
  /\ \A u \in Int : Uses(h, u) => In(map, u) \/ Uses(held[c], u)

LEMMA Preserved ==
  ASSUME IndInv, NEW c \in Client, NEW h, Reassigned(c, h),
         beginNode' \in Nat \ {0}, ret' \in {NoRet, 0} \cup Units
  PROVE  IndInv'
<1>1. MapTypes'
  <2>1. held' \in [Client -> Areas]
    BY DEF IndInv, MapTypes, Reassigned
  <2> QED BY <2>1 DEF MapTypes, Reassigned
<1>2. Sorted(map)'
  BY DEF Reassigned
<1>3. held'[c] = h /\ \A d \in Client : d # c => held'[d] = held[d]
  BY DEF Reassigned, IndInv, MapTypes
<1>4. Apart
  BY OneUseIs DEF IndInv
<1>5. \A u \in Int : Uses(h, u) => In(map, u) \/ Uses(held[c], u)
  BY DEF Reassigned
<1>6. \A u \in Int : In(map', u) <=> ((In(map, u) \/ Uses(held[c], u)) /\ ~ Uses(h, u))
  BY DEF Reassigned
<1>7. Apart'
  <2>1. ASSUME NEW d \in Client, NEW e \in Client, NEW u \in Int,
               Uses(held'[d], u), Uses(held'[e], u)
        PROVE  d = e
    BY <2>1, <1>3, <1>4, <1>5 DEF Apart
  <2>2. ASSUME NEW d \in Client, NEW u \in Int, Uses(held'[d], u), In(map', u)
        PROVE  FALSE
    BY <2>2, <1>3, <1>4, <1>6 DEF Apart
  <2>3. \A d \in Client : \A u : Uses(held[d], u)' <=> Uses(held'[d], u)
    BY DEF Uses, AreaUnits
  <2> QED BY <2>1, <2>2, <2>3 DEF Apart
<1>8. OneUse'
  <2>1. (MapTypes => (OneUse <=> Apart))'
    BY OneUseIs, PTL
  <2> QED BY <1>1, <1>7, <2>1
<1>9. Covered'
  <2>1. ASSUME NEW u \in Int
        PROVE  (In(map, u) \/ \E d \in Client : Uses(held[d], u))
                 <=> (In(map', u) \/ \E d \in Client : Uses(held'[d], u))
    BY <1>3, <1>5, <1>6
  <2>2. \A d \in Client : \A u : Uses(held[d], u)' <=> Uses(held'[d], u)
    BY DEF Uses, AreaUnits
  <2>3. Covered
    BY DEF IndInv
  <2> QED BY <2>1, <2>2, <2>3 DEF Covered, Units
<1> QED BY <1>1, <1>2, <1>8, <1>9 DEF IndInv

----------------------------------------------------------------------------
(* The actions: each hands units over, and is a step of the pool *)

LEMMA AreaTypes ==
  ASSUME MapTypes, NEW c \in Client, held[c] # NoArea
  PROVE  /\ held[c].addr \in Nat /\ held[c].size \in 1 .. MaxBytes
         /\ held[c].size \in Nat \ {0} /\ Count(held[c].size) \in Nat \ {0}
         /\ \A u : Uses(held[c], u) <=> u \in held[c].addr .. held[c].addr + Count(held[c].size) - 1
<1>1. held[c].addr \in Nat /\ held[c].size \in 1 .. MaxBytes
  BY DEF MapTypes, Areas
<1>2. held[c].size \in Nat \ {0}
  BY <1>1, AllocatorAssumption
<1> QED BY <1>1, <1>2, CountType DEF Uses, AreaUnits

LEMMA NewArea ==
  ASSUME NEW a \in Nat, NEW n \in 1 .. MaxBytes
  PROVE  /\ Node(a, n) \in Areas /\ Node(a, n) # NoArea
         /\ n \in Nat \ {0} /\ Count(n) \in Nat \ {0}
         /\ \A u : Uses(Node(a, n), u) <=> u \in a .. a + Count(n) - 1
<1>1. n \in Nat \ {0}
  BY AllocatorAssumption
<1>2. Node(a, n) \in Areas /\ Node(a, n) # NoArea
  BY <1>1, AllocatorAssumption DEF Node, Areas
<1> QED BY <1>1, <1>2, CountType DEF Uses, AreaUnits, Node

\* what the search finds
LEMMA FoundIs ==
  ASSUME IndInv, NEW n \in 1 .. MaxBytes, Find(Count(n)) # 0
  PROVE  LET i == Find(Count(n)) IN
         /\ i \in DOMAIN map /\ Count(n) <= map[i].size
         /\ map[i].addr \in Nat /\ map[i].addr \in Units
         /\ Advanced(i, Count(n)) \in Nat \ {0}
         /\ Taken(i, Count(n)) \in Seq(Nodes)
         /\ Len(Taken(i, Count(n))) <= Len(map)
         /\ Sorted(Taken(i, Count(n)))
         /\ \A u \in Int : In(Taken(i, Count(n)), u) <=>
              (In(map, u) /\ ~ Uses(Node(map[i].addr, n), u))
         /\ \A u \in Int : Uses(Node(map[i].addr, n), u) => In(map, u)
<1> DEFINE i == Find(Count(n))
<1>0. n \in Nat \ {0} /\ Count(n) \in Nat \ {0}
  BY CountType, AllocatorAssumption
<1>1. i \in DOMAIN map /\ Count(n) <= map[i].size
  BY <1>0, FindIs DEF IndInv
<1>2. map[i].addr \in Area!Fits(Count(n))
  BY <1>0, FindsRoom
<1> HIDE DEF i
<1>3. map[i].addr \in Nat /\ map[i].size \in Nat /\ i \in Nat \ {0}
  BY <1>1, NodesOf DEF IndInv, MapTypes
<1>4. map[i].addr \in Units
  BY <1>2 DEF Area!Fits, Area!Units, Units
<1>5. /\ Taken(i, Count(n)) \in Seq(Nodes)
      /\ Len(Taken(i, Count(n))) <= Len(map)
      /\ Sorted(Taken(i, Count(n)))
      /\ \A u \in Int : In(Taken(i, Count(n)), u) <=>
           (In(map, u) /\ u \notin map[i].addr .. map[i].addr + Count(n) - 1)
  BY <1>0, <1>1, TakenIs DEF IndInv, MapTypes
<1>6. \A u : Uses(Node(map[i].addr, n), u) <=> u \in map[i].addr .. map[i].addr + Count(n) - 1
  BY <1>3, NewArea
<1>7. \A u \in Int : u \in map[i].addr .. map[i].addr + Count(n) - 1 =>
        u \in map[i].addr .. map[i].addr + map[i].size - 1
  BY <1>0, <1>1, <1>3
<1>8. Advanced(i, Count(n)) \in Nat \ {0}
  BY <1>3 DEF Advanced
<1> QED BY <1>1, <1>3, <1>4, <1>5, <1>6, <1>7, <1>8 DEF In, i

LEMMA StepAlloc ==
  ASSUME IndInv, NEW c \in Client, NEW n \in 1 .. MaxBytes, AllocMemory(c, n)
  PROVE  IndInv' /\ Area!Get(c, n)
<1> DEFINE i == Find(Count(n))
           h == Node(map[i].addr, n)
<1>1. /\ held[c] = NoArea /\ i # 0
      /\ map' = Taken(i, Count(n)) /\ beginNode' = Advanced(i, Count(n))
      /\ ret' = map[i].addr /\ held' = [held EXCEPT ![c] = h]
  BY DEF AllocMemory
<1>2. /\ map[i].addr \in Nat /\ map[i].addr \in Units
      /\ Advanced(i, Count(n)) \in Nat \ {0}
      /\ Taken(i, Count(n)) \in Seq(Nodes) /\ Sorted(Taken(i, Count(n)))
      /\ \A u \in Int : In(Taken(i, Count(n)), u) <=> (In(map, u) /\ ~ Uses(h, u))
      /\ \A u \in Int : Uses(h, u) => In(map, u)
  BY <1>1, FoundIs
<1>3. /\ h \in Areas /\ Count(n) \in Nat \ {0}
      /\ \A u : Uses(h, u) <=> u \in map[i].addr .. map[i].addr + Count(n) - 1
  BY <1>2, NewArea
<1>4. map[i].addr \in Area!Fits(Count(n))
  BY <1>1, <1>3, FindsRoom
<1>h. h = [addr |-> map[i].addr, size |-> n]
  BY DEF Node
<1> HIDE DEF i, h
<1>5. \A u : ~ Uses(held[c], u)
  BY <1>1 DEF Uses
<1>6. Reassigned(c, h)
  BY <1>1, <1>2, <1>3, <1>5 DEF Reassigned
<1>7. IndInv'
  BY <1>1, <1>2, <1>6, Preserved
<1>8. Area!Get(c, n)
  <2>1. FreeUnits = {u \in Int : In(map, u)}
    BY FreeIs DEF IndInv, MapTypes, FreeUnits, NodeUnits
  <2>2. FreeUnits' = {u \in Int : In(map', u)}
    BY <1>6, FreeIs DEF Reassigned, FreeUnits, NodeUnits
  <2>3. FreeUnits' = FreeUnits \ (map[i].addr .. map[i].addr + Count(n) - 1)
    BY <2>1, <2>2, <1>1, <1>2, <1>3
  <2>4. Area!Count(n) = Count(n)
    BY DEF Area!Count, Count
  <2> QED BY <2>3, <2>4, <1>1, <1>4, <1>h DEF Area!Get, Area!Run, Area!Holds
<1> QED BY <1>7, <1>8

LEMMA StepFails ==
  ASSUME IndInv, NEW c \in Client, NEW n \in 1 .. MaxBytes, AllocFails(c, n)
  PROVE  IndInv' /\ Area!Fail(c, n)
<1>1. /\ held[c] = NoArea /\ Find(Count(n)) = 0 /\ ret' = 0
      /\ UNCHANGED <<map, beginNode, held>>
  BY DEF AllocFails
<1>2. Area!Fits(Count(n)) = {}
  <2>1. Count(n) \in Nat \ {0}
    BY CountType, AllocatorAssumption
  <2> QED BY <2>1, <1>1, FindsRoom
<1>3. FreeUnits' = FreeUnits
  BY <1>1 DEF FreeUnits, NodeUnits
<1>4. Area!Fail(c, n)
  <2>1. Area!Count(n) = Count(n)
    BY DEF Area!Count, Count
  <2> QED BY <2>1, <1>1, <1>2, <1>3 DEF Area!Fail
<1>5. IndInv'
  <2>1. MapTypes'
    BY <1>1 DEF IndInv, MapTypes, Units
  <2>2. OneUse'
    BY <1>1, <1>3 DEF IndInv, OneUse, Holders, AreaUnits
  <2>3. Covered' /\ Sorted(map)'
    BY <1>1 DEF IndInv, Covered, Uses, AreaUnits
  <2> QED BY <2>1, <2>2, <2>3 DEF IndInv
<1> QED BY <1>4, <1>5

\* An area is given back: FreeMemory, and Expand after the image was written
\* to the swap area.
LEMMA GivenBack ==
  ASSUME IndInv, NEW c \in Client, held[c] # NoArea,
         map' = Freed(map, Count(held[c].size), held[c].addr),
         held' = [held EXCEPT ![c] = NoArea],
         ret' \in {NoRet, 0}, UNCHANGED beginNode
  PROVE  /\ IndInv'
         /\ FreeUnits' = FreeUnits \cup Area!AreaUnits(held[c])
<1> DEFINE h == held[c]
<1>1. /\ h.addr \in Nat /\ Count(h.size) \in Nat
      /\ \A u : Uses(h, u) <=> u \in h.addr .. h.addr + Count(h.size) - 1
  BY AreaTypes DEF IndInv
<1>2. \A u \in h.addr .. h.addr + Count(h.size) - 1 : u \in Int /\ ~ In(map, u)
  BY <1>1, OneUseIs DEF IndInv, Apart
<1>3. /\ map' \in Seq(Nodes) /\ Sorted(map')
      /\ \A u \in Int : In(map', u) <=> (In(map, u) \/ u \in h.addr .. h.addr + Count(h.size) - 1)
  <2> HIDE DEF h
  <2>1. map' = Freed(map, Count(h.size), h.addr)
    BY DEF h
  <2>2. map \in Seq(Nodes) /\ Sorted(map)
    BY DEF IndInv, MapTypes
  <2> DEFINE k == Count(h.size)
  <2>3. k \in Nat /\ h.addr \in Nat /\ \A u \in h.addr .. h.addr + k - 1 : ~ In(map, u)
    BY <1>1, <1>2
  <2> HIDE DEF k
  <2>4. /\ Freed(map, k, h.addr) \in Seq(Nodes) /\ Sorted(Freed(map, k, h.addr))
        /\ \A u \in Int : In(Freed(map, k, h.addr), u) <=>
             (In(map, u) \/ u \in h.addr .. h.addr + k - 1)
    BY <2>2, <2>3, FreedIs
  <2> QED BY <2>1, <2>4 DEF k
<1>4. Reassigned(c, NoArea)
  <2>1. NoArea \in Areas /\ \A u : ~ Uses(NoArea, u)
    BY DEF Areas, Uses
  <2> QED BY <2>1, <1>1, <1>3 DEF Reassigned
<1>5. IndInv'
  BY <1>4, Preserved DEF IndInv, MapTypes
<1>6. FreeUnits' = FreeUnits \cup Area!AreaUnits(h)
  <2>1. FreeUnits = {u \in Int : In(map, u)}
    BY FreeIs DEF IndInv, MapTypes, FreeUnits, NodeUnits
  <2>2. FreeUnits' = {u \in Int : In(map', u)}
    BY <1>3, FreeIs DEF FreeUnits, NodeUnits
  <2>3. Area!AreaUnits(h) = h.addr .. h.addr + Count(h.size) - 1
    BY DEF Area!AreaUnits, Area!Run, Area!Count, Count
  <2> QED BY <2>1, <2>2, <2>3, <1>2, <1>3
<1> QED BY <1>5, <1>6

LEMMA StepFree ==
  ASSUME IndInv, NEW c \in Client, FreeMemory(c)
  PROVE  IndInv' /\ Area!Put(c)
<1>1. /\ held[c] # NoArea
      /\ map' = Freed(map, Count(held[c].size), held[c].addr)
      /\ held' = [held EXCEPT ![c] = NoArea]
      /\ ret' = NoRet /\ UNCHANGED beginNode
  BY DEF FreeMemory
<1>2. /\ IndInv'
      /\ FreeUnits' = FreeUnits \cup Area!AreaUnits(held[c])
  BY <1>1, GivenBack
<1>3. NoRet = Area!NoRet
  BY DEF NoRet, Area!NoRet
<1> QED BY <1>1, <1>2, <1>3 DEF Area!Put

LEMMA StepSwap ==
  ASSUME IndInv, NEW c \in Client, NEW n \in 1 .. MaxBytes, ExpandSwap(c, n)
  PROVE  IndInv' /\ Area!MoveFail(c, n)
<1>1. /\ held[c] # NoArea /\ n > held[c].size /\ Find(Count(n)) = 0
      /\ map' = Freed(map, Count(held[c].size), held[c].addr)
      /\ held' = [held EXCEPT ![c] = NoArea]
      /\ ret' = 0 /\ UNCHANGED beginNode
  BY DEF ExpandSwap
<1>2. /\ IndInv'
      /\ FreeUnits' = FreeUnits \cup Area!AreaUnits(held[c])
  BY <1>1, GivenBack
<1>3. Area!Fits(Count(n)) = {} /\ Area!Count(n) = Count(n)
  <2>1. Count(n) \in Nat \ {0}
    BY CountType, AllocatorAssumption
  <2> QED BY <2>1, <1>1, FindsRoom DEF Area!Count, Count
<1> QED BY <1>1, <1>2, <1>3 DEF Area!MoveFail

LEMMA StepGrow ==
  ASSUME IndInv, NEW c \in Client, NEW n \in 1 .. MaxBytes, ExpandGrow(c, n)
  PROVE  IndInv' /\ Area!Move(c, n)
<1> DEFINE i == Find(Count(n))
           h == Node(map[i].addr, n)
           o == held[c]
           k == Count(held[c].size)
           m == Taken(i, Count(n))
<1>1. /\ held[c] # NoArea /\ n > held[c].size /\ i # 0
      /\ map' = Freed(m, k, o.addr) /\ beginNode' = Advanced(i, Count(n))
      /\ ret' = map[i].addr /\ held' = [held EXCEPT ![c] = h]
  BY DEF ExpandGrow
<1>2. /\ map[i].addr \in Nat /\ map[i].addr \in Units
      /\ Advanced(i, Count(n)) \in Nat \ {0}
      /\ m \in Seq(Nodes) /\ Sorted(m)
      /\ \A u \in Int : In(m, u) <=> (In(map, u) /\ ~ Uses(h, u))
      /\ \A u \in Int : Uses(h, u) => In(map, u)
  BY <1>1, FoundIs
<1>3. /\ h \in Areas /\ Count(n) \in Nat \ {0}
      /\ \A u : Uses(h, u) <=> u \in map[i].addr .. map[i].addr + Count(n) - 1
  BY <1>2, NewArea
<1>4. map[i].addr \in Area!Fits(Count(n))
  BY <1>1, <1>3, FindsRoom
<1>h. h = [addr |-> map[i].addr, size |-> n]
  BY DEF Node
<1>5. /\ o.addr \in Nat /\ k \in Nat
      /\ \A u : Uses(held[c], u) <=> u \in o.addr .. o.addr + k - 1
  BY <1>1, AreaTypes DEF IndInv
<1>o. Area!AreaUnits(held[c]) = o.addr .. o.addr + k - 1
  BY DEF Area!AreaUnits, Area!Run, Area!Count, Count
<1> HIDE DEF i, h, o, k, m
<1>6. \A u \in Int : Uses(held[c], u) => ~ In(map, u)
  BY OneUseIs DEF IndInv, Apart
<1>7. /\ map' \in Seq(Nodes) /\ Sorted(map')
      /\ \A u \in Int : In(map', u) <=> (In(m, u) \/ u \in o.addr .. o.addr + k - 1)
  <2>1. \A u \in o.addr .. o.addr + k - 1 : ~ In(m, u)
    <3>1. \A u \in o.addr .. o.addr + k - 1 : u \in Int
      BY <1>5
    <3> QED BY <3>1, <1>2, <1>5, <1>6
  <2>2. /\ Freed(m, k, o.addr) \in Seq(Nodes) /\ Sorted(Freed(m, k, o.addr))
        /\ \A u \in Int : In(Freed(m, k, o.addr), u) <=>
             (In(m, u) \/ u \in o.addr .. o.addr + k - 1)
    BY <2>1, <1>2, <1>5, FreedIs
  <2> QED BY <2>2, <1>1
<1>8. Reassigned(c, h)
  BY <1>1, <1>2, <1>3, <1>5, <1>6, <1>7 DEF Reassigned
<1>9. IndInv'
  BY <1>1, <1>2, <1>8, Preserved
<1>10. Area!Move(c, n)
  <2>1. FreeUnits = {u \in Int : In(map, u)}
    BY FreeIs DEF IndInv, MapTypes, FreeUnits, NodeUnits
  <2>2. FreeUnits' = {u \in Int : In(map', u)}
    BY <1>7, FreeIs DEF FreeUnits, NodeUnits
  <2>3. FreeUnits' = (FreeUnits \ (map[i].addr .. map[i].addr + Count(n) - 1))
                       \cup (o.addr .. o.addr + k - 1)
    BY <2>1, <2>2, <1>2, <1>3, <1>5, <1>7
  <2>4. Area!Count(n) = Count(n)
    BY DEF Area!Count, Count
  <2> QED BY <2>3, <2>4, <1>1, <1>4, <1>h, <1>o DEF Area!Move, Area!Run, Area!Holds
<1> QED BY <1>9, <1>10

LEMMA StepShrink ==
  ASSUME WholeUnits, IndInv, NEW c \in Client, NEW n \in ShrinkTo, ExpandShrink(c, n)
  PROVE  IndInv' /\ Area!Cut(c, n)
<1> DEFINE o == held[c]
           h == Node(held[c].addr, n)
           k == Count(n)
           r == Count(held[c].size - n)
<1>1. /\ held[c] # NoArea /\ o.size >= n
      /\ map' = Freed(map, r, (o.addr * UNIT + n) \div UNIT)
      /\ held' = [held EXCEPT ![c] = h] /\ ret' = NoRet /\ UNCHANGED beginNode
  BY DEF ExpandShrink
<1>2. /\ o.addr \in Nat /\ o.size \in Nat \ {0} /\ Count(o.size) \in Nat \ {0}
      /\ \A u : Uses(held[c], u) <=> u \in o.addr .. o.addr + Count(o.size) - 1
  BY <1>1, AreaTypes DEF IndInv
<1>3. n \in 1 .. MaxBytes
  BY AllocatorAssumption
<1>4. /\ h \in Areas /\ n \in Nat /\ k \in Nat \ {0}
      /\ \A u : Uses(h, u) <=> u \in o.addr .. o.addr + k - 1
  BY <1>2, <1>3, NewArea
<1>5. /\ r \in Nat /\ Count(o.size) = k + r
      /\ (o.addr * UNIT + n) \div UNIT = o.addr + k
  <2>1. PICK q \in Nat : n = q * UNIT
    BY DEF WholeUnits
  <2>2. o.size - n \in Nat /\ n + (o.size - n) = o.size
    BY <1>1, <1>2, <1>4
  <2>3. k = q /\ r \in Nat /\ Count(q * UNIT + (o.size - n)) = q + r
    BY <2>1, <2>2, CountSplit
  <2>4. Count(o.size) = k + r
    BY <2>1, <2>2, <2>3
  <2>5. (o.addr * UNIT + n) \div UNIT = o.addr + k
    BY <2>1, <2>3, <1>2, UnitOf, SMTT(30)
  <2> QED BY <2>3, <2>4, <2>5
<1>h. h = [addr |-> o.addr, size |-> n]
  BY DEF Node
<1>o. /\ Area!AreaUnits(held[c]) = o.addr .. o.addr + Count(o.size) - 1
      /\ Area!Count(n) = k
  BY DEF Area!AreaUnits, Area!Run, Area!Count, Count
<1> HIDE DEF o, h, k, r
<1>6. \A u \in Int : Uses(held[c], u) => ~ In(map, u)
  BY OneUseIs DEF IndInv, Apart
\* the units of the area are those it keeps and those it gives back
<1>7. \A u \in Int : Uses(held[c], u) <=>
        (Uses(h, u) \/ u \in o.addr + k .. o.addr + k + r - 1)
  BY <1>2, <1>4, <1>5
<1>8. \A u \in Int : ~ (Uses(h, u) /\ u \in o.addr + k .. o.addr + k + r - 1)
  BY <1>2, <1>4, <1>5
<1>9. /\ map' \in Seq(Nodes) /\ Sorted(map')
      /\ \A u \in Int : In(map', u) <=> (In(map, u) \/ u \in o.addr + k .. o.addr + k + r - 1)
  <2> DEFINE a == o.addr + k
  <2>1. a \in Nat
    BY <1>2, <1>4
  <2>2. \A u \in a .. a + r - 1 : ~ In(map, u)
    <3>1. \A u \in a .. a + r - 1 : u \in Int
      BY <2>1, <1>5
    <3> QED BY <3>1, <1>6, <1>7
  <2> HIDE DEF a
  <2>3. map \in Seq(Nodes) /\ Sorted(map)
    BY DEF IndInv, MapTypes
  <2>4. /\ Freed(map, r, a) \in Seq(Nodes) /\ Sorted(Freed(map, r, a))
        /\ \A u \in Int : In(Freed(map, r, a), u) <=> (In(map, u) \/ u \in a .. a + r - 1)
    BY <2>1, <2>2, <2>3, <1>5, FreedIs
  <2> QED BY <2>4, <1>1, <1>5 DEF a
<1>10. Reassigned(c, h)
  BY <1>1, <1>4, <1>6, <1>7, <1>8, <1>9 DEF Reassigned
<1>11. IndInv'
  BY <1>1, <1>10, Preserved DEF IndInv, MapTypes
<1>12. Area!Cut(c, n)
  <2>1. FreeUnits = {u \in Int : In(map, u)}
    BY FreeIs DEF IndInv, MapTypes, FreeUnits, NodeUnits
  <2>2. FreeUnits' = {u \in Int : In(map', u)}
    BY <1>9, FreeIs DEF FreeUnits, NodeUnits
  <2>3. \A u : u \in Area!AreaUnits(held[c]) \ (o.addr .. o.addr + k - 1) <=>
          (u \in Int /\ u \in o.addr + k .. o.addr + k + r - 1)
    BY <1>2, <1>4, <1>5, <1>o
  <2>4. FreeUnits' = FreeUnits \cup (Area!AreaUnits(held[c]) \ (o.addr .. o.addr + k - 1))
    BY <2>1, <2>2, <2>3, <1>9
  <2>5. n <= o.size
    BY <1>1, <1>2, <1>4
  <2>6. NoRet = Area!NoRet
    BY DEF NoRet, Area!NoRet
  <2> QED BY <2>4, <2>5, <2>6, <1>1, <1>h, <1>o DEF Area!Cut, Area!Run, Area!Holds, o
<1> QED BY <1>11, <1>12

----------------------------------------------------------------------------
(* The specification *)

LEMMA InitInd == ASSUME MapInit PROVE IndInv /\ Area!Init
<1>1. /\ map = <<Node(START, POOL)>> /\ beginNode = 1
      /\ held = [c \in Client |-> NoArea] /\ ret = NoRet
  BY DEF MapInit
<1>2. START \in Nat /\ POOL \in Nat /\ POOL > 0
  BY AllocatorAssumption
<1>3. /\ Node(START, POOL) \in Nodes
      /\ Node(START, POOL).addr = START /\ Node(START, POOL).size = POOL
  BY <1>2 DEF Node, Nodes
<1>4. map \in Seq(Nodes)
  BY <1>1, <1>3
<1>5. DOMAIN map = {1} /\ map[1].addr = START /\ map[1].size = POOL
  <2>1. DOMAIN <<Node(START, POOL)>> = {1} /\ <<Node(START, POOL)>>[1] = Node(START, POOL)
    OBVIOUS
  <2> QED BY <2>1, <1>1, <1>3
<1>6. MapTypes
  BY <1>1, <1>4 DEF MapTypes, Areas
<1>7. Sorted(map)
  BY <1>2, <1>5 DEF Sorted
<1>8. \A c \in Client : held[c] = NoArea
  BY <1>1
<1>9. OneUse
  BY <1>8 DEF OneUse, Holders
<1>10. \A u \in Int : In(map, u) <=> u \in Units
  BY <1>5 DEF In, Units
<1>11. Covered
  BY <1>8, <1>10 DEF Covered, Uses
<1>12. Area!Init
  <2>1. FreeUnits = {u \in Int : In(map, u)}
    BY <1>4, FreeIs DEF FreeUnits, NodeUnits
  <2>2. FreeUnits = Units
    BY <2>1, <1>2, <1>10 DEF Units
  <2> QED BY <2>2, <1>1 DEF Area!Init, Area!Units, Units, NoRet, Area!NoRet
<1> QED BY <1>6, <1>7, <1>9, <1>11, <1>12 DEF IndInv

LEMMA StepInd ==
  ASSUME WholeUnits, IndInv, [MapNext]_mapVars
  PROVE  IndInv' /\ [Area!Next]_Area!vars
<1>1. ASSUME NEW c \in Client, FreeMemory(c) PROVE IndInv' /\ Area!Next
  BY <1>1, StepFree DEF Area!Next
<1>2. ASSUME NEW c \in Client, NEW n \in 1 .. MaxBytes, AllocMemory(c, n)
      PROVE  IndInv' /\ Area!Next
  BY <1>2, StepAlloc DEF Area!Next, Area!Sizes
<1>3. ASSUME NEW c \in Client, NEW n \in 1 .. MaxBytes, AllocFails(c, n)
      PROVE  IndInv' /\ Area!Next
  BY <1>3, StepFails DEF Area!Next, Area!Sizes
<1>4. ASSUME NEW c \in Client, NEW n \in 1 .. MaxBytes, ExpandGrow(c, n)
      PROVE  IndInv' /\ Area!Next
  BY <1>4, StepGrow DEF Area!Next, Area!Sizes
<1>5. ASSUME NEW c \in Client, NEW n \in 1 .. MaxBytes, ExpandSwap(c, n)
      PROVE  IndInv' /\ Area!Next
  BY <1>5, StepSwap DEF Area!Next, Area!Sizes
<1>6. ASSUME NEW c \in Client, NEW n \in ShrinkTo, ExpandShrink(c, n)
      PROVE  IndInv' /\ Area!Next
  <2>1. n \in Area!Sizes
    BY AllocatorAssumption DEF Area!Sizes
  <2> QED BY <2>1, <1>6, StepShrink DEF Area!Next
<1>7. ASSUME UNCHANGED mapVars PROVE IndInv' /\ UNCHANGED Area!vars
  <2>1. UNCHANGED map /\ UNCHANGED beginNode /\ UNCHANGED held /\ UNCHANGED ret
    BY <1>7 DEF mapVars
  <2>2. FreeUnits' = FreeUnits
    BY <2>1 DEF FreeUnits, NodeUnits
  <2>3. OneUse'
    BY <2>1, <2>2 DEF IndInv, OneUse, Holders, AreaUnits
  <2>4. MapTypes' /\ Sorted(map)' /\ Covered'
    BY <2>1 DEF IndInv, MapTypes, Covered, Uses, AreaUnits, Units
  <2> QED BY <2>1, <2>2, <2>3, <2>4 DEF IndInv, Area!vars
<1> QED BY <1>1, <1>2, <1>3, <1>4, <1>5, <1>6, <1>7 DEF MapNext

LEMMA Inductive == ASSUME WholeUnits PROVE MapSpec => []IndInv
<1>1. MapInit => IndInv
  BY InitInd
<1>2. IndInv /\ [MapNext]_mapVars => IndInv'
  BY StepInd
<1> QED BY <1>1, <1>2, PTL DEF MapSpec

\* The unit after each node but the last is in somebody's area, and in
\* another area for each node.
LEMMA NodesAreFew ==
  ASSUME IndInv, IsFiniteSet(Client)
  PROVE  /\ Len(map) <= Cardinality(Holders) + 1
         /\ Cardinality(Holders) <= Cardinality(Client)
<1> DEFINE L == Len(map) - 1
           end(i) == map[i].addr + map[i].size
           f == [i \in 1 .. L |-> CHOOSE c \in Client : Uses(held[c], end(i))]
<1>1. /\ Len(map) \in Nat /\ DOMAIN map = 1 .. Len(map)
      /\ \A i \in DOMAIN map : /\ map[i].addr \in Nat /\ map[i].size \in Nat /\ map[i].size > 0
                               /\ end(i) \in Nat
  <2>1. map \in Seq(Nodes) /\ Sorted(map)
    BY DEF IndInv, MapTypes
  <2> QED BY <2>1, NodesOf DEF Sorted
<1>2. \A i, j \in DOMAIN map : i < j => end(i) < map[j].addr
  BY DEF IndInv, Sorted
<1>3. \A j \in DOMAIN map : In(map, map[j].addr)
  <2>1. \A j \in DOMAIN map : map[j].addr \in map[j].addr .. map[j].addr + map[j].size - 1
    BY <1>1
  <2> QED BY <2>1 DEF In
<1>4. ASSUME NEW i \in 1 .. L PROVE \E c \in Client : Uses(held[c], end(i))
  <2>1. i \in DOMAIN map /\ i + 1 \in DOMAIN map /\ i < i + 1
    BY <1>1
  <2>2. end(i) \in Int /\ end(i) < map[i + 1].addr /\ map[i].addr < end(i)
    BY <2>1, <1>1, <1>2
  <2>3. map[i].addr \in Units /\ map[i + 1].addr \in Units
    BY <2>1, <1>1, <1>3 DEF IndInv, Covered
  <2>4. end(i) \in Units
    BY <2>1, <2>2, <2>3, <1>1, AllocatorAssumption DEF Units
  <2>5. ~ In(map, end(i))
    <3> SUFFICES ASSUME In(map, end(i)) PROVE FALSE
      OBVIOUS
    <3>1. PICK j \in DOMAIN map : end(i) \in map[j].addr .. map[j].addr + map[j].size - 1
      BY DEF In
    <3>5. end(j) = map[j].addr + map[j].size
      OBVIOUS
    <3>2. /\ i < j => end(i) < map[j].addr
          /\ j < i => end(j) < map[i].addr
      BY <2>1, <1>2
    <3>3. /\ end(i) \in Nat /\ end(j) \in Nat /\ map[j].addr \in Nat /\ map[i].addr \in Nat
          /\ i \in Nat /\ j \in Nat
      BY <2>1, <1>1
    <3>6. end(i) \in map[j].addr .. end(j) - 1
      <4>1. map[j].addr \in Nat /\ map[j].size \in Nat
        BY <1>1
      <4> QED BY <3>1, <4>1
    <3> HIDE DEF end
    <3>4. ~ i < j /\ ~ j < i /\ i # j
      BY <3>2, <3>3, <3>6, <2>2
    <3> QED BY <3>3, <3>4
  <2> QED BY <2>2, <2>4, <2>5 DEF IndInv, Covered
<1>5. \A i \in 1 .. L : f[i] \in Client /\ Uses(held[f[i]], end(i))
  BY <1>4
<1>6. \A i \in 1 .. L : f[i] \in Holders
  BY <1>5 DEF Uses, Holders
<1>7. DOMAIN f = 1 .. L
  OBVIOUS
<1> HIDE DEF f
<1>8. ASSUME NEW i \in 1 .. L, NEW j \in 1 .. L, i < j, f[i] = f[j] PROVE FALSE
  <2> DEFINE h == held[f[i]]
  <2>1. Uses(h, end(i)) /\ Uses(h, end(j)) /\ f[i] \in Client
    BY <1>5, <1>8
  <2>2. /\ h.addr \in Nat /\ Count(h.size) \in Nat
        /\ \A u : Uses(h, u) <=> u \in h.addr .. h.addr + Count(h.size) - 1
    <3>1. h # NoArea
      BY <2>1 DEF Uses
    <3> QED BY <2>1, <3>1, AreaTypes DEF IndInv
  <2>3. /\ i \in DOMAIN map /\ j \in DOMAIN map
        /\ end(i) < map[j].addr /\ map[j].addr < end(j) /\ end(i) \in Nat /\ end(j) \in Nat
        /\ map[j].addr \in Nat
    <3>1. i \in DOMAIN map /\ j \in DOMAIN map
      BY <1>1
    <3>2. /\ end(i) \in Nat /\ end(j) \in Nat /\ end(i) < map[j].addr
          /\ map[j].addr \in Nat /\ map[j].size \in Nat /\ map[j].size > 0
      BY <3>1, <1>1, <1>2, <1>8
    <3> QED BY <3>1, <3>2
  <2> HIDE DEF end, h
  <2>4. map[j].addr \in h.addr .. h.addr + Count(h.size) - 1
    BY <2>1, <2>2, <2>3
  <2>5. Uses(h, map[j].addr)
    BY <2>2, <2>4
  <2> QED BY <2>1, <2>3, <2>5, <1>3, OneUseIs DEF IndInv, Apart, h
<1>9. IsFiniteSet(Holders) /\ Cardinality(Holders) <= Cardinality(Client)
  <2>1. Holders \subseteq Client
    BY DEF Holders
  <2> QED BY <2>1, FS_Subset
<1>10. L <= Cardinality(Holders)
  <2>1. CASE 1 .. L = {}
    BY <2>1, <1>1, <1>9, FS_CardinalityType
  <2>2. CASE 1 .. L # {}
    <3>1. f \in Injection(1 .. L, Holders)
      <4>1. f \in [1 .. L -> Holders]
        BY <1>6, <1>7 DEF f
      <4>2. \A i, j \in 1 .. L : f[i] = f[j] => i = j
        BY <1>1, <1>8
      <4> QED BY <4>1, <4>2 DEF Injection, IsInjective
    <3>2. Cardinality(1 .. L) <= Cardinality(Holders)
      BY <3>1, <1>9, FS_Injection
    <3>3. Cardinality(1 .. L) = L
      BY <2>2, <1>1, FS_Interval
    <3> QED BY <3>2, <3>3
  <2> QED BY <2>1, <2>2
<1>11. Cardinality(Holders) \in Nat
  BY <1>9, FS_CardinalityType
<1> QED BY <1>1, <1>9, <1>10, <1>11

----------------------------------------------------------------------------
(* The results *)

\* The managers with the map of Allocator implement a pool of units: what
\* AllocMemory returns is nobody else's, nothing is lost by Free or by Expand,
\* and Alloc returns 0 only if no run of free units is long enough, wherever
\* its search begins.
THEOREM MapIsPool == ASSUME WholeUnits PROVE MapSpec => IsPool
<1>1. MapInit => Area!Init
  BY InitInd
<1>2. IndInv /\ [MapNext]_mapVars => [Area!Next]_Area!vars
  BY StepInd
<1> QED BY <1>1, <1>2, Inductive, PTL DEF MapSpec, IsPool, Area!Spec

\* Free leaves the map in order and merges every area with its neighbours;
\* Alloc leaves no empty node in it.
THEOREM MapIsMerged == ASSUME WholeUnits PROVE MapSpec => []Merged
<1>1. IndInv => Merged
  <2>1. ASSUME IndInv, NEW i \in 1 .. Len(map) - 1
        PROVE  map[i].addr + map[i].size < map[i + 1].addr
    <3>1. i \in DOMAIN map /\ i + 1 \in DOMAIN map /\ i < i + 1
      BY <2>1, NodesOf DEF IndInv, MapTypes
    <3> QED BY <2>1, <3>1 DEF IndInv, Sorted
  <2> QED BY <2>1 DEF IndInv, Sorted, Merged
<1> QED BY <1>1, Inductive, PTL

\* Free never writes past the end of the array, although it does not look: an
\* array with a node for every client and two more has room.
THEOREM ArrayIsLongEnough == ASSUME WholeUnits, RoomInArray PROVE MapSpec => []MapFits
<1>1. IndInv => MapFits
  <2> SUFFICES ASSUME IndInv PROVE MapFits
    OBVIOUS
  <2>1. /\ Len(map) <= Cardinality(Holders) + 1
        /\ Cardinality(Holders) <= Cardinality(Client)
    BY NodesAreFew DEF RoomInArray
  <2>2. Len(map) \in Nat /\ Cardinality(Client) \in Nat /\ Cardinality(Holders) \in Nat
    <3>1. Holders \subseteq Client
      BY DEF Holders
    <3> QED BY <3>1, NodesOf, FS_Subset, FS_CardinalityType DEF IndInv, MapTypes, RoomInArray
  <2> QED BY <2>1, <2>2, AllocatorAssumption DEF MapFits, RoomInArray
<1> QED BY <1>1, Inductive, PTL

\* No unit is in two images, or free and in an image.
THEOREM NoUnitTwice == ASSUME WholeUnits PROVE MapSpec => []OneUse
<1>1. IndInv => OneUse
  BY DEF IndInv
<1> QED BY <1>1, Inductive, PTL

\* The search begins inside the array, at a node or at the end mark, and what
\* is returned is 0 or a unit of the pool.
THEOREM MapTypeCorrect == ASSUME WholeUnits, RoomInArray PROVE MapSpec => []MapTypeOK
<1> DEFINE Begins == beginNode \in 1 .. MAPSIZE
<1>1. Cardinality(Client) \in Nat /\ Cardinality(Client) + 1 < MAPSIZE /\ MAPSIZE \in Nat
  BY FS_CardinalityType, AllocatorAssumption DEF RoomInArray
<1>2. MapInit => Begins
  BY <1>1 DEF MapInit
<1>3. IndInv /\ Begins /\ [MapNext]_mapVars => Begins'
  <2>1. ASSUME IndInv, NEW n \in 1 .. MaxBytes, Find(Count(n)) # 0,
               beginNode' = Advanced(Find(Count(n)), Count(n))
        PROVE  Begins'
    <3> DEFINE i == Find(Count(n))
    <3>1. Len(map) <= Cardinality(Holders) + 1 /\ Cardinality(Holders) <= Cardinality(Client)
      BY <2>1, NodesAreFew DEF RoomInArray
    <3>2. Cardinality(Holders) \in Nat
      <4>1. Holders \subseteq Client
        BY DEF Holders
      <4> QED BY <4>1, FS_Subset, FS_CardinalityType DEF RoomInArray
    <3>3. i \in 1 .. Len(map) /\ Len(map) \in Nat
      BY <2>1, FoundIs, NodesOf DEF IndInv, MapTypes
    <3> HIDE DEF i
    <3>4. Advanced(i, Count(n)) \in 1 .. Len(map) + 1
      BY <3>3 DEF Advanced
    <3> QED BY <2>1, <3>1, <3>2, <3>3, <3>4, <1>1 DEF i
  <2>2. ASSUME IndInv, Begins, UNCHANGED beginNode PROVE Begins'
    BY <2>2
  <2> HIDE DEF Begins
  <2> QED BY <2>1, <2>2 DEF MapNext, mapVars, FreeMemory, AllocMemory, AllocFails, ExpandGrow, ExpandSwap,
                            ExpandShrink
<1>4. IndInv /\ Begins => MapTypeOK
  <2> SUFFICES ASSUME IndInv, Begins PROVE MapTypeOK
    OBVIOUS
  <2> QED BY DEF IndInv, MapTypes, MapTypeOK, Nodes, Areas, Units
<1> HIDE DEF Begins
<1> QED BY <1>2, <1>3, <1>4, Inductive, PTL DEF MapSpec

----------------------------------------------------------------------------
(* The inductive invariant *)

\* TypeOK without the bounds of the free pages, which Pages gives
Types ==
  /\ stat \in [Slots -> Stats] /\ load \in [Slots -> BOOLEAN]
  /\ size \in [Slots -> 0 .. MaxSize] /\ mem \in [Slots -> 0 .. MaxSize]
  /\ swp \in [Slots -> 0 .. MaxSize]
  /\ time \in [Slots -> 0 .. MaxTime]
  /\ parent \in [Slots -> Slots] /\ selected \in Slots
  /\ pc \in [Slots -> PCs]
  /\ freeMem \in Nat /\ freeSwap \in Nat
  /\ RunIn \in BOOLEAN /\ RunOut \in BOOLEAN
  /\ SwBuf \subseteq {"BUSY", "WANTED", "DONE"}
  /\ tout \in 0 .. MaxSleep /\ left \in [Slots -> 0 .. MaxSleep]

Pages ==
  /\ freeMem + Total(mem) = Mem
  /\ freeSwap + Total(swp) = SwapArea

\* What a process does and where go together; who is not in memory is ready to
\* run in user mode.
Places ==
  /\ pc[0] \in {"loop", "RunIn", "RunOut", "swbuf", "swio"} /\ stat[0] \in {"SRUN", "SSLEEP"}
  /\ load[0]
  /\ \A p \in User :
       \/ pc[p] = "user" /\ stat[p] \in {"SNULL", "SIDL", "SWAIT"} /\ (load[p] \/ stat[p] = "SNULL")
       \/ pc[p] = "user" /\ stat[p] = "SRUN"
       \/ InSwap(p) /\ stat[p] \in {"SRUN", "SSLEEP"} /\ load[p]
       \/ pc[p] = "tout" /\ stat[p] \in {"SRUN", "SWAIT"} /\ load[p]
       \/ pc[p] = "panic"

\* A parent waits idle while its one child is written out.
Parents ==
  /\ parent[0] = NoProc
  /\ \A c \in User : parent[c] # NoProc /\ pc[c] # "panic" => InSwap(c) /\ stat[parent[c]] = "SIDL"
  /\ \A c, d \in User : parent[c] = parent[d] /\ parent[c] # NoProc => c = d

\* Images, and what the image of a process is while it is written or read
Parts ==
  /\ \A p \in User : pc[p] # "panic" =>
       /\ stat[p] = "SNULL" => size[p] = 0 /\ mem[p] = 0 /\ swp[p] = 0
       /\ InSwap(p) => swp[p] = size[p]
       /\ stat[p] # "SNULL" /\ ~ InSwap(p) /\ ~ Entering(p) =>
            /\ load[p]   => mem[p] = size[p] /\ swp[p] = 0
            /\ ~ load[p] => mem[p] = 0 /\ swp[p] = size[p]
  /\ InSwap(0) =>
       /\ selected \in User /\ stat[selected] = "SRUN" /\ pc[selected] = "user"
       /\ ~ load[selected] /\ mem[selected] = size[selected] /\ swp[selected] = size[selected]

\* SwapWakes; the flag B_WANTED stays while somebody sleeps for the buffer
Buffer ==
  /\ \A p, q \in Slots : pc[p] = "swio" /\ pc[q] = "swio" => p = q
  /\ "BUSY" \in SwBuf <=> \E p \in Slots : pc[p] = "swio"
  /\ \A p \in Slots : stat[p] = "SSLEEP" =>
       /\ pc[p] = "swio" => "DONE" \notin SwBuf
       /\ pc[p] = "swbuf" => {"BUSY", "WANTED"} \subseteq SwBuf

IInv == Types /\ Pages /\ Places /\ Parents /\ Parts /\ Buffer /\ SleepersWake

----------------------------------------------------------------------------
(* Sums over the process table *)

\* A set of naturals with 0 and every successor has all naturals.
LEMMA NatSet ==
  ASSUME NEW S, 0 \in S, \A n \in S \cap Nat : n + 1 \in S
  PROVE  Nat \subseteq S
<1> SUFFICES ASSUME Nat \ S # {} PROVE FALSE
  OBVIOUS
<1>1. PICK x \in Nat \ S : \A y \in Nat \ S : ~ (<<y, x>> \in OpToRel(<, Nat))
  BY NatLessThanWellFounded, WFMin, Zenon
<1>2. x # 0 /\ x - 1 \in Nat
  OBVIOUS
<1>3. <<x - 1, x>> \in OpToRel(<, Nat)
  BY <1>2 DEF OpToRel
<1>4. x - 1 \in S \cap Nat
  BY <1>1, <1>2, <1>3
<1>5. (x - 1) + 1 \in S
  BY <1>4
<1> QED BY <1>5

First(s) == CHOOSE x \in s : TRUE
Level(n) == {s \in SUBSET User : Cardinality(s) <= n}
Sums(f, g, D) == g = [s \in D |-> IF s = {} THEN 0 ELSE f[First(s)] + g[s \ {First(s)}]]

LEMMA UserInSlots == User \subseteq Slots /\ 0 \in Slots /\ 0 \notin User
<1>1. NPROC \in Nat \ {0}
  BY ConstantsAssumption
<1> QED BY <1>1 DEF User, Slots

LEMMA Consts == /\ NPROC \in Nat /\ MaxSize \in Nat /\ Mem \in Nat /\ SwapArea \in Nat
                /\ MaxTime \in Nat /\ MaxSleep \in Nat /\ NPROC >= 2 /\ MaxSize >= 1 /\ MaxSize <= Mem
  BY ConstantsAssumption

LEMMA UserFinite == IsFiniteSet(User) /\ Cardinality(User) \in Nat
<1>1. NPROC \in Nat
  BY ConstantsAssumption
<1> QED BY <1>1, FS_Interval, FS_CardinalityType DEF User

\* Without its first element a set of processes is a level lower.
LEMMA Smaller ==
  ASSUME NEW n \in Nat, NEW s \in Level(n + 1), s # {}
  PROVE  First(s) \in s /\ s \ {First(s)} \in Level(n)
<1>1. First(s) \in s
  BY DEF First
<1>2. IsFiniteSet(s) /\ Cardinality(s) <= n + 1
  BY UserFinite, FS_Subset DEF Level
<1>3. Cardinality(s \ {First(s)}) = Cardinality(s) - 1 /\ Cardinality(s) \in Nat
  BY <1>1, <1>2, FS_RemoveElement, FS_CardinalityType
<1> QED BY <1>1, <1>2, <1>3 DEF Level

LEMMA EmptyLevel == \A s \in Level(0) : s = {}
<1> SUFFICES ASSUME NEW s \in Level(0) PROVE s = {}
  OBVIOUS
<1>1. IsFiniteSet(s) /\ Cardinality(s) <= 0
  BY UserFinite, FS_Subset DEF Level
<1> QED BY <1>1, FS_CardinalityType, FS_EmptySet

\* The recursive function that Total takes its value from exists.
LEMMA TotalIsSum ==
  ASSUME NEW f
  PROVE  \E g : Sums(f, g, SUBSET User) /\ Total(f) = g[User]
<1> DEFINE S == {n \in Nat : \E g : Sums(f, g, Level(n))}
<1>1. 0 \in S
  <2>1. \A s \in Level(0) : s = {}
    BY EmptyLevel
  <2> DEFINE g == [s \in Level(0) |-> 0]
  <2>2. Sums(f, g, Level(0))
    BY <2>1 DEF Sums
  <2> QED BY <2>2
<1>2. ASSUME NEW n \in Nat, NEW g, Sums(f, g, Level(n)) PROVE n + 1 \in S
  <2> DEFINE h == [s \in Level(n + 1) |-> IF s = {} THEN 0 ELSE f[First(s)] + g[s \ {First(s)}]]
  <2>1. \A s \in Level(n) : s \in Level(n + 1) /\ h[s] = g[s]
    <3> SUFFICES ASSUME NEW s \in Level(n) PROVE s \in Level(n + 1) /\ h[s] = g[s]
      OBVIOUS
    <3>1. IsFiniteSet(s) /\ Cardinality(s) \in Nat
      BY UserFinite, FS_Subset, FS_CardinalityType DEF Level
    <3>2. s \in Level(n + 1)
      BY <3>1 DEF Level
    <3> QED BY <3>2, <1>2 DEF Sums
  <2>2. \A s \in Level(n + 1) : s # {} => h[s \ {First(s)}] = g[s \ {First(s)}]
    BY <2>1, Smaller
  <2>3. Sums(f, h, Level(n + 1))
    BY <2>2 DEF Sums
  <2> QED BY <2>3
<1>3. Cardinality(User) \in S
  <2>1. Nat \subseteq S
    BY <1>1, <1>2, NatSet
  <2> QED BY <2>1, UserFinite
<1>4. Level(Cardinality(User)) = SUBSET User
  BY UserFinite, FS_Subset DEF Level
<1> DEFINE it == CHOOSE g : Sums(f, g, SUBSET User)
<1>5. Sums(f, it, SUBSET User)
  BY <1>3, <1>4
<1>6. Total(f) = it[User]
  BY DEF Total, FoldFunctionOnSet, MapThenFoldSet, Sums, First
<1> QED BY <1>5, <1>6

\* What a change of one process does to a sum.
LEMMA TotalChange ==
  ASSUME NEW f \in [Slots -> Nat], NEW p \in User, NEW v \in Nat
  PROVE  /\ Total(f) \in Nat /\ f[p] <= Total(f)
         /\ Total([f EXCEPT ![p] = v]) = (Total(f) - f[p]) + v
<1> DEFINE e == [f EXCEPT ![p] = v]
<1>1. PICK g : Sums(f, g, SUBSET User) /\ Total(f) = g[User]
  BY TotalIsSum
<1>2. PICK h : Sums(e, h, SUBSET User) /\ Total(e) = h[User]
  BY TotalIsSum
<1> DEFINE Good(s) == /\ g[s] \in Nat /\ h[s] \in Nat
                      /\ p \in s => f[p] <= g[s] /\ h[s] = (g[s] - f[p]) + v
                      /\ p \notin s => h[s] = g[s]
           S == {n \in Nat : \A s \in Level(n) : Good(s)}
<1>3. \A s \in SUBSET User : /\ g[s] = IF s = {} THEN 0 ELSE f[First(s)] + g[s \ {First(s)}]
                             /\ h[s] = IF s = {} THEN 0 ELSE e[First(s)] + h[s \ {First(s)}]
  BY <1>1, <1>2 DEF Sums
<1>4. 0 \in S
  <2>1. \A s \in Level(0) : s = {}
    BY EmptyLevel
  <2>2. {} \in SUBSET User /\ p \notin {} /\ 0 \in Nat
    OBVIOUS
  <2>3. Good({})
    BY <2>2, <1>3
  <2> QED BY <2>1, <2>3
<1>5. ASSUME NEW n \in Nat, \A s \in Level(n) : Good(s) PROVE \A s \in Level(n + 1) : Good(s)
  <2> SUFFICES ASSUME NEW s \in Level(n + 1), s # {} PROVE Good(s)
    <3>1. {} \in SUBSET User /\ p \notin {} /\ 0 \in Nat
      OBVIOUS
    <3>2. Good({})
      BY <3>1, <1>3
    <3> QED BY <3>2
  <2> DEFINE x == First(s)
             r == s \ {x}
  <2>1. x \in s /\ r \in Level(n) /\ s \in SUBSET User
    BY Smaller DEF Level
  <2>2. Good(r)
    BY <2>1, <1>5
  <2>3. g[s] = f[x] + g[r] /\ h[s] = e[x] + h[r]
    BY <2>1, <1>3
  <2>4. x \in Slots /\ p \in Slots /\ f[x] \in Nat /\ f[p] \in Nat
    BY <2>1, UserInSlots
  <2>5. e[x] = IF x = p THEN v ELSE f[x]
    BY <2>4
  <2>6. x = p => p \notin r
    OBVIOUS
  <2>7. x # p => (p \in s <=> p \in r)
    OBVIOUS
  <2> HIDE DEF x, r, e
  <2> QED BY <2>1, <2>2, <2>3, <2>4, <2>5, <2>6, <2>7
<1>6. Cardinality(User) \in S
  <2>1. \A n \in S \cap Nat : n + 1 \in S
    BY <1>5
  <2> HIDE DEF S
  <2>2. Nat \subseteq S
    BY <1>4, <2>1, NatSet
  <2> QED BY <2>2, UserFinite
<1>7. Good(User)
  BY <1>6, UserFinite DEF Level
<1> QED BY <1>1, <1>2, <1>7

LEMMA TotalZero == Total([p \in Slots |-> 0]) = 0
<1> DEFINE f == [p \in Slots |-> 0]
<1>1. PICK g : Sums(f, g, SUBSET User) /\ Total(f) = g[User]
  BY TotalIsSum
<1> DEFINE S == {n \in Nat : \A s \in Level(n) : g[s] = 0}
<1>2. \A s \in SUBSET User : g[s] = IF s = {} THEN 0 ELSE f[First(s)] + g[s \ {First(s)}]
  BY <1>1 DEF Sums
<1>3. 0 \in S
  BY <1>2, EmptyLevel
<1>4. ASSUME NEW n \in Nat, \A s \in Level(n) : g[s] = 0 PROVE \A s \in Level(n + 1) : g[s] = 0
  <2> SUFFICES ASSUME NEW s \in Level(n + 1) PROVE g[s] = 0
    OBVIOUS
  <2>1. s \in SUBSET User
    BY DEF Level
  <2>2. CASE s = {}
    BY <2>1, <2>2, <1>2
  <2>3. CASE s # {}
    <3>1. First(s) \in Slots /\ g[s \ {First(s)}] = 0
      BY <2>1, <2>3, <1>4, Smaller, UserInSlots
    <3>2. g[s] = 0 + 0
      BY <2>1, <2>3, <3>1, <1>2
    <3> QED BY <3>2
  <2> QED BY <2>2, <2>3
<1>5. Cardinality(User) \in S
  <2>1. \A n \in S \cap Nat : n + 1 \in S
    BY <1>4
  <2> HIDE DEF S
  <2>2. Nat \subseteq S
    BY <1>3, <2>1, NatSet
  <2> QED BY <2>2, UserFinite
<1> QED BY <1>1, <1>5, UserFinite DEF Level

\* The functions of pages, changed for one process
LEMMA PagesChange ==
  ASSUME Types, NEW p \in User, NEW v \in 0 .. MaxSize
  PROVE  /\ Total(mem) \in Nat /\ Total([mem EXCEPT ![p] = v]) = (Total(mem) - mem[p]) + v
         /\ Total(swp) \in Nat /\ Total([swp EXCEPT ![p] = v]) = (Total(swp) - swp[p]) + v
<1>1. mem \in [Slots -> Nat] /\ swp \in [Slots -> Nat] /\ v \in Nat
  BY Consts DEF Types
<1> QED BY <1>1, TotalChange

LEMMA SmallTime == \A n \in Nat : Min({n + 1, MaxTime}) \in 0 .. MaxTime
<1> SUFFICES ASSUME NEW n \in Nat PROVE Min({n + 1, MaxTime}) \in 0 .. MaxTime
  OBVIOUS
<1>1. \E x \in {n + 1, MaxTime} : \A y \in {n + 1, MaxTime} : x =< y
  BY Consts
<1>2. /\ Min({n + 1, MaxTime}) \in {n + 1, MaxTime}
      /\ \A y \in {n + 1, MaxTime} : Min({n + 1, MaxTime}) =< y
  BY <1>1 DEF Min
<1> QED BY <1>2, Consts

LEMMA LeastOf ==
  ASSUME NEW T, T \subseteq Nat, T # {}
  PROVE  \E x \in T : \A y \in T : x <= y
<1>1. PICK x \in T : \A y \in T : ~ (<<y, x>> \in OpToRel(<, Nat))
  BY NatLessThanWellFounded, WFMin, Zenon
<1>2. \A y \in T : ~ (y < x)
  BY <1>1 DEF OpToRel
<1> QED BY <1>2

\* Sched finds somebody to select.
LEMMA LongestReady ==
  ASSUME Types, Ready # {}
  PROVE  Longest \in Ready
<1>1. \A p \in Ready : time[p] \in Nat /\ MaxTime - time[p] \in Nat /\ p \in Nat
  <2> SUFFICES ASSUME NEW p \in Ready
               PROVE  time[p] \in Nat /\ MaxTime - time[p] \in Nat /\ p \in Nat
    OBVIOUS
  <2>1. p \in Slots /\ p \in Nat
    BY Consts DEF Ready, User, Slots
  <2>2. time[p] \in 0 .. MaxTime
    BY <2>1 DEF Types
  <2> QED BY <2>1, <2>2, Consts
<1>2. PICK m \in Ready : \A q \in Ready : time[q] <= time[m]
  <2> DEFINE T == {MaxTime - time[p] : p \in Ready}
  <2>1. T \subseteq Nat /\ T # {}
    BY <1>1
  <2>2. PICK x \in T : \A y \in T : x <= y
    BY <2>1, LeastOf
  <2>3. PICK m \in Ready : x = MaxTime - time[m]
    OBVIOUS
  <2>4. \A q \in Ready : MaxTime - time[m] <= MaxTime - time[q]
    BY <2>2, <2>3
  <2> QED BY <2>4, <1>1, Consts
<1>3. PICK p \in Ready : time[p] = time[m] /\ \A q \in Ready : time[q] = time[m] => p <= q
  <2> DEFINE T == {p \in Ready : time[p] = time[m]}
  <2>1. PICK x \in T : \A y \in T : x <= y
    BY <1>1, LeastOf
  <2> QED BY <2>1
<1>4. \A q \in Ready : time[q] < time[p] \/ (time[q] = time[p] /\ p <= q)
  BY <1>1, <1>2, <1>3
<1> QED BY <1>4 DEF Longest

----------------------------------------------------------------------------
(* The steps *)

LEMMA IODoneStep ==
  ASSUME IInv, Running, IODone
  PROVE  IInv'
<1>1. Types'
  BY DEF IInv, Types, images, flags, clock, WokenAt, Stats, IODone
<1>2. Pages'
  BY DEF IInv, Pages, images, IODone
<1>3. Places'
  BY UserInSlots DEF IInv, Places, images, WokenAt, InSwap, IODone
<1>4. Parents'
  BY UserInSlots DEF IInv, Types, Parents, images, WokenAt, InSwap, IODone
<1>5. Parts'
  BY UserInSlots DEF IInv, Parts, images, WokenAt, InSwap, Entering, IODone
<1>6. Buffer'
  BY DEF IInv, Buffer, WokenAt, IODone
<1>7. SleepersWake'
  BY UserInSlots DEF IInv, SleepersWake, clock, WokenAt, IODone
<1> QED BY <1>1, <1>2, <1>3, <1>4, <1>5, <1>6, <1>7 DEF IInv

LEMMA SecondStep ==
  ASSUME IInv, Running, Second
  PROVE  IInv'
<1>1. Types'
  <2>1. \A q \in Slots : left[q] \in 0 .. MaxSleep /\ Less(left[q]) \in 0 .. MaxSleep
    BY Consts DEF IInv, Types, Less
  <2>2. tout' \in 0 .. MaxSleep
    BY Consts DEF IInv, Types, Less, Second
  <2>3. time' \in [Slots -> 0 .. MaxTime]
    BY SmallTime, Consts DEF IInv, Types, Second
  <2> QED BY <2>1, <2>2, <2>3 DEF IInv, Types, PCs, Stats, WokenAt, Second
<1>2. Pages'
  BY DEF IInv, Pages, Second
<1>3. Places'
  BY UserInSlots DEF IInv, Places, WokenAt, InSwap, Second
<1>4. Parents'
  BY UserInSlots DEF IInv, Types, Parents, WokenAt, InSwap, Second
<1>5. Parts'
  BY UserInSlots DEF IInv, Parts, WokenAt, InSwap, Entering, Second
<1>6. Buffer'
  BY DEF IInv, Buffer, WokenAt, Second
<1>7. SleepersWake'
  BY UserInSlots DEF IInv, Types, SleepersWake, WokenAt, Second, Less
<1> QED BY <1>1, <1>2, <1>3, <1>4, <1>5, <1>6, <1>7 DEF IInv

LEMMA SchedIdleStep ==
  ASSUME IInv, Running, SchedIdle
  PROVE  IInv'
<1>1. Types'
  BY DEF IInv, Types, images, clock, PCs, Stats, SchedIdle
<1>2. Pages'
  BY DEF IInv, Pages, images, SchedIdle
<1>3. Places'
  BY UserInSlots DEF IInv, Places, images, InSwap, SchedIdle
<1>4. Parents'
  BY DEF IInv, Places, Parents, images, InSwap, SchedIdle
<1>5. Parts'
  BY DEF IInv, Parts, images, InSwap, Entering, SchedIdle, SchedAt, Round
<1>6. Buffer'
  BY DEF IInv, Buffer, SchedIdle, SchedAt, Round
<1>7. SleepersWake'
  BY DEF IInv, SleepersWake, clock, SchedIdle
<1> QED BY <1>1, <1>2, <1>3, <1>4, <1>5, <1>6, <1>7 DEF IInv

LEMMA SchedFullStep ==
  ASSUME IInv, Running, SchedFull
  PROVE  IInv'
<1>1. Types'
  BY DEF IInv, Types, images, clock, PCs, Stats, SchedFull
<1>2. Pages'
  BY DEF IInv, Pages, images, SchedFull
<1>3. Places'
  BY UserInSlots DEF IInv, Places, images, InSwap, SchedFull
<1>4. Parents'
  BY DEF IInv, Places, Parents, images, InSwap, SchedFull
<1>5. Parts'
  BY DEF IInv, Parts, images, InSwap, Entering, SchedFull, SchedAt, Round
<1>6. Buffer'
  BY DEF IInv, Buffer, SchedFull, SchedAt, Round
<1>7. SleepersWake'
  BY DEF IInv, SleepersWake, clock, SchedFull
<1> QED BY <1>1, <1>2, <1>3, <1>4, <1>5, <1>6, <1>7 DEF IInv

LEMMA SchedInStep ==
  ASSUME IInv, Running, SchedIn
  PROVE  IInv'
<1>1. Types'
  <2>1. Longest \in Slots /\ size[Longest] \in 0 .. MaxSize
    BY LongestReady, UserInSlots DEF IInv, Types, Ready, SchedIn
  <2>2. freeMem' \in Nat
    BY <2>1, Consts DEF IInv, Types, SchedIn
  <2> QED BY <2>1, <2>2, UserInSlots DEF IInv, Types, PCs, Stats, flags, clock, SchedIn, SwapBuf
<1>2. Pages'
  <2>1. Longest \in User /\ mem[Longest] = 0 /\ size[Longest] \in 0 .. MaxSize
    BY LongestReady, UserInSlots
    DEF Running, IInv, Types, Places, Parts, Ready, InSwap, Entering, SchedIn, Round, SchedAt
  <2>2. /\ Total(mem) \in Nat
        /\ Total([mem EXCEPT ![Longest] = size[Longest]]) = (Total(mem) - mem[Longest]) + size[Longest]
    BY <2>1, PagesChange DEF IInv
  <2> QED BY <2>1, <2>2, Consts DEF IInv, Types, Pages, SchedIn
<1>3. Places'
  BY UserInSlots DEF IInv, Types, Places, InSwap, SchedIn, SwapBuf
<1>4. Parents'
  BY UserInSlots DEF IInv, Types, Places, Parents, InSwap, SchedIn, SwapBuf
<1>5. Parts'
  <2>1. Longest \in Ready
    BY LongestReady DEF IInv, SchedIn
  <2> QED BY <2>1, UserInSlots
    DEF Running, IInv, Types, Places, Parts, Ready, Entering, InSwap, flags, clock, SchedIn, Round, SchedAt, SwapBuf
<1>6. Buffer'
  BY UserInSlots DEF IInv, Types, Buffer, SchedIn, SchedAt, Round, SwapBuf
<1>7. SleepersWake'
  BY UserInSlots DEF IInv, Types, SleepersWake, clock, SchedIn, SwapBuf
<1> QED BY <1>1, <1>2, <1>3, <1>4, <1>5, <1>6, <1>7 DEF IInv

LEMMA SchedInDoneStep ==
  ASSUME IInv, Running, SchedInDone
  PROVE  IInv'
<1>1. Types'
  BY UserInSlots, Consts DEF IInv, Types, flags, clock, PCs, Stats, SchedInDone, SwapEnd
<1>2. Pages'
  <2>1. selected \in User /\ swp[selected] = size[selected]
    BY DEF IInv, Parts, InSwap, SchedInDone, SwapEnd
  <2>2. swp[selected] \in Nat /\ 0 \in 0 .. MaxSize
    BY <2>1, Consts, UserInSlots DEF IInv, Types
  <2>3. Total(swp) \in Nat /\ Total([swp EXCEPT ![selected] = 0]) = (Total(swp) - swp[selected]) + 0
    BY <2>1, <2>2, PagesChange DEF IInv
  <2> QED BY <2>1, <2>3, <2>2, UserInSlots, Consts DEF IInv, Types, Pages, SchedInDone
<1>3. Places'
  BY UserInSlots DEF IInv, Places, InSwap, SchedInDone, SwapEnd
<1>4. Parents'
  BY UserInSlots DEF IInv, Types, Parents, InSwap, SchedInDone, SwapEnd
<1>5. Parts'
  BY UserInSlots DEF IInv, Types, Parts, InSwap, Entering, SchedInDone, SwapEnd
<1>6. Buffer'
  BY UserInSlots DEF IInv, Types, Buffer, SchedInDone, SwapEnd
<1>7. SleepersWake'
  BY UserInSlots DEF IInv, SleepersWake, clock, SchedInDone, SwapEnd
<1> QED BY <1>1, <1>2, <1>3, <1>4, <1>5, <1>6, <1>7 DEF IInv

LEMMA SwapAgainStep ==
  ASSUME IInv, Running, NEW p \in Slots, SwapAgain(p)
  PROVE  IInv'
<1>1. Types'
  BY DEF IInv, Types, images, flags, clock, PCs, Stats, SwapAgain, SwapBuf
<1>2. Pages'
  BY DEF IInv, Pages, images, SwapAgain
<1>3. Places'
  BY UserInSlots DEF IInv, Types, Places, images, InSwap, SwapAgain, SwapBuf
<1>4. Parents'
  BY UserInSlots DEF IInv, Types, Parents, images, InSwap, SwapAgain, SwapBuf, CanRun
<1>5. Parts'
  BY UserInSlots DEF IInv, Types, Parts, images, InSwap, Entering, SwapAgain, SwapBuf
<1>6. Buffer'
  BY DEF IInv, Types, Buffer, SwapAgain, SwapBuf
<1>7. SleepersWake'
  BY UserInSlots DEF IInv, Types, SleepersWake, clock, SwapAgain, SwapBuf
<1> QED BY <1>1, <1>2, <1>3, <1>4, <1>5, <1>6, <1>7 DEF IInv

LEMMA XSwapDoneStep ==
  ASSUME IInv, Running, NEW p \in User, XSwapDone(p)
  PROVE  IInv'
<1>1. Types'
  <2>1. mem[p] \in 0 .. MaxSize /\ freeMem + mem[p] \in Nat
    BY UserInSlots, Consts DEF IInv, Types
  <2>2. stat' \in [Slots -> Stats]
    BY UserInSlots DEF IInv, Types, Stats, NoProc, XSwapDone, SwapEnd
  <2>3. pc' \in [Slots -> PCs] /\ SwBuf' \subseteq {"BUSY", "WANTED", "DONE"}
    BY UserInSlots DEF IInv, Types, PCs, XSwapDone, SwapEnd
  <2>4. /\ mem' \in [Slots -> 0 .. MaxSize] /\ load' \in [Slots -> BOOLEAN]
        /\ time' \in [Slots -> 0 .. MaxTime] /\ parent' \in [Slots -> Slots]
    BY UserInSlots, Consts DEF IInv, Types, NoProc, XSwapDone
  <2> QED BY <2>1, <2>2, <2>3, <2>4 DEF IInv, Types, clock, XSwapDone
<1>2. Pages'
  <2>1. mem[p] \in Nat /\ 0 \in 0 .. MaxSize
    BY Consts, UserInSlots DEF IInv, Types
  <2>2. Total(mem) \in Nat /\ Total([mem EXCEPT ![p] = 0]) = (Total(mem) - mem[p]) + 0
    BY <2>1, PagesChange DEF IInv
  <2> QED BY <2>1, <2>2, UserInSlots, Consts DEF IInv, Types, Pages, XSwapDone
<1>3. Places'
  BY UserInSlots DEF IInv, Types, Places, InSwap, XSwapDone, SwapEnd, CanRun
<1>4. Parents'
  BY UserInSlots DEF IInv, Types, Parents, InSwap, XSwapDone, SwapEnd
<1>5. Parts'
  BY UserInSlots DEF IInv, Types, Parts, InSwap, Entering, XSwapDone, SwapEnd
<1>6. Buffer'
  BY UserInSlots DEF IInv, Types, Buffer, XSwapDone, SwapEnd
<1>7. SleepersWake'
  BY UserInSlots DEF IInv, SleepersWake, clock, XSwapDone, SwapEnd
<1> QED BY <1>1, <1>2, <1>3, <1>4, <1>5, <1>6, <1>7 DEF IInv

LEMMA NewProcStep ==
  ASSUME IInv, Running, NEW p \in User, NewProc(p)
  PROVE  IInv'
<1>1. Types'
  <2> PICK c \in User :
        /\ stat[c] = "SNULL" /\ size' = [size EXCEPT ![c] = size[p]]
        /\ load' = [load EXCEPT ![c] = TRUE] /\ time' = [time EXCEPT ![c] = 0]
        /\ \/ /\ size[p] <= freeMem
              /\ mem' = [mem EXCEPT ![c] = size[p]]
              /\ freeMem' = freeMem - size[p]
              /\ stat' = [stat EXCEPT ![c] = "SRUN"]
              /\ UNCHANGED <<swp, parent, pc, freeSwap, SwBuf>>
           \/ /\ parent' = [parent EXCEPT ![c] = p]
              /\ XSwap(c, [stat EXCEPT ![p] = "SIDL"])
              /\ UNCHANGED <<mem, freeMem>>
    BY DEF NewProc

  <2>1. /\ c \in Slots /\ p \in Slots /\ size[p] \in 0 .. MaxSize /\ size'[c] = size[p]
    BY UserInSlots DEF IInv, Types
  <2>2. freeMem' \in Nat /\ freeSwap' \in Nat
    BY <2>1, Consts DEF IInv, Types, XSwap
  <2>3. stat' \in [Slots -> Stats] /\ pc' \in [Slots -> PCs]
    BY <2>1, UserInSlots DEF IInv, Types, PCs, Stats, NewProc, XSwap, SwapBuf
  <2>4. mem' \in [Slots -> 0 .. MaxSize] /\ swp' \in [Slots -> 0 .. MaxSize]
    BY <2>1, UserInSlots DEF IInv, Types, NewProc, XSwap
  <2>5. SwBuf' \subseteq {"BUSY", "WANTED", "DONE"}
    <3>1. SwBuf' \in {SwBuf, SwBuf \cup {"WANTED"}, {"BUSY"}}
      BY DEF NewProc, XSwap, SwapBuf
    <3> QED BY <3>1 DEF IInv, Types
  <2>6. parent' \in [Slots -> Slots]
    BY <2>1, UserInSlots DEF IInv, Types, NewProc
  <2>7. UNCHANGED <<selected, RunIn, RunOut, tout, left>>
    BY DEF NewProc, flags, clock
  <2>8. /\ size' \in [Slots -> 0 .. MaxSize] /\ load' \in [Slots -> BOOLEAN]
        /\ time' \in [Slots -> 0 .. MaxTime]
    BY <2>1, Consts DEF IInv, Types
  <2> QED BY <2>2, <2>3, <2>4, <2>5, <2>6, <2>7, <2>8 DEF IInv, Types
<1>2. Pages'
  <2> PICK c \in User :
        /\ stat[c] = "SNULL" /\ size' = [size EXCEPT ![c] = size[p]]
        /\ load' = [load EXCEPT ![c] = TRUE] /\ time' = [time EXCEPT ![c] = 0]
        /\ \/ /\ size[p] <= freeMem
              /\ mem' = [mem EXCEPT ![c] = size[p]]
              /\ freeMem' = freeMem - size[p]
              /\ stat' = [stat EXCEPT ![c] = "SRUN"]
              /\ UNCHANGED <<swp, parent, pc, freeSwap, SwBuf>>
           \/ /\ parent' = [parent EXCEPT ![c] = p]
              /\ XSwap(c, [stat EXCEPT ![p] = "SIDL"])
              /\ UNCHANGED <<mem, freeMem>>
    BY DEF NewProc

  <2>1. /\ size[p] \in 0 .. MaxSize /\ size'[c] = size[p] /\ mem[c] = 0
        /\ swp[c] = 0
    BY UserInSlots DEF Running, IInv, Types, Places, Parts
  <2>2. /\ Total(mem) \in Nat /\ Total([mem EXCEPT ![c] = size[p]]) = Total(mem) + size[p]
        /\ Total(swp) \in Nat /\ Total([swp EXCEPT ![c] = size[p]]) = Total(swp) + size[p]
    BY <2>1, PagesChange, Consts DEF IInv
  <2>3. /\ freeMem \in Nat /\ freeMem + Total(mem) = Mem
        /\ freeSwap \in Nat /\ freeSwap + Total(swp) = SwapArea
    BY DEF IInv, Types, Pages
  <2>4. \/ freeMem' = freeMem /\ mem' = mem
        \/ freeMem' = freeMem - size[p] /\ mem' = [mem EXCEPT ![c] = size[p]]
    OBVIOUS
  <2>5. \/ freeSwap' = freeSwap /\ swp' = swp
        \/ freeSwap' = freeSwap - size[p] /\ swp' = [swp EXCEPT ![c] = size[p]]
    BY <2>1 DEF XSwap
  <2>6. freeMem' + Total(mem') = Mem
    BY <2>1, <2>2, <2>3, <2>4, Consts
  <2>7. freeSwap' + Total(swp') = SwapArea
    BY <2>1, <2>2, <2>3, <2>5, Consts
  <2> QED BY <2>6, <2>7 DEF Pages
<1>3. Places'
  BY UserInSlots DEF IInv, Types, Places, InSwap, NewProc, XSwap, SwapBuf, InUser, CanRun
<1>4. Parents'
  <2> PICK c \in User :
        /\ stat[c] = "SNULL" /\ size' = [size EXCEPT ![c] = size[p]]
        /\ load' = [load EXCEPT ![c] = TRUE] /\ time' = [time EXCEPT ![c] = 0]
        /\ \/ /\ size[p] <= freeMem
              /\ mem' = [mem EXCEPT ![c] = size[p]]
              /\ freeMem' = freeMem - size[p]
              /\ stat' = [stat EXCEPT ![c] = "SRUN"]
              /\ UNCHANGED <<swp, parent, pc, freeSwap, SwBuf>>
           \/ /\ parent' = [parent EXCEPT ![c] = p]
              /\ XSwap(c, [stat EXCEPT ![p] = "SIDL"])
              /\ UNCHANGED <<mem, freeMem>>
    BY DEF NewProc

  <2> QED BY UserInSlots
    DEF Running, IInv, Types, Places, Parents, InSwap, NoProc, XSwap, SwapBuf, InUser, CanRun, NewProc
<1>5. Parts'
  BY UserInSlots
  DEF IInv, Types, Places, Parts, InSwap, Entering, NewProc, XSwap, SwapBuf, InUser, CanRun
<1>6. Buffer'
  BY UserInSlots DEF IInv, Types, Places, Buffer, InSwap, NewProc, XSwap, SwapBuf
<1>7. SleepersWake'
  BY UserInSlots DEF IInv, Types, SleepersWake, clock, NewProc, XSwap, SwapBuf
<1> QED BY <1>1, <1>2, <1>3, <1>4, <1>5, <1>6, <1>7 DEF IInv

LEMMA ExitStep ==
  ASSUME IInv, Running, NEW p \in User, Exit(p)
  PROVE  IInv'
<1>1. Types'
  BY UserInSlots, Consts DEF IInv, Types, flags, clock, Stats, Exit
<1>2. Pages'
  <2>1. mem[p] \in Nat /\ 0 \in 0 .. MaxSize
    BY Consts, UserInSlots DEF IInv, Types
  <2>2. Total(mem) \in Nat /\ Total([mem EXCEPT ![p] = 0]) = (Total(mem) - mem[p]) + 0
    BY <2>1, PagesChange DEF IInv
  <2> QED BY <2>1, <2>2, UserInSlots, Consts DEF IInv, Types, Pages, Exit
<1>3. Places'
  BY DEF IInv, Types, Places, InSwap, Exit, InUser
<1>4. Parents'
  BY DEF IInv, Parents, InSwap, Exit, InUser, CanRun
<1>5. Parts'
  BY DEF IInv, Types, Parts, InSwap, Entering, Exit, InUser, CanRun
<1>6. Buffer'
  BY DEF IInv, Buffer, Exit
<1>7. SleepersWake'
  BY DEF IInv, SleepersWake, clock, Exit
<1> QED BY <1>1, <1>2, <1>3, <1>4, <1>5, <1>6, <1>7 DEF IInv

LEMMA SleepStep ==
  ASSUME IInv, Running, NEW p \in User, Sleep(p)
  PROVE  IInv'
<1>1. Types'
  BY DEF IInv, Types, images, clock, WokenAt, Stats, Sleep, SleepWait
<1>2. Pages'
  BY DEF IInv, Pages, images, Sleep, SleepWait
<1>3. Places'
  BY UserInSlots DEF IInv, Places, images, WokenAt, InSwap, Sleep, SleepWait, InUser, CanRun
<1>4. Parents'
  BY UserInSlots DEF IInv, Types, Parents, images, WokenAt, InSwap, Sleep, SleepWait, InUser, CanRun
<1>5. Parts'
  BY UserInSlots
  DEF IInv, Parts, images, WokenAt, InSwap, Entering, Sleep, SleepWait, InUser, CanRun
<1>6. Buffer'
  BY DEF IInv, Buffer, WokenAt, Sleep, SleepWait
<1>7. SleepersWake'
  BY UserInSlots DEF IInv, SleepersWake, clock, WokenAt, Sleep, SleepWait, InUser
<1> QED BY <1>1, <1>2, <1>3, <1>4, <1>5, <1>6, <1>7 DEF IInv

LEMMA SetRunStep ==
  ASSUME IInv, Running, NEW p \in User, SetRun(p)
  PROVE  IInv'
<1>1. Types'
  BY UserInSlots, Consts DEF IInv, Types, images, WokenAt, PCs, Stats, SetRun
<1>2. Pages'
  BY DEF IInv, Pages, images, SetRun
<1>3. Places'
  BY UserInSlots DEF IInv, Places, images, WokenAt, InSwap, SetRun
<1>4. Parents'
  BY UserInSlots DEF Running, IInv, Types, Places, Parents, images, WokenAt, InSwap, SetRun
<1>5. Parts'
  BY UserInSlots DEF Running, IInv, Places, Parts, images, WokenAt, InSwap, Entering, SetRun
<1>6. Buffer'
  BY DEF IInv, Places, Buffer, WokenAt, SetRun
<1>7. SleepersWake'
  BY UserInSlots DEF IInv, SleepersWake, WokenAt, SetRun
<1> QED BY <1>1, <1>2, <1>3, <1>4, <1>5, <1>6, <1>7 DEF IInv

LEMMA SleepAgainStep ==
  ASSUME IInv, Running, NEW p \in User, SleepAgain(p)
  PROVE  IInv'
<1>1. Types'
  BY UserInSlots DEF IInv, Types, images, WokenAt, Stats, SleepAgain, SleepFor, SleepWait
<1>2. Pages'
  BY DEF IInv, Pages, images, SleepAgain, SleepFor, SleepWait
<1>3. Places'
  BY UserInSlots DEF IInv, Places, images, WokenAt, InSwap, SleepAgain, SleepFor, SleepWait
<1>4. Parents'
  BY UserInSlots
  DEF IInv, Types, Places, Parents, images, WokenAt, InSwap, SleepAgain, SleepFor, SleepWait
<1>5. Parts'
  BY UserInSlots DEF IInv, Parts, images, WokenAt, InSwap, Entering, SleepAgain, SleepFor, SleepWait
<1>6. Buffer'
  BY DEF IInv, Buffer, WokenAt, SleepAgain, SleepFor, SleepWait
<1>7. SleepersWake'
  BY UserInSlots DEF IInv, Types, SleepersWake, WokenAt, SleepAgain, SleepFor, SleepWait
<1> QED BY <1>1, <1>2, <1>3, <1>4, <1>5, <1>6, <1>7 DEF IInv

LEMMA SleepReturnStep ==
  ASSUME IInv, Running, NEW p \in User, SleepReturn(p)
  PROVE  IInv'
<1>1. Types'
  BY DEF IInv, Types, images, flags, clock, PCs, SleepReturn
<1>2. Pages'
  BY DEF IInv, Pages, images, SleepReturn
<1>3. Places'
  BY DEF IInv, Places, images, InSwap, SleepReturn
<1>4. Parents'
  BY DEF IInv, Parents, images, InSwap, SleepReturn
<1>5. Parts'
  BY DEF IInv, Parts, images, InSwap, Entering, SleepReturn
<1>6. Buffer'
  BY DEF IInv, Buffer, SleepReturn
<1>7. SleepersWake'
  BY DEF IInv, SleepersWake, clock, SleepReturn
<1> QED BY <1>1, <1>2, <1>3, <1>4, <1>5, <1>6, <1>7 DEF IInv

LEMMA GrowStep ==
  ASSUME IInv, Running, NEW p \in User, NEW n \in 1 .. MaxSize, Grow(p, n)
  PROVE  IInv'
<1>1. Types'
  <2>1. p \in Slots /\ mem[p] = size[p] /\ swp[p] = 0 /\ size[p] \in 0 .. MaxSize
    BY UserInSlots DEF IInv, Types, Parts, InSwap, Entering, Grow, InUser, CanRun

  <2>2. n \in 0 .. MaxSize /\ size'[p] = n
    BY <2>1, Consts DEF IInv, Types, Grow
  <2>3. freeMem' \in Nat /\ freeSwap' \in Nat
    BY <2>1, <2>2, Consts DEF IInv, Types, Grow, XSwap
  <2>4. stat' \in [Slots -> Stats] /\ pc' \in [Slots -> PCs]
    BY <2>1, UserInSlots DEF IInv, Types, PCs, Stats, Grow, XSwap, SwapBuf
  <2>5. mem' \in [Slots -> 0 .. MaxSize] /\ swp' \in [Slots -> 0 .. MaxSize]
    BY <2>1, <2>2, UserInSlots DEF IInv, Types, Grow, XSwap
  <2>6. SwBuf' \subseteq {"BUSY", "WANTED", "DONE"}
    <3>1. SwBuf' \in {SwBuf, SwBuf \cup {"WANTED"}, {"BUSY"}}
      BY DEF Grow, XSwap, SwapBuf
    <3> QED BY <3>1 DEF IInv, Types
  <2>7. parent' \in [Slots -> Slots]
    BY <2>1, UserInSlots DEF IInv, Types, Grow
  <2> QED BY <2>1, <2>2, <2>3, <2>4, <2>5, <2>6, <2>7, Consts DEF IInv, Types, flags, clock, Grow
<1>2. Pages'
  <2>1. p \in Slots /\ mem[p] = size[p] /\ swp[p] = 0 /\ size[p] \in 0 .. MaxSize
    BY UserInSlots DEF IInv, Types, Parts, InSwap, Entering, Grow, InUser, CanRun

  <2>2. n \in 0 .. MaxSize /\ size'[p] = n
    BY <2>1, Consts DEF IInv, Types, Grow
  <2>3. /\ Total(mem) \in Nat /\ Total([mem EXCEPT ![p] = n]) = (Total(mem) - size[p]) + n
        /\ Total(swp) \in Nat /\ Total([swp EXCEPT ![p] = n]) = Total(swp) + n
    BY <2>1, <2>2, PagesChange, Consts DEF IInv
  <2>4. /\ freeMem \in Nat /\ freeMem + Total(mem) = Mem
        /\ freeSwap \in Nat /\ freeSwap + Total(swp) = SwapArea
    BY DEF IInv, Types, Pages
  <2>5. \/ freeMem' = freeMem /\ mem' = mem
        \/ freeMem' = (freeMem - n) + size[p] /\ mem' = [mem EXCEPT ![p] = n]
    BY DEF Grow
  <2>6. \/ freeSwap' = freeSwap /\ swp' = swp
        \/ freeSwap' = freeSwap - n /\ swp' = [swp EXCEPT ![p] = n]
    BY <2>2 DEF Grow, XSwap
  <2>7. freeMem' + Total(mem') = Mem
    BY <2>1, <2>2, <2>3, <2>4, <2>5, Consts
  <2>8. freeSwap' + Total(swp') = SwapArea
    BY <2>2, <2>3, <2>4, <2>6, Consts
  <2> QED BY <2>7, <2>8 DEF Pages
<1>3. Places'
  BY UserInSlots DEF IInv, Types, Places, InSwap, Grow, XSwap, SwapBuf, InUser, CanRun
<1>4. Parents'
  BY UserInSlots DEF IInv, Types, Parents, InSwap, Grow, XSwap, SwapBuf, InUser, CanRun
<1>5. Parts'
  BY UserInSlots DEF IInv, Types, Parts, InSwap, Entering, Grow, XSwap, SwapBuf, InUser, CanRun
<1>6. Buffer'
  BY UserInSlots DEF IInv, Types, Buffer, Grow, XSwap, SwapBuf, InUser
<1>7. SleepersWake'
  BY UserInSlots DEF IInv, Types, SleepersWake, clock, Grow, XSwap, SwapBuf
<1> QED BY <1>1, <1>2, <1>3, <1>4, <1>5, <1>6, <1>7 DEF IInv

LEMMA ShrinkStep ==
  ASSUME IInv, Running, NEW p \in User, NEW n \in 1 .. MaxSize, Shrink(p, n)
  PROVE  IInv'
<1>1. Types'
  BY UserInSlots DEF IInv, Types, flags, clock, Shrink
<1>2. Pages'
  <2>1. p \in Slots /\ mem[p] = size[p] /\ swp[p] = 0 /\ size[p] \in 0 .. MaxSize
    BY UserInSlots DEF IInv, Types, Parts, InSwap, Entering, Shrink, InUser, CanRun

  <2>2. n \in 0 .. MaxSize
    BY <2>1, Consts DEF Shrink
  <2>3. Total(mem) \in Nat /\ Total([mem EXCEPT ![p] = n]) = (Total(mem) - size[p]) + n
    BY <2>1, <2>2, PagesChange, Consts DEF IInv
  <2> QED BY <2>1, <2>3, Consts DEF IInv, Types, Pages, Shrink
<1>3. Places'
  BY DEF IInv, Places, InSwap, Shrink
<1>4. Parents'
  BY DEF IInv, Parents, InSwap, Shrink
<1>5. Parts'
  BY DEF IInv, Types, Parts, InSwap, Entering, Shrink, InUser, CanRun
<1>6. Buffer'
  BY DEF IInv, Buffer, Shrink
<1>7. SleepersWake'
  BY DEF IInv, SleepersWake, clock, Shrink
<1> QED BY <1>1, <1>2, <1>3, <1>4, <1>5, <1>6, <1>7 DEF IInv

LEMMA SleepCallStep ==
  ASSUME IInv, Running, NEW p \in User, NEW n \in 1 .. MaxSleep, SleepCall(p, n)
  PROVE  IInv'
<1>1. Types'
  <2>1. n \in 0 .. MaxSleep /\ tout' \in 0 .. MaxSleep
    BY Consts DEF IInv, Types, SleepCall, SleepFor
  <2> QED BY <2>1, UserInSlots, Consts
    DEF IInv, Types, PCs, Stats, images, WokenAt, SleepCall, SleepFor, SleepWait, InUser, CanRun
<1>2. Pages'
  BY DEF IInv, Pages, images, SleepCall, SleepFor, SleepWait
<1>3. Places'
  BY UserInSlots
  DEF IInv, Places, images, WokenAt, InSwap, SleepCall, SleepFor, SleepWait, InUser, CanRun
<1>4. Parents'
  BY UserInSlots
  DEF IInv, Types, Parents, images, WokenAt, InSwap, SleepCall, SleepFor, SleepWait, InUser, CanRun
<1>5. Parts'
  BY UserInSlots
  DEF IInv, Parts, images, WokenAt, InSwap, Entering, SleepCall, SleepFor, SleepWait, InUser, CanRun
<1>6. Buffer'
  BY DEF IInv, Buffer, WokenAt, SleepCall, SleepFor, SleepWait, InUser
<1>7. SleepersWake'
  BY UserInSlots DEF IInv, Types, SleepersWake, WokenAt, SleepCall, SleepFor, SleepWait
<1> QED BY <1>1, <1>2, <1>3, <1>4, <1>5, <1>6, <1>7 DEF IInv

----------------------------------------------------------------------------
(* The theorems *)

LEMMA InitInv == Init => IInv
<1> SUFFICES ASSUME Init PROVE IInv
  OBVIOUS
<1>1. 1 \in User /\ 1 \in Slots
  BY Consts DEF User, Slots
<1>2. Types
  <2>1. Mem - 1 \in Nat /\ SwapArea \in Nat /\ MaxTime \in Nat /\ 1 \in 0 .. MaxSize /\ 0 \in 0 .. MaxSize
    BY Consts
  <2>2. size \in [Slots -> 0 .. MaxSize] /\ mem \in [Slots -> 0 .. MaxSize] /\ swp \in [Slots -> 0 .. MaxSize]
    BY <2>1 DEF Init
  <2>3. /\ stat \in [Slots -> Stats] /\ load \in [Slots -> BOOLEAN] /\ pc \in [Slots -> PCs]
        /\ time \in [Slots -> 0 .. MaxTime] /\ left \in [Slots -> 0 .. MaxSleep]
    BY Consts DEF Init, Stats, PCs
  <2>4. parent \in [Slots -> Slots] /\ selected \in Slots
    BY UserInSlots DEF Init, NoProc
  <2> QED BY <2>1, <2>2, <2>3, <2>4, Consts DEF Init, Types
<1>3. Pages
  <2> DEFINE z == [p \in Slots |-> 0]
  <2>1. mem = [z EXCEPT ![1] = 1] /\ swp = z
    BY DEF Init
  <2>2. z \in [Slots -> Nat] /\ z[1] = 0 /\ Total(z) = 0
    BY <1>1, TotalZero
  <2>3. Total(mem) = (Total(z) - z[1]) + 1
    <3> HIDE DEF z
    <3> QED BY <1>1, <2>1, <2>2, TotalChange
  <2>4. Total(mem) = 1 /\ Total(swp) = 0
    BY <2>1, <2>2, <2>3
  <2> HIDE DEF z
  <2> QED BY <2>4, Consts DEF Init, Pages
<1>4. Places /\ Parents /\ Parts
  <2>1. \A p \in User : p \in Slots /\ p \in Nat /\ p # 0
    BY Consts, UserInSlots DEF User
  <2> USE UserInSlots
  <2>2. pc[0] = "loop" /\ stat[0] = "SRUN" /\ load[0] /\ parent[0] = 0
    <3>1. pc[0] = "loop" /\ parent[0] = 0
      BY DEF Init, NoProc
    <3>2. stat[0] = "SRUN"
      BY DEF Init
    <3>3. load[0]
      <4>1. PICK p \in Slots : p = 0 /\ p <= 1
        OBVIOUS
      <4>2. load[p]
        BY <4>1 DEF Init
      <4> QED BY <4>1, <4>2
    <3> QED BY <3>1, <3>2, <3>3
  <2>3. \A p \in User : /\ pc[p] = "user" /\ parent[p] = 0 /\ swp[p] = 0 /\ mem[p] = size[p]
                        /\ p = 1 => stat[p] = "SRUN" /\ load[p]
                        /\ p # 1 => stat[p] = "SNULL" /\ size[p] = 0
    <3> SUFFICES ASSUME NEW p \in User
                 PROVE  /\ pc[p] = "user" /\ parent[p] = 0 /\ swp[p] = 0 /\ mem[p] = size[p]
                        /\ p = 1 => stat[p] = "SRUN" /\ load[p]
                        /\ p # 1 => stat[p] = "SNULL" /\ size[p] = 0
      OBVIOUS
    <3>1. p \in Slots /\ p # 0 /\ (p <= 1 <=> p = 1)
      BY <2>1
    <3>2. pc[p] = "user" /\ parent[p] = 0 /\ swp[p] = 0 /\ mem[p] = size[p]
      BY <3>1 DEF Init, NoProc
    <3>3. stat[p] = (IF p = 1 THEN "SRUN" ELSE "SNULL") /\ size[p] = (IF p = 1 THEN 1 ELSE 0)
      BY <3>1 DEF Init
    <3>4. p = 1 => load[p]
      BY <3>1 DEF Init
    <3> QED BY <3>2, <3>3, <3>4
  <2>4. Places
    BY <2>2, <2>3 DEF Places
  <2>5. Parents
    BY <2>2, <2>3 DEF Parents, NoProc
  <2>6. Parts
    BY <2>2, <2>3 DEF Parts, InSwap, Entering
  <2> QED BY <2>4, <2>5, <2>6
<1>5. Buffer /\ SleepersWake
  BY UserInSlots DEF Init, Buffer, SleepersWake
<1> QED BY <1>2, <1>3, <1>4, <1>5 DEF IInv

LEMMA StepInv == IInv /\ [Running /\ Next]_vars => IInv'
<1> SUFFICES ASSUME IInv, [Running /\ Next]_vars PROVE IInv'
  OBVIOUS
<1>1. CASE Running /\ Next
  <2>1. CASE IODone \/ Second \/ Sched
    BY <1>1, <2>1, IODoneStep, SecondStep, SchedIdleStep, SchedFullStep, SchedInStep, SchedInDoneStep
    DEF Sched
  <2>2. ASSUME NEW p \in Slots, SwapAgain(p) PROVE IInv'
    BY <1>1, <2>2, SwapAgainStep
  <2>3. ASSUME NEW p \in User,
               XSwapDone(p) \/ NewProc(p) \/ Exit(p) \/ Sleep(p) \/ SetRun(p) \/ SleepAgain(p) \/ SleepReturn(p)
        PROVE  IInv'
    BY <1>1, <2>3, XSwapDoneStep, NewProcStep, ExitStep, SleepStep, SetRunStep, SleepAgainStep, SleepReturnStep
  <2>4. ASSUME NEW p \in User, NEW n \in 1 .. MaxSize, Grow(p, n) \/ Shrink(p, n) PROVE IInv'
    BY <1>1, <2>4, GrowStep, ShrinkStep
  <2>5. ASSUME NEW p \in User, NEW n \in 1 .. MaxSleep, SleepCall(p, n) PROVE IInv'
    BY <1>1, <2>5, SleepCallStep
  <2> QED BY <1>1, <2>1, <2>2, <2>3, <2>4, <2>5 DEF Next
<1>2. CASE UNCHANGED vars
  BY <1>2 DEF vars, images, flags, clock, IInv, Types, Pages, Places, Parents, Parts, Buffer,
              SleepersWake, InSwap, Entering
<1> QED BY <1>1, <1>2

LEMMA Invariance == Spec => []IInv
  BY InitInv, StepInv, PTL DEF Spec

\* Every variable of the swapper has its type; the pages that are free are
\* never fewer than none nor more than there are: XSwap and Expand
\* (proc/ProcessManager.cpp, proc/Process.cpp) give back what they took.
THEOREM TypeCorrect == Spec => []TypeOK
<1>1. IInv => TypeOK
  <2> SUFFICES ASSUME IInv PROVE TypeOK
    OBVIOUS
  <2>1. Total(mem) \in Nat /\ Total(swp) \in Nat
    <3>1. 1 \in User /\ 0 \in 0 .. MaxSize
      BY Consts DEF User
    <3> QED BY <3>1, PagesChange DEF IInv
  <2>2. freeMem \in 0 .. Mem /\ freeSwap \in 0 .. SwapArea
    BY <2>1, Consts DEF IInv, Types, Pages
  <2> QED BY <2>2 DEF IInv, Types, TypeOK
<1> QED BY <1>1, Invariance, PTL

\* Where an image is, and that no page is lost or counted twice, whichever
\* transfers XSwap, Expand, NewProc and Sched do and in whichever order.
THEOREM ImagesAreWhole == Spec => []Images
<1>1. IInv => Images
  BY UserInSlots DEF IInv, Types, Pages, Parts, Images
<1> QED BY <1>1, Invariance, PTL

\* BufferManager::Swap (dev/BufferManager.cpp): one transfer at a time, and
\* nobody is stranded on the one buffer.
THEOREM NobodySleepsForEver == Spec => []SwapWakes
<1>1. IInv => SwapWakes
  <2> SUFFICES ASSUME IInv PROVE SwapWakes
    OBVIOUS
  <2> DEFINE Holder == {p \in Slots : pc[p] = "swio"}
  <2>1. Holder # {} <=> "BUSY" \in SwBuf
    BY DEF IInv, Buffer
  <2>2. Cardinality(Holder) <= 1
    <3>1. CASE Holder = {}
      BY <3>1, FS_EmptySet
    <3>2. CASE Holder # {}
      <4>1. PICK h : Holder = {h}
        BY <3>2 DEF IInv, Buffer
      <4> HIDE DEF Holder
      <4>2. Cardinality({h}) = 1
        BY FS_Singleton
      <4> QED BY <4>1, <4>2
    <3> QED BY <3>1, <3>2
  <2>3. \A p \in Holder : stat[p] = "SSLEEP" => "DONE" \notin SwBuf
    BY DEF IInv, Buffer
  <2>4. \A p \in Slots : pc[p] = "swbuf" /\ stat[p] = "SSLEEP" => {"BUSY", "WANTED"} \subseteq SwBuf
    BY DEF IInv, Buffer
  <2> HIDE DEF Holder
  <2>5. \A p \in Slots : pc[p] = "swbuf" /\ stat[p] = "SSLEEP" =>
          Holder # {} /\ ("DONE" \in SwBuf => "WANTED" \in SwBuf)
    BY <2>1, <2>4
  <2> USE DEF Holder
  <2> QED BY <2>1, <2>2, <2>3, <2>5 DEF SwapWakes
<1> QED BY <1>1, Invariance, PTL

\* One time to wake at serves all sleepers of Sys_Sslep (interrupt/SystemCall.cpp).
THEOREM SleepersAreWoken == Spec => []SleepersWake
  BY Invariance, PTL DEF IInv
=============================================================================
