-------------------------- MODULE DirectoryProofs --------------------------
(***************************************************************************)
(* The properties of Directory, proved for any number of processes, names, *)
(* files and blocks, when all names take the same number of slots: names   *)
(* of up to 24 characters take one.                                        *)
(***************************************************************************)
EXTENDS Directory, FiniteSetTheorems, SequenceTheorems, TLAPS

\* the slots of an entry
L == Len(CHOOSE n \in Name : TRUE)

\* What the search gets right.  With names of different lengths a long name
\* goes to a short free entry; an entry across the end of a block is read from
\* the wrong block once the search has skipped a free entry; and a search that
\* passes over a free entry of several slots runs past the end of the file.
OneLength == /\ \A n \in Name : Len(n) = L
             /\ SPB % L = 0
             /\ L = 1 \/ \A u \in Uses : u < L

\* one process at most removes names: two that remove the same name take
\* its link off twice
OneRemover == \A p, q \in Proc :
                "unlink" \in Kinds[p] /\ "unlink" \in Kinds[q] => p = q

----------------------------------------------------------------------------
(* The file as a sequence of entries *)

\* offsets where an entry may start, and those where one starts in file d
Start(o) == o % L = 0
Offs(d)  == {o \in 0 .. Len(d) - 1 : Start(o)}

\* in file d the entry at o gives file i the name n
Has(d, o, i, n) == /\ d[o + 1] = Ent(i, n[1], L - 1)
                   /\ \A k \in 2 .. L : d[o + k] = Rest(n[k])

\* the entry at o is free
Empty(d, o) == /\ \E n \in Name : d[o + 1] = Ent(0, n[1], L - 1)
               /\ \A k \in 2 .. L : d[o + k] = Zero

IsFile(d) == Len(d) \in Nat /\ DOMAIN d = 1 .. Len(d)

\* the file divides into entries
Shape(d) == /\ IsFile(d) /\ Start(Len(d))
            /\ \A o \in Offs(d) : Empty(d, o) \/ \E i \in Ino, n \in Name : Has(d, o, i, n)

\* a name is there once
Unique(d) == \A o1, o2 \in Offs(d), i1, i2 \in Ino, n \in Name :
               Has(d, o1, i1, n) /\ Has(d, o2, i2, n) => o1 = o2

\* no entry before offset o has the name n
Absent(d, o, n) == \A x \in Offs(d), i \in Ino : x < o => ~ Has(d, x, i, n)

\* A search: what it counts, the free entry it remembers, the block it holds,
\* and that it has not passed the name.  Behind the end of the file it goes
\* slot by slot, and it gets there only past a free entry.
Searching(p) ==
  /\ lock = p
  /\ off[p] > Len(dir) \/ Start(off[p])
  /\ off[p] + cnt[p] >= Len(dir)
  /\ L = 1 => off[p] + cnt[p] = Len(dir)
  /\ off[p] + cnt[p] > Len(dir) => free[p] # 0
  /\ free[p] # 0 => free[p] - 1 \in Offs(dir) /\ Empty(dir, free[p] - 1)
  /\ off[p] % SPB # 0 => blk[p] = off[p] \div SPB
  /\ Absent(dir, off[p], Target(p))

\* a place for a new name is free and the name is not there
Placed(p) ==
  /\ lock = p /\ Creating(p)
  /\ off[p] = Len(dir) \/ (off[p] \in Offs(dir) /\ Empty(dir, off[p]))
  /\ off[p] + L <= MaxSlots
  /\ Absent(dir, Len(dir), Target(p))

\* what a program point knows of the call
Knows(p) ==
  /\ pc[p] # "user" => op[p] \in Calls /\ op[p].kind \in Kinds[p]
  /\ pc[p] = "user" => dent[p] = NoEnt
  /\ pc[p] = "scan" => Searching(p)
  /\ pc[p] = "write" => Placed(p)
  /\ pc[p] \in {"again", "linked"} => op[p].kind = "link" /\ dent[p].ino \in Ino
  /\ pc[p] = "trunc" => dent[p].ino \in Ino
  /\ pc[p] = "unlink" => /\ op[p].kind = "unlink" /\ dent[p].ino \in Ino
                         /\ dent[p].name = op[p].name
                         /\ off[p] - L \in Offs(dir)

DentOK == dent \in [Proc -> [ino : Ino \cup {0}, name : Name \cup {<< >>}]]

IndInv == TypeOK /\ DentOK /\ Shape(dir) /\ Unique(dir) /\ \A p \in Proc : Knows(p)

----------------------------------------------------------------------------
(* Offsets *)

LEMMA Lengths ==
  ASSUME OneLength
  PROVE  /\ L \in Nat \ {0} /\ SPB \in Nat \ {0}
         /\ \A n \in Name : DOMAIN n = 1 .. L
<1>1. PICK n0 \in Name : n0 = CHOOSE n \in Name : TRUE
  BY DirectoryAssumption
<1>2. \A n \in Name : DOMAIN n = 1 .. Len(n) /\ Len(n) \in Nat \ {0}
  <2> SUFFICES ASSUME NEW n \in Name PROVE DOMAIN n = 1 .. Len(n) /\ Len(n) \in Nat \ {0}
    OBVIOUS
  <2> DEFINE S == {n[i] : i \in DOMAIN n} \ {Nul, "junk"}
  <2>1. n \in Seq(S) /\ n # << >>
    BY DirectoryAssumption
  <2> QED BY <2>1, LenProperties, EmptySeq
<1> QED BY <1>1, <1>2, DirectoryAssumption DEF OneLength, L

LEMMA StartIff ==
  ASSUME L \in Nat \ {0}, NEW o \in Nat
  PROVE  Start(o) <=> \E c \in Nat : o = c * L
<1>1. ASSUME Start(o) PROVE \E c \in Nat : o = c * L
  <2>1. o = (o \div L) * L /\ o \div L \in Nat
    BY <1>1 DEF Start
  <2> QED BY <2>1
<1>2. ASSUME NEW c \in Nat, o = c * L PROVE Start(o)
  BY <1>2 DEF Start
<1> QED BY <1>1, <1>2

\* entries follow each other without a gap
LEMMA Starts ==
  ASSUME L \in Nat \ {0}
  PROVE  /\ Start(0)
         /\ \A a \in Nat : Start(a) => Start(a + L)
         /\ \A a, b \in Nat : Start(a) /\ Start(b) /\ a < b => a + L <= b
         /\ \A k \in Nat : \E o \in Nat : Start(o) /\ o <= k /\ k < o + L
<1>1. Start(0)
  BY DEF Start
<1>2. ASSUME NEW a \in Nat, Start(a) PROVE Start(a + L)
  <2>1. PICK c \in Nat : a = c * L
    BY <1>2, StartIff
  <2>2. a + L = (c + 1) * L /\ c + 1 \in Nat /\ a + L \in Nat
    BY <2>1
  <2> QED BY <2>2, StartIff
<1>3. ASSUME NEW a \in Nat, NEW b \in Nat, Start(a), Start(b), a < b PROVE a + L <= b
  <2>1. PICK c \in Nat, d \in Nat : a = c * L /\ b = d * L
    BY <1>3, StartIff
  <2>2. c < d
    <3>1. CASE d <= c
      <4>1. d * L <= c * L
        BY <3>1
      <4> QED BY <4>1, <2>1, <1>3
    <3> QED BY <3>1
  <2>3. (c + 1) * L <= d * L /\ (c + 1) * L = c * L + L
    BY <2>2
  <2> QED BY <2>1, <2>3
<1>4. ASSUME NEW k \in Nat PROVE \E o \in Nat : Start(o) /\ o <= k /\ k < o + L
  <2> DEFINE o == (k \div L) * L
  <2>1. o \in Nat /\ o <= k /\ k < o + L /\ k \div L \in Nat
    OBVIOUS
  <2>2. Start(o)
    BY <2>1, StartIff
  <2> QED BY <2>1, <2>2
<1> QED BY <1>1, <1>2, <1>3, <1>4

LEMMA DivMod ==
  ASSUME NEW S \in Nat \ {0}, NEW x \in Nat
  PROVE  x = (x \div S) * S + (x % S) /\ x % S \in 0 .. S - 1 /\ x \div S \in Nat
<1>1. x % S \in 0 .. S - 1 /\ x \div S \in Nat
  OBVIOUS
<1>2. x = S * (x \div S) + (x % S)
  OBVIOUS
<1>3. S * (x \div S) = (x \div S) * S
  BY <1>1
<1> QED BY <1>1, <1>2, <1>3

LEMMA Division ==
  ASSUME NEW S \in Nat \ {0}, NEW q \in Nat, NEW r \in Nat, r < S
  PROVE  (q * S + r) \div S = q /\ (q * S + r) % S = r
<1> DEFINE x == q * S + r
<1>1. x \in Nat /\ q * S \in Nat
  OBVIOUS
<1>2. x = (x \div S) * S + (x % S) /\ x % S \in 0 .. S - 1 /\ x \div S \in Nat
  <2> HIDE DEF x
  <2> QED BY <1>1, DivMod
<1> DEFINE d == x \div S
<1>3. d = q
  <2>0. d \in Nat /\ x = d * S + (x % S) /\ x % S \in 0 .. S - 1
    BY <1>2
  <2> HIDE DEF d
  <2>1. CASE d < q
    <3>1. (d + 1) * S <= q * S /\ (d + 1) * S = d * S + S
      BY <2>0, <2>1
    <3> QED BY <3>1, <1>1, <2>0
  <2>2. CASE q < d
    <3>1. (q + 1) * S <= d * S /\ (q + 1) * S = q * S + S
      BY <2>0, <2>2
    <3> QED BY <3>1, <1>1, <2>0
  <2> QED BY <2>0, <2>1, <2>2
<1> QED BY <1>1, <1>2, <1>3

\* an entry does not cross the end of a block
LEMMA Blocks ==
  ASSUME OneLength
  PROVE  /\ \A o \in Nat : /\ o \div SPB \in Nat /\ o % SPB \in 0 .. SPB - 1
                           /\ o = (o \div SPB) * SPB + (o % SPB)
                           /\ (o + 1) % SPB = 0 \/ (o + 1) \div SPB = o \div SPB
         /\ \A a \in Nat : Start(a) =>
              /\ \A i \in 0 .. L - 1 : (a + i) \div SPB = a \div SPB
              /\ (a + L) % SPB = 0 \/ (a + L) \div SPB = a \div SPB
<1>0. L \in Nat \ {0} /\ SPB \in Nat \ {0} /\ Start(SPB)
  BY Lengths DEF OneLength, Start
<1>1. \A o \in Nat : /\ o \div SPB \in Nat /\ o % SPB \in 0 .. SPB - 1
                     /\ o = (o \div SPB) * SPB + (o % SPB)
  BY <1>0, DivMod
<1>2. ASSUME NEW a \in Nat, NEW i \in Nat, (a % SPB) + i < SPB
      PROVE  (a + i) \div SPB = a \div SPB
  <2> DEFINE q == a \div SPB  r == (a % SPB) + i
  <2>1. q \in Nat /\ r \in Nat /\ r < SPB /\ a + i = q * SPB + r
    BY <1>0, <1>1, <1>2
  <2> HIDE DEF q, r
  <2>2. (q * SPB + r) \div SPB = q
    BY <1>0, <2>1, Division
  <2> QED BY <2>1, <2>2 DEF q
<1>3. ASSUME NEW a \in Nat, NEW i \in Nat, (a % SPB) + i = SPB
      PROVE  (a + i) % SPB = 0
  <2> DEFINE q == a \div SPB + 1
  <2>1. q \in Nat /\ q * SPB = (a \div SPB) * SPB + SPB
    BY <1>0, <1>1
  <2>2. a + i = q * SPB + 0
    BY <1>0, <1>1, <1>3, <2>1
  <2> HIDE DEF q
  <2>3. (q * SPB + 0) % SPB = 0
    <3>1. 0 \in Nat /\ 0 < SPB
      BY <1>0
    <3> QED BY <1>0, <2>1, <3>1, Division
  <2> QED BY <2>2, <2>3
<1>4. ASSUME NEW o \in Nat
      PROVE  (o + 1) % SPB = 0 \/ (o + 1) \div SPB = o \div SPB
  <2>1. (o % SPB) + 1 < SPB \/ (o % SPB) + 1 = SPB
    BY <1>0, <1>1
  <2> QED BY <2>1, <1>2, <1>3
<1>5. ASSUME NEW a \in Nat, Start(a)
      PROVE  (a % SPB) + L <= SPB
  <2>1. PICK c \in Nat, m \in Nat : a = c * L /\ SPB = m * L
    BY <1>0, <1>5, StartIff
  <2> DEFINE q == a \div SPB  r == a % SPB
  <2>2. q \in Nat /\ r \in Nat /\ r < SPB /\ a = q * SPB + r
    BY <1>0, <1>1
  <2> HIDE DEF q, r
  <2>3. r = (c - q * m) * L
    <3>1. q * SPB = (q * m) * L /\ q * m \in Nat
      BY <2>1, <2>2, <1>0
    <3>2. (c - q * m) * L = c * L - (q * m) * L
      BY <3>1, <1>0
    <3> QED BY <2>1, <2>2, <3>1, <3>2, <1>0
  <2>4. c - q * m \in Nat
    <3> DEFINE e == c - q * m
    <3>0. e \in Int
      BY <2>2
    <3> HIDE DEF e
    <3>1. CASE e < 0
      <4>1. e * L <= (-1) * L
        BY <1>0, <3>0, <3>1
      <4> QED BY <4>1, <2>2, <2>3, <1>0 DEF e
    <3> QED BY <3>0, <3>1 DEF e
  <2>5. Start(r)
    BY <2>2, <2>3, <2>4, <1>0, StartIff
  <2> QED BY <1>0, <2>2, <2>5, Starts DEF r
<1>6. ASSUME NEW a \in Nat, Start(a), NEW i \in 0 .. L - 1
      PROVE  (a + i) \div SPB = a \div SPB
  <2>1. (a % SPB) + L <= SPB /\ i \in Nat
    BY <1>0, <1>5, <1>6
  <2>2. (a % SPB) + i < SPB
    BY <1>0, <1>1, <2>1
  <2> QED BY <2>1, <2>2, <1>2
<1>7. ASSUME NEW a \in Nat, Start(a)
      PROVE  (a + L) % SPB = 0 \/ (a + L) \div SPB = a \div SPB
  <2>1. (a % SPB) + L <= SPB
    BY <1>5, <1>7
  <2>2. (a % SPB) + L < SPB \/ (a % SPB) + L = SPB
    BY <1>0, <1>1, <2>1
  <2> QED BY <2>2, <1>0, <1>2, <1>3
<1> QED BY <1>1, <1>4, <1>6, <1>7

----------------------------------------------------------------------------
(* Slots and entries *)

LEMMA SlotFacts ==
  /\ \A i, x, e : /\ "ino" \in DOMAIN Ent(i, x, e)
                  /\ Ent(i, x, e).ino = i /\ Ent(i, x, e).piece = x /\ Ent(i, x, e).esize = e
                  /\ AsEntry(Ent(i, x, e)) = Ent(i, x, e)
  /\ \A x : "ino" \notin DOMAIN Rest(x) /\ Rest(x).rest = x /\ AsRest(Rest(x)) = x
  /\ "ino" \in DOMAIN Zero /\ Zero.ino = 0 /\ Zero.esize = 0 /\ AsEntry(Zero) = Zero
<1>1. ASSUME NEW i, NEW x, NEW e
      PROVE  /\ "ino" \in DOMAIN Ent(i, x, e)
             /\ Ent(i, x, e).ino = i /\ Ent(i, x, e).piece = x /\ Ent(i, x, e).esize = e
             /\ AsEntry(Ent(i, x, e)) = Ent(i, x, e)
  BY DEF Ent, AsEntry
<1>2. ASSUME NEW x
      PROVE  "ino" \notin DOMAIN Rest(x) /\ Rest(x).rest = x /\ AsRest(Rest(x)) = x
  BY DEF Rest, AsRest
<1> QED BY <1>1, <1>2 DEF Zero

\* a sequence is known by its values
LEMMA FunLen ==
  ASSUME NEW n \in Nat, NEW f, f = [k \in 1 .. n |-> f[k]]
  PROVE  Len(f) = n /\ DOMAIN f = 1 .. n
<1> DEFINE S == {f[k] : k \in 1 .. n}
<1>1. f \in [1 .. n -> S]
  OBVIOUS
<1>2. f \in Seq(S)
  BY <1>1, SeqDef
<1>3. DOMAIN f = 1 .. Len(f) /\ Len(f) \in Nat /\ DOMAIN f = 1 .. n
  BY <1>1, <1>2, LenProperties
<1> QED BY <1>3

LEMMA NameEqual ==
  ASSUME OneLength, NEW n \in Name, NEW m \in Name, \A k \in 1 .. L : n[k] = m[k]
  PROVE  n = m
<1>1. n \in Seq({n[i] : i \in DOMAIN n} \ {Nul, "junk"})
      /\ m \in Seq({m[i] : i \in DOMAIN m} \ {Nul, "junk"})
  BY DirectoryAssumption
<1> DEFINE S == ({n[i] : i \in DOMAIN n} \ {Nul, "junk"}) \cup ({m[i] : i \in DOMAIN m} \ {Nul, "junk"})
<1>2. n \in Seq(S) /\ m \in Seq(S)
  BY <1>1, SeqMonotonic
<1>3. Len(n) = L /\ Len(m) = L
  BY DEF OneLength
<1> QED BY <1>2, <1>3, SeqEqual

\* an entry is free, or the name of one file
LEMMA OneContent ==
  ASSUME OneLength, NEW d, NEW o, NEW i \in Ino, NEW n \in Name, Has(d, o, i, n)
  PROVE  /\ ~ Empty(d, o)
         /\ \A j \in Ino, m \in Name : Has(d, o, j, m) => i = j /\ n = m
<1>0. i # 0 /\ L \in Nat \ {0}
  BY DirectoryAssumption, Lengths
<1>1. ~ Empty(d, o)
  BY <1>0, SlotFacts DEF Has, Empty
<1>2. ASSUME NEW j \in Ino, NEW m \in Name, Has(d, o, j, m) PROVE i = j /\ n = m
  <2>1. i = j /\ n[1] = m[1]
    BY <1>2, SlotFacts DEF Has
  <2>2. \A k \in 2 .. L : n[k] = m[k]
    BY <1>2, SlotFacts DEF Has
  <2>3. \A k \in 1 .. L : k = 1 \/ k \in 2 .. L
    BY <1>0
  <2> QED BY <2>1, <2>2, <2>3, NameEqual
<1> QED BY <1>1, <1>2

LEMMA OffsFacts ==
  ASSUME OneLength, NEW d, Shape(d), NEW o \in Offs(d)
  PROVE  o \in Nat /\ Start(o) /\ o < Len(d) /\ o + L <= Len(d)
<1>1. o \in Nat /\ Start(o) /\ o < Len(d) /\ Len(d) \in Nat /\ Start(Len(d))
  BY DEF Offs, Shape, IsFile
<1> QED BY <1>1, Lengths, Starts

----------------------------------------------------------------------------
(* Writing an entry *)

LEMMA WrittenProps ==
  ASSUME IsFile(dir), NEW o \in 0 .. Len(dir), NEW ss, IsFile(ss)
  PROVE  /\ IsFile(Written(o, ss))
         /\ Len(Written(o, ss)) = IF o + Len(ss) > Len(dir) THEN o + Len(ss) ELSE Len(dir)
         /\ \A k \in 1 .. Len(Written(o, ss)) :
              Written(o, ss)[k] = IF k \in o + 1 .. o + Len(ss) THEN ss[k - o] ELSE dir[k]
<1> DEFINE size == IF o + Len(ss) > Len(dir) THEN o + Len(ss) ELSE Len(dir)
           w == Written(o, ss)
<1>0. Len(dir) \in Nat /\ Len(ss) \in Nat /\ o \in Nat /\ size \in Nat
  BY DEF IsFile
<1>1. w = [k \in 1 .. size |-> IF k \in o + 1 .. o + Len(ss) THEN ss[k - o] ELSE Slot(k - 1)]
  BY DEF Written
<1> HIDE DEF w
<1>2. w = [k \in 1 .. size |-> w[k]]
  BY <1>1
<1>3. Len(w) = size /\ DOMAIN w = 1 .. size
  <2> HIDE DEF size
  <2> QED BY <1>0, <1>2, FunLen
<1>4. ASSUME NEW k \in 1 .. size
      PROVE  w[k] = IF k \in o + 1 .. o + Len(ss) THEN ss[k - o] ELSE dir[k]
  <2>1. CASE k \in o + 1 .. o + Len(ss)
    BY <1>1, <2>1
  <2>2. CASE k \notin o + 1 .. o + Len(ss)
    <3>1. w[k] = Slot(k - 1)
      BY <1>1, <2>2
    <3>2. k - 1 < Len(dir) /\ (k - 1) + 1 = k
      BY <1>0, <2>2
    <3> QED BY <2>2, <3>1, <3>2 DEF Slot
  <2> QED BY <2>1, <2>2
<1>5. IsFile(w)
  BY <1>0, <1>3 DEF IsFile
<1> QED BY <1>3, <1>4, <1>5 DEF w

\* L slots written at an offset change the entry there and no other
LEMMA EntryWritten ==
  ASSUME OneLength, Shape(dir), NEW o, o = Len(dir) \/ o \in Offs(dir),
         NEW ss, IsFile(ss), Len(ss) = L, NEW d, d = Written(o, ss)
  PROVE  /\ IsFile(d) /\ Start(Len(d)) /\ Offs(d) = Offs(dir) \cup {o}
         /\ Len(d) = IF o = Len(dir) THEN Len(dir) + L ELSE Len(dir)
         /\ \A k \in 1 .. L : d[o + k] = ss[k]
         /\ \A x \in Offs(dir) \ {o} :
              /\ Empty(d, x) <=> Empty(dir, x)
              /\ \A i, n : Has(d, x, i, n) <=> Has(dir, x, i, n)
<1>0. /\ L \in Nat \ {0} /\ Len(dir) \in Nat /\ o \in 0 .. Len(dir) /\ IsFile(dir)
      /\ Start(o) /\ Start(Len(dir)) /\ (o # Len(dir) => o + L <= Len(dir) /\ o \in Offs(dir))
  BY Lengths, OffsFacts DEF Shape, IsFile
<1>1. /\ IsFile(d)
      /\ Len(d) = IF o + L > Len(dir) THEN o + L ELSE Len(dir)
      /\ \A k \in 1 .. Len(d) : d[k] = IF k \in o + 1 .. o + L THEN ss[k - o] ELSE dir[k]
  BY <1>0, WrittenProps
<1>2. Len(d) = (IF o = Len(dir) THEN Len(dir) + L ELSE Len(dir)) /\ o + L <= Len(d)
  BY <1>0, <1>1
<1>3. Start(Len(d))
  BY <1>0, <1>2, Starts
<1>4. Offs(d) = Offs(dir) \cup {o}
  <2>1. ASSUME NEW x \in Offs(d), x \notin Offs(dir) PROVE x = o
    <3>1. x \in Nat /\ Start(x) /\ x < Len(d) /\ ~ x < Len(dir)
      BY <2>1, <1>0, <1>2 DEF Offs
    <3>2. o = Len(dir) /\ x < o + L /\ o <= x
      BY <3>1, <1>0, <1>2
    <3>3. o < x => o + L <= x
      BY <3>1, <1>0, Starts
    <3> QED BY <3>1, <3>2, <3>3, <1>0
  <2>2. \A x \in Offs(dir) \cup {o} : x \in Offs(d)
    BY <1>0, <1>2 DEF Offs
  <2> QED BY <2>1, <2>2
<1>5. \A k \in 1 .. L : d[o + k] = ss[k]
  <2> SUFFICES ASSUME NEW k \in 1 .. L PROVE d[o + k] = ss[k]
    OBVIOUS
  <2>1. o + k \in 1 .. Len(d) /\ o + k \in o + 1 .. o + L /\ (o + k) - o = k
    BY <1>0, <1>2
  <2> QED BY <1>1, <2>1
<1>6. ASSUME NEW x \in Offs(dir) \ {o}, NEW k \in 1 .. L PROVE d[x + k] = dir[x + k]
  <2>1. x \in Nat /\ Start(x) /\ x + L <= Len(dir)
    BY OffsFacts
  <2>2. x + L <= o \/ o + L <= x
    BY <1>0, <2>1, <1>6, Starts
  <2>3. x + k \in 1 .. Len(d) /\ x + k \notin o + 1 .. o + L
    BY <1>0, <1>2, <2>1, <2>2
  <2> QED BY <1>1, <2>3
<1>7. ASSUME NEW x \in Offs(dir) \ {o}
      PROVE  /\ Empty(d, x) <=> Empty(dir, x)
             /\ \A i, n : Has(d, x, i, n) <=> Has(dir, x, i, n)
  <2>1. d[x + 1] = dir[x + 1] /\ \A k \in 2 .. L : d[x + k] = dir[x + k]
    BY <1>0, <1>6
  <2> QED BY <2>1 DEF Empty, Has
<1> QED BY <1>1, <1>2, <1>3, <1>4, <1>5, <1>7

LEMMA SlotsOfEntry ==
  ASSUME OneLength, NEW i, NEW n \in Name
  PROVE  /\ IsFile(EntrySlots(i, n)) /\ Len(EntrySlots(i, n)) = L
         /\ EntrySlots(i, n)[1] = Ent(i, n[1], L - 1)
         /\ \A k \in 2 .. L : EntrySlots(i, n)[k] = Rest(n[k])
<1> DEFINE s == EntrySlots(i, n)
<1>0. L \in Nat \ {0} /\ Len(n) = L
  BY Lengths DEF OneLength
<1>1. s = [k \in 1 .. L |-> IF k = 1 THEN Ent(i, n[1], L - 1) ELSE Rest(n[k])]
  BY <1>0 DEF EntrySlots
<1> HIDE DEF s
<1>2. s = [k \in 1 .. L |-> s[k]]
  BY <1>1
<1>3. Len(s) = L /\ DOMAIN s = 1 .. L
  BY <1>0, <1>2, FunLen
<1>4. s[1] = Ent(i, n[1], L - 1) /\ \A k \in 2 .. L : s[k] = Rest(n[k])
  BY <1>0, <1>1
<1> QED BY <1>0, <1>3, <1>4 DEF s, IsFile

\* the name n for file i, written at the end or over a free entry
LEMMA NewEntry ==
  ASSUME OneLength, Shape(dir), NEW i \in Ino, NEW n \in Name,
         NEW o, o = Len(dir) \/ (o \in Offs(dir) /\ Empty(dir, o)),
         NEW d, d = Written(o, EntrySlots(i, n))
  PROVE  /\ Shape(d) /\ Offs(d) = Offs(dir) \cup {o} /\ Has(d, o, i, n)
         /\ Len(d) = IF o = Len(dir) THEN Len(dir) + L ELSE Len(dir)
         /\ \A x \in Offs(dir) \ {o} :
              /\ Empty(d, x) <=> Empty(dir, x)
              /\ \A j, m : Has(d, x, j, m) <=> Has(dir, x, j, m)
<1>0. L \in Nat \ {0}
  BY Lengths
<1>1. /\ IsFile(EntrySlots(i, n)) /\ Len(EntrySlots(i, n)) = L
      /\ EntrySlots(i, n)[1] = Ent(i, n[1], L - 1)
      /\ \A k \in 2 .. L : EntrySlots(i, n)[k] = Rest(n[k])
  BY SlotsOfEntry
<1>2. /\ IsFile(d) /\ Start(Len(d)) /\ Offs(d) = Offs(dir) \cup {o}
      /\ Len(d) = IF o = Len(dir) THEN Len(dir) + L ELSE Len(dir)
      /\ \A k \in 1 .. L : d[o + k] = EntrySlots(i, n)[k]
      /\ \A x \in Offs(dir) \ {o} :
           /\ Empty(d, x) <=> Empty(dir, x)
           /\ \A j, m : Has(d, x, j, m) <=> Has(dir, x, j, m)
  BY <1>1, EntryWritten
<1>3. Has(d, o, i, n)
  <2>1. 1 \in 1 .. L /\ \A k \in 2 .. L : k \in 1 .. L
    BY <1>0
  <2> QED BY <1>1, <1>2, <2>1 DEF Has
<1>4. Shape(d)
  <2> SUFFICES ASSUME NEW x \in Offs(d)
               PROVE  Empty(d, x) \/ \E j \in Ino, m \in Name : Has(d, x, j, m)
    BY <1>2 DEF Shape
  <2>1. CASE x = o
    BY <1>3, <2>1
  <2>2. CASE x \in Offs(dir) \ {o}
    BY <1>2, <2>2 DEF Shape
  <2> QED BY <1>2, <2>1, <2>2
<1> QED BY <1>2, <1>3, <1>4

\* an entry is cleared and keeps its slots
LEMMA Cleared ==
  ASSUME OneLength, Shape(dir), NEW n \in Name, NEW o \in Offs(dir),
         NEW d, d = Written(o, <<Ent(0, n[1], Len(n) - 1)>>
                                 \o [k \in 1 .. Len(n) - 1 |-> Zero])
  PROVE  /\ Shape(d) /\ Offs(d) = Offs(dir) /\ Empty(d, o) /\ Len(d) = Len(dir)
         /\ \A x \in Offs(dir) \ {o} :
              /\ Empty(d, x) <=> Empty(dir, x)
              /\ \A j, m : Has(d, x, j, m) <=> Has(dir, x, j, m)
<1>0. L \in Nat \ {0} /\ Len(n) = L /\ o # Len(dir)
  BY Lengths, OffsFacts DEF OneLength
<1> DEFINE e == Ent(0, n[1], L - 1)
           z == [k \in 1 .. L - 1 |-> Zero]
           s == <<e>> \o z
           S == {e, Zero}
<1>1. /\ IsFile(s) /\ Len(s) = L /\ s[1] = e /\ \A k \in 2 .. L : s[k] = Zero
  <2>1. <<e>> \in Seq(S) /\ Len(<<e>>) = 1 /\ <<e>>[1] = e
    OBVIOUS
  <2>2. z \in Seq(S) /\ Len(z) = L - 1
    <3>1. z \in [1 .. L - 1 -> S] /\ L - 1 \in Nat
      BY <1>0
    <3>2. z \in Seq(S)
      BY <3>1, SeqDef
    <3>3. z = [k \in 1 .. L - 1 |-> z[k]]
      OBVIOUS
    <3> HIDE DEF z
    <3> QED BY <3>1, <3>2, <3>3, FunLen
  <2>3. \A k \in 1 .. L - 1 : z[k] = Zero
    OBVIOUS
  <2> HIDE DEF e, z, S
  <2>4. /\ s \in Seq(S) /\ Len(s) = 1 + (L - 1)
        /\ \A k \in 1 .. 1 + (L - 1) : s[k] = IF k <= 1 THEN <<e>>[k] ELSE z[k - 1]
    BY <2>1, <2>2, ConcatProperties
  <2>5. DOMAIN s = 1 .. Len(s)
    BY <2>4, LenProperties
  <2> HIDE DEF s
  <2>6. 1 + (L - 1) = L /\ \A k \in 2 .. L : k \in 1 .. L /\ ~ k <= 1 /\ k - 1 \in 1 .. L - 1
    BY <1>0
  <2> QED BY <1>0, <2>1, <2>3, <2>4, <2>5, <2>6 DEF IsFile
<1>2. d = Written(o, s)
  BY <1>0
<1> HIDE DEF s
<1>3. /\ IsFile(d) /\ Start(Len(d)) /\ Offs(d) = Offs(dir) \cup {o}
      /\ Len(d) = IF o = Len(dir) THEN Len(dir) + L ELSE Len(dir)
      /\ \A k \in 1 .. L : d[o + k] = s[k]
      /\ \A x \in Offs(dir) \ {o} :
           /\ Empty(d, x) <=> Empty(dir, x)
           /\ \A j, m : Has(d, x, j, m) <=> Has(dir, x, j, m)
  BY <1>1, <1>2, EntryWritten
<1>4. Empty(d, o)
  <2>1. 1 \in 1 .. L /\ \A k \in 2 .. L : k \in 1 .. L
    BY <1>0
  <2> QED BY <1>1, <1>3, <2>1 DEF Empty
<1>5. Shape(d)
  <2> SUFFICES ASSUME NEW x \in Offs(d)
               PROVE  Empty(d, x) \/ \E j \in Ino, m \in Name : Has(d, x, j, m)
    BY <1>3 DEF Shape
  <2>1. CASE x = o
    BY <1>4, <2>1
  <2>2. CASE x \in Offs(dir) \ {o}
    BY <1>3, <2>2 DEF Shape
  <2> QED BY <1>3, <2>1, <2>2
<1> QED BY <1>0, <1>3, <1>4, <1>5

----------------------------------------------------------------------------
(* Reading an entry *)

LEMMA SearchTarget ==
  ASSUME IndInv, NEW p \in Proc, pc[p] # "user" PROVE Target(p) \in Name
<1>1. op[p] \in Calls
  BY DEF IndInv, Knows
<1> QED BY <1>1 DEF Calls, Target

\* the slots that p sees are those of the file, in an entry and behind the end
LEMMA SlotRead ==
  ASSUME OneLength, NEW p \in Proc, off[p] \in Nat,
         off[p] % SPB # 0 => blk[p] = off[p] \div SPB
  PROVE  /\ InBuf(p, off[p]) = off[p] \div SPB
         /\ ReadSlot(p, off[p]) = Slot(off[p])
         /\ Start(off[p]) => \A i \in 0 .. L - 1 :
              /\ InBuf(p, off[p] + i) = off[p] \div SPB
              /\ ReadSlot(p, off[p] + i) = Slot(off[p] + i)
<1>1. \A o \in Nat : InBuf(p, o) = o \div SPB => ReadSlot(p, o) = Slot(o)
  BY Blocks DEF ReadSlot
<1>2. InBuf(p, off[p]) = off[p] \div SPB
  BY DEF InBuf
<1>3. ASSUME Start(off[p]), NEW i \in 0 .. L - 1
      PROVE  InBuf(p, off[p] + i) = off[p] \div SPB /\ (off[p] + i) \div SPB = off[p] \div SPB
             /\ off[p] + i \in Nat
  <2>1. (off[p] + i) \div SPB = off[p] \div SPB
    BY <1>3, Blocks
  <2> QED BY <2>1, Lengths DEF InBuf
<1> QED BY <1>1, <1>2, <1>3

LEMMA PiecesRead ==
  ASSUME OneLength, NEW p \in Proc, NEW i \in Ino, NEW n \in Name,
         Entry(p) = Ent(i, n[1], L - 1),
         \A k \in 1 .. L - 1 : ReadSlot(p, off[p] + k) = Rest(n[k + 1])
  PROVE  Pieces(p) = n
<1>0. L \in Nat \ {0} /\ Len(n) = L
  BY Lengths DEF OneLength
<1> DEFINE S == {n[k] : k \in DOMAIN n} \ {Nul, "junk"}
           z == [k \in 1 .. L - 1 |-> n[k + 1]]
<1>1. n \in Seq(S)
  BY DirectoryAssumption
<1>2. \A k \in 1 .. L : n[k] \in S
  BY <1>0, <1>1, LenProperties
<1>3. Pieces(p) = <<n[1]>> \o z
  <2>1. [k \in 1 .. L - 1 |-> AsRest(ReadSlot(p, off[p] + k))] = z
    BY SlotFacts
  <2>2. Entry(p).piece = n[1] /\ Entry(p).esize = L - 1
    BY SlotFacts
  <2> QED BY <2>1, <2>2 DEF Pieces
<1>4. <<n[1]>> \in Seq(S) /\ Len(<<n[1]>>) = 1 /\ <<n[1]>>[1] = n[1]
  BY <1>0, <1>2
<1>5. z \in Seq(S) /\ Len(z) = L - 1
  <2>1. z \in [1 .. L - 1 -> S] /\ L - 1 \in Nat
    <3>1. L - 1 \in Nat /\ \A k \in 1 .. L - 1 : k + 1 \in 1 .. L
      BY <1>0
    <3>2. \A k \in 1 .. L - 1 : n[k + 1] \in S
      BY <1>2, <3>1
    <3> HIDE DEF S
    <3> QED BY <3>1, <3>2
  <2>2. z \in Seq(S)
    BY <2>1, SeqDef
  <2>3. z = [k \in 1 .. L - 1 |-> z[k]]
    OBVIOUS
  <2> HIDE DEF z
  <2> QED BY <2>1, <2>2, <2>3, FunLen
<1>6. \A k \in 1 .. L - 1 : z[k] = n[k + 1]
  OBVIOUS
<1> HIDE DEF z, S
<1>7. /\ <<n[1]>> \o z \in Seq(S) /\ Len(<<n[1]>> \o z) = L
      /\ \A k \in 1 .. L : (<<n[1]>> \o z)[k] = IF k <= 1 THEN <<n[1]>>[k] ELSE z[k - 1]
  <2>1. 1 + (L - 1) = L
    BY <1>0
  <2> QED BY <1>4, <1>5, <2>1, ConcatProperties
<1>8. \A k \in 1 .. L : (<<n[1]>> \o z)[k] = n[k]
  <2> SUFFICES ASSUME NEW k \in 1 .. L PROVE (<<n[1]>> \o z)[k] = n[k]
    OBVIOUS
  <2>1. CASE k = 1
    BY <1>4, <1>7, <2>1
  <2>2. CASE k # 1
    <3>1. k - 1 \in 1 .. L - 1 /\ ~ k <= 1 /\ (k - 1) + 1 = k
      BY <1>0, <2>2
    <3> QED BY <1>6, <1>7, <3>1
  <2> QED BY <2>1, <2>2
<1>9. <<n[1]>> \o z = n
  BY <1>0, <1>1, <1>7, <1>8, SeqEqual
<1> QED BY <1>3, <1>9

\* what a search finds at its offset: the end of the file, a free entry, or a
\* name, which it compares in full
LEMMA EntryRead ==
  ASSUME OneLength, IndInv, NEW p \in Proc, Scanning(p)
  PROVE  /\ off[p] \in Nat /\ cnt[p] \in Nat \ {0}
         /\ InBuf(p, off[p]) = off[p] \div SPB
         /\ \/ /\ off[p] >= Len(dir) /\ free[p] # 0 /\ L # 1
               /\ Entry(p).ino = 0 /\ Entry(p).esize = 0
            \/ /\ off[p] \in Offs(dir) /\ Empty(dir, off[p])
               /\ Entry(p).ino = 0 /\ Entry(p).esize = L - 1
            \/ /\ off[p] \in Offs(dir)
               /\ InBuf(p, off[p] + (L - 1)) = off[p] \div SPB
               /\ \E i \in Ino, n \in Name :
                    /\ Has(dir, off[p], i, n)
                    /\ Entry(p).ino = i /\ Entry(p).esize = L - 1 /\ Pieces(p) = n
                    /\ Matches(p) <=> n = Target(p)
<1>0. /\ pc[p] = "scan" /\ Searching(p) /\ off[p] \in Nat /\ cnt[p] \in Nat \ {0}
      /\ Shape(dir) /\ Len(dir) \in Nat /\ Start(Len(dir)) /\ L \in Nat \ {0}
      /\ Target(p) \in Name
  BY Lengths, SearchTarget DEF Scanning, IndInv, Knows, TypeOK, Shape, IsFile
<1>1. /\ InBuf(p, off[p]) = off[p] \div SPB
      /\ ReadSlot(p, off[p]) = Slot(off[p])
      /\ Start(off[p]) => \A i \in 0 .. L - 1 :
           /\ InBuf(p, off[p] + i) = off[p] \div SPB
           /\ ReadSlot(p, off[p] + i) = Slot(off[p] + i)
  BY <1>0, SlotRead DEF Searching
<1>2. CASE off[p] >= Len(dir)
  <2>1. Slot(off[p]) = Zero
    BY <1>0, <1>2 DEF Slot
  <2>2. Entry(p).ino = 0 /\ Entry(p).esize = 0
    BY <1>1, <2>1, SlotFacts DEF Entry
  <2>3. free[p] # 0 /\ L # 1
    BY <1>0, <1>2 DEF Searching
  <2> QED BY <1>0, <1>1, <1>2, <2>2, <2>3
<1>3. CASE off[p] < Len(dir)
  <2>1. off[p] \in Offs(dir) /\ Start(off[p]) /\ off[p] + L <= Len(dir)
    <3>1. Start(off[p])
      BY <1>0, <1>3 DEF Searching
    <3>2. off[p] \in Offs(dir)
      BY <1>0, <1>3, <3>1 DEF Offs
    <3> QED BY <1>0, <3>1, <3>2, OffsFacts
  <2>2. \A i \in 0 .. L - 1 : /\ InBuf(p, off[p] + i) = off[p] \div SPB
                               /\ ReadSlot(p, off[p] + i) = dir[off[p] + i + 1]
    <3> SUFFICES ASSUME NEW i \in 0 .. L - 1
                 PROVE  /\ InBuf(p, off[p] + i) = off[p] \div SPB
                        /\ ReadSlot(p, off[p] + i) = dir[off[p] + i + 1]
      OBVIOUS
    <3>1. off[p] + i < Len(dir)
      BY <1>0, <2>1
    <3>2. Slot(off[p] + i) = dir[off[p] + i + 1]
      BY <3>1 DEF Slot
    <3> QED BY <1>1, <2>1, <3>2
  <2>3. Entry(p) = AsEntry(dir[off[p] + 1])
    BY <1>0, <1>1, <1>3 DEF Entry, Slot
  <2>4. CASE Empty(dir, off[p])
    BY <1>0, <1>1, <2>1, <2>3, <2>4, SlotFacts DEF Empty
  <2>5. CASE \E i \in Ino, n \in Name : Has(dir, off[p], i, n)
    <3>1. PICK i \in Ino, n \in Name : Has(dir, off[p], i, n)
      BY <2>5
    <3>2. Entry(p) = Ent(i, n[1], L - 1)
      BY <2>3, <3>1, SlotFacts DEF Has
    <3>3. \A k \in 1 .. L - 1 : ReadSlot(p, off[p] + k) = Rest(n[k + 1])
      <4> SUFFICES ASSUME NEW k \in 1 .. L - 1 PROVE ReadSlot(p, off[p] + k) = Rest(n[k + 1])
        OBVIOUS
      <4>1. k \in 0 .. L - 1 /\ k + 1 \in 2 .. L /\ off[p] + k + 1 = off[p] + (k + 1)
        BY <1>0
      <4> QED BY <2>2, <3>1, <4>1 DEF Has
    <3>4. Pieces(p) = n
      BY <3>2, <3>3, PiecesRead
    <3>5. Matches(p) <=> n = Target(p)
      <4>1. Len(Target(p)) = L /\ DOMAIN n = 1 .. L
        BY <1>0, Lengths DEF OneLength
      <4>2. Matches(p) <=> \A k \in 1 .. L : n[k] = Target(p)[k]
        BY <1>0, <3>4, <4>1 DEF Matches
      <4> QED BY <1>0, <4>2, NameEqual
    <3>6. InBuf(p, off[p] + (L - 1)) = off[p] \div SPB
      BY <1>0, <2>2
    <3> QED BY <1>0, <1>1, <2>1, <3>1, <3>2, <3>4, <3>5, <3>6, SlotFacts
  <2> QED BY <2>1, <2>4, <2>5, <1>0 DEF Shape
<1> QED BY <1>0, <1>2, <1>3

----------------------------------------------------------------------------
(* Every step preserves the invariant *)

LEMMA InitInd == ASSUME OneLength, Init PROVE IndInv
<1>1. TypeOK
  <2>1. Len(dir) = 0 /\ MaxSlots \in Nat
    BY DirectoryAssumption DEF Init
  <2> QED BY <2>1 DEF Init, TypeOK, PCs
<1>2. DentOK /\ \A p \in Proc : Knows(p)
  BY DEF Init, DentOK, Knows, NoEnt
<1>3. Offs(dir) = {}
  BY DEF Init, Offs
<1>4. Shape(dir)
  <2>1. Len(dir) = 0 /\ DOMAIN dir = 1 .. 0 /\ Start(0)
    BY Lengths, Starts DEF Init
  <2> QED BY <1>3, <2>1 DEF Shape, IsFile
<1> QED BY <1>1, <1>2, <1>3, <1>4 DEF IndInv, Unique

\* What the other processes know stays true: one that does not hold the lock
\* knows little, and one that does sees entries disappear at most.
LEMMA Frame ==
  ASSUME IndInv, NEW p \in Proc,
         \A q \in Proc \ {p} : /\ pc'[q] = pc[q] /\ op'[q] = op[q] /\ off'[q] = off[q]
                               /\ cnt'[q] = cnt[q] /\ free'[q] = free[q]
                               /\ blk'[q] = blk[q] /\ dent'[q] = dent[q],
         Offs(dir) \subseteq Offs(dir'),
         lock \notin {p, NoProc} =>
           /\ lock' = lock /\ Len(dir') = Len(dir) /\ Offs(dir') = Offs(dir)
           /\ \A x \in Offs(dir) : /\ Empty(dir, x) => Empty(dir', x)
                                  /\ \A i \in Ino, n \in Name :
                                       Has(dir', x, i, n) => Has(dir, x, i, n)
  PROVE  \A q \in Proc \ {p} : Knows(q)'
<1> SUFFICES ASSUME NEW q \in Proc \ {p} PROVE Knows(q)'
  OBVIOUS
<1>0. /\ Knows(q) /\ pc'[q] = pc[q] /\ op'[q] = op[q] /\ off'[q] = off[q]
      /\ cnt'[q] = cnt[q] /\ free'[q] = free[q] /\ blk'[q] = blk[q] /\ dent'[q] = dent[q]
      /\ q # NoProc
  BY DirectoryAssumption DEF IndInv
<1>1. Target(q)' = Target(q) /\ Creating(q)' = Creating(q)
  BY <1>0 DEF Target, Creating
<1>2. ASSUME lock = q
      PROVE  /\ lock' = lock /\ Len(dir') = Len(dir) /\ Offs(dir') = Offs(dir)
             /\ \A x \in Offs(dir) : /\ Empty(dir, x) => Empty(dir', x)
                                    /\ \A i \in Ino, n \in Name :
                                         Has(dir', x, i, n) => Has(dir, x, i, n)
  BY <1>0, <1>2
<1>3. pc[q] = "scan" => Searching(q)'
  <2> SUFFICES ASSUME pc[q] = "scan" PROVE Searching(q)'
    OBVIOUS
  <2>1. Searching(q) /\ lock = q /\ Target(q) \in Name
    BY <1>0, SearchTarget DEF Knows, Searching
  <2>2. Absent(dir', off'[q], Target(q)')
    BY <1>0, <1>1, <1>2, <2>1 DEF Searching, Absent
  <2>3. free'[q] # 0 => free'[q] - 1 \in Offs(dir') /\ Empty(dir', free'[q] - 1)
    BY <1>0, <1>2, <2>1 DEF Searching
  <2> QED BY <1>0, <1>2, <2>1, <2>2, <2>3 DEF Searching
<1>4. pc[q] = "write" => Placed(q)'
  <2> SUFFICES ASSUME pc[q] = "write" PROVE Placed(q)'
    OBVIOUS
  <2>1. Placed(q) /\ lock = q /\ Target(q) \in Name
    BY <1>0, SearchTarget DEF Knows, Placed
  <2>2. Absent(dir', Len(dir'), Target(q)')
    BY <1>0, <1>1, <1>2, <2>1 DEF Placed, Absent
  <2>3. off'[q] = Len(dir') \/ (off'[q] \in Offs(dir') /\ Empty(dir', off'[q]))
    <3>1. CASE off[q] = Len(dir)
      <4>1. Len(dir') = Len(dir)
        BY <1>2, <2>1
      <4>2. off'[q] = off[q]
        BY <1>0
      <4> QED BY <3>1, <4>1, <4>2
    <3>2. CASE off[q] \in Offs(dir) /\ Empty(dir, off[q])
      BY <1>0, <1>2, <2>1, <3>2
    <3> QED BY <2>1, <3>1, <3>2 DEF Placed
  <2>4. lock' = q /\ Creating(q)' /\ off'[q] + L <= MaxSlots
    BY <1>0, <1>1, <1>2, <2>1 DEF Placed
  <2> QED BY <2>2, <2>3, <2>4 DEF Placed
<1> QED BY <1>0, <1>3, <1>4 DEF Knows

\* a search begins
LEMMA StartInd ==
  ASSUME OneLength, IndInv, NEW p \in Proc, StartSearch(p), NEW c \in Calls,
         c.kind \in Kinds[p], op' = [op EXCEPT ![p] = c], UNCHANGED <<dir, nlink, reset, dent>>
  PROVE  IndInv'
<1>0. /\ lock = NoProc /\ lock' = p /\ pc' = [pc EXCEPT ![p] = "scan"]
      /\ off' = [off EXCEPT ![p] = 0] /\ cnt' = [cnt EXCEPT ![p] = Len(dir)]
      /\ free' = [free EXCEPT ![p] = 0] /\ blk' = [blk EXCEPT ![p] = 0]
      /\ dir' = dir /\ nlink' = nlink /\ reset' = reset /\ dent' = dent
  BY DEF StartSearch, Goto
<1>1. Shape(dir) /\ Len(dir) \in Nat
  BY DEF IndInv, Shape, IsFile
<1>2. TypeOK'
  BY <1>0, <1>1 DEF IndInv, TypeOK, PCs
<1>3. DentOK' /\ Shape(dir') /\ Unique(dir')
  BY <1>0 DEF IndInv, DentOK
<1>4. /\ pc'[p] = "scan" /\ off'[p] = 0 /\ cnt'[p] = Len(dir) /\ free'[p] = 0
      /\ op'[p] = c
  BY <1>0 DEF IndInv, TypeOK
<1>5. Start(0) /\ 0 % SPB = 0
  <2>1. SPB \in Nat \ {0} /\ 0 < SPB /\ 0 * SPB + 0 = 0
    BY Lengths
  <2>2. (0 * SPB + 0) % SPB = 0
    BY <2>1, Division
  <2> QED BY <2>1, <2>2, Lengths, Starts
<1>6. Absent(dir', 0, Target(p)')
  BY <1>0, <1>1 DEF Absent, Offs
<1>7. Searching(p)'
  BY <1>0, <1>1, <1>4, <1>5, <1>6 DEF Searching
<1>8. Knows(p)'
  BY <1>4, <1>7 DEF Knows
<1>9. \A q \in Proc \ {p} : Knows(q)'
  BY <1>0, Frame DEF IndInv, TypeOK, DentOK
<1> QED BY <1>2, <1>3, <1>8, <1>9 DEF IndInv

LEMMA CallInd ==
  ASSUME OneLength, IndInv, NEW p \in Proc, NEW c \in Calls, Call(p, c)
  PROVE  IndInv'
BY StartInd DEF Call

LEMMA LinkAgainInd ==
  ASSUME OneLength, IndInv, NEW p \in Proc, LinkAgain(p)
  PROVE  IndInv'
<1>1. op[p] \in Calls /\ op[p].kind \in Kinds[p]
  BY DEF LinkAgain, IndInv, Knows
<1>2. op' = [op EXCEPT ![p] = op[p]]
  BY DEF LinkAgain, IndInv, TypeOK
<1> QED BY <1>1, <1>2, StartInd DEF LinkAgain

\* a call ends; the file is as it was
LEMMA ReturnInd ==
  ASSUME OneLength, IndInv, NEW p \in Proc, Return(p), dir' = dir,
         nlink' \in [Ino -> Int], reset' \subseteq Ino, lock' \in Proc \cup {NoProc},
         lock \in {p, NoProc} \/ lock' = lock
  PROVE  IndInv'
<1>0. /\ pc' = [pc EXCEPT ![p] = "user"] /\ op' = [op EXCEPT ![p] = NoCall]
      /\ dent' = [dent EXCEPT ![p] = NoEnt]
      /\ off' = [off EXCEPT ![p] = 0] /\ cnt' = [cnt EXCEPT ![p] = 0]
      /\ free' = [free EXCEPT ![p] = 0] /\ blk' = [blk EXCEPT ![p] = 0]
  BY DEF Return, Goto
<1>1. TypeOK'
  BY <1>0 DEF IndInv, TypeOK, PCs
<1>2. DentOK'
  BY <1>0 DEF IndInv, DentOK, NoEnt
<1>3. Knows(p)'
  <2>1. pc'[p] = "user" /\ dent'[p] = NoEnt
    BY <1>0 DEF IndInv, TypeOK, DentOK
  <2> QED BY <2>1 DEF Knows
<1>4. \A q \in Proc \ {p} : Knows(q)'
  BY <1>0, Frame DEF IndInv, TypeOK, DentOK
<1> QED BY <1>1, <1>2, <1>3, <1>4 DEF IndInv

----------------------------------------------------------------------------
(* NameI *)

LEMMA FreeEntryInd ==
  ASSUME OneLength, IndInv, NEW p \in Proc, FreeEntry(p)
  PROVE  IndInv'
<1> DEFINE o == off[p]  e == Entry(p).esize
<1>1. PICK use \in Uses :
        LET takes == free[p] = 0 /\ use <= Entry(p).esize
            end   == use + off[p] + 1
        IN  /\ free' = [free EXCEPT ![p] = IF takes THEN off[p] + 1 ELSE @]
            /\ IF takes /\ end >= SPB /\ end \div SPB = InBuf(p, off[p])
               THEN Goto(p, "stuck") ELSE pc' = pc
  BY DEF FreeEntry
<1>0. /\ Scanning(p) /\ Searching(p) /\ pc[p] = "scan" /\ Knows(p) /\ Shape(dir)
      /\ Entry(p).ino = 0
      /\ off' = [off EXCEPT ![p] = o + 1 + e] /\ cnt' = [cnt EXCEPT ![p] = cnt[p] - 1]
      /\ blk' = [blk EXCEPT ![p] = InBuf(p, o)]
      /\ UNCHANGED <<dir, lock, nlink, reset, op, dent>>
      /\ pc' = pc \/ pc' = [pc EXCEPT ![p] = "stuck"]
      /\ free' = free \/ free' = [free EXCEPT ![p] = o + 1]
  BY <1>1 DEF FreeEntry, Scanning, IndInv, Knows, Goto, TypeOK
<1>2. /\ o \in Nat /\ cnt[p] \in Nat \ {0} /\ InBuf(p, o) = o \div SPB
      /\ \/ o >= Len(dir) /\ free[p] # 0 /\ L # 1 /\ e = 0
         \/ o \in Offs(dir) /\ Empty(dir, o) /\ e = L - 1
  BY <1>0, EntryRead, DirectoryAssumption
<1>3. /\ L \in Nat \ {0} /\ Len(dir) \in Nat /\ o + 1 + e \in Nat /\ cnt[p] - 1 \in Nat
      /\ o \div SPB \in Nat /\ Start(Len(dir))
  <2>1. L \in Nat \ {0} /\ Len(dir) \in Nat /\ Start(Len(dir))
    BY <1>0, Lengths DEF Shape, IsFile
  <2>2. o \div SPB \in Nat
    BY <1>2, Blocks
  <2>3. e \in Nat
    BY <1>2, <2>1
  <2> HIDE DEF e
  <2> QED BY <1>2, <2>1, <2>2, <2>3
<1> HIDE DEF e
<1>4. TypeOK'
  <2>1. /\ off' \in [Proc -> Nat] /\ cnt' \in [Proc -> Nat] /\ blk' \in [Proc -> Nat]
        /\ free' \in [Proc -> Nat]
    <3>1. /\ off \in [Proc -> Nat] /\ cnt \in [Proc -> Nat] /\ blk \in [Proc -> Nat]
          /\ free \in [Proc -> Nat]
      BY DEF IndInv, TypeOK
    <3>2. off' \in [Proc -> Nat]
      BY <1>0, <1>3, <3>1
    <3>3. cnt' \in [Proc -> Nat]
      BY <1>0, <1>3, <3>1
    <3>4. blk' \in [Proc -> Nat]
      BY <1>0, <1>2, <1>3, <3>1
    <3>5. free' \in [Proc -> Nat]
      BY <1>0, <1>2, <3>1
    <3> QED BY <3>2, <3>3, <3>4, <3>5
  <2>2. pc' \in [Proc -> PCs]
    BY <1>0 DEF IndInv, TypeOK, PCs
  <2> QED BY <1>0, <2>1, <2>2 DEF IndInv, TypeOK
<1>5. DentOK' /\ Shape(dir') /\ Unique(dir')
  BY <1>0 DEF IndInv, DentOK
<1>6. /\ off'[p] = o + 1 + e /\ cnt'[p] = cnt[p] - 1 /\ blk'[p] = o \div SPB
      /\ free'[p] \in {free[p], o + 1} /\ free[p] \in Nat
  BY <1>0, <1>2 DEF IndInv, TypeOK
<1>7. free[p] # 0 => free'[p] = free[p]
  BY <1>1, <1>6 DEF IndInv, TypeOK
<1>8. o \in Offs(dir) => free'[p] # 0 \/ L = 1
  <2> SUFFICES ASSUME o \in Offs(dir), L # 1, free[p] = 0 PROVE free'[p] # 0
    BY <1>6, <1>7
  <2>1. use <= e /\ e = Entry(p).esize
    <3>1. o < Len(dir)
      BY <1>0, OffsFacts
    <3>2. e = L - 1
      BY <1>2, <1>3, <3>1
    <3>3. use < L /\ use \in Nat
      BY DirectoryAssumption DEF OneLength
    <3> QED BY <1>3, <3>2, <3>3 DEF e
  <2>2. free' = [free EXCEPT ![p] = o + 1]
    BY <1>1, <2>1
  <2> QED BY <1>2, <2>2 DEF IndInv, TypeOK
<1>9. Target(p)' = Target(p) /\ Target(p) \in Name
  BY <1>0, SearchTarget DEF Target
<1>10. Searching(p)'
  <2>1. CASE o >= Len(dir)
    <3>1. e = 0 /\ free[p] # 0 /\ L # 1
      BY <1>0, <1>2, <1>3, <2>1, OffsFacts
    <3>2. off'[p] = o + 1 /\ off'[p] > Len(dir) /\ off'[p] + cnt'[p] = o + cnt[p]
      <4>1. o \in Nat /\ cnt[p] \in Nat /\ Len(dir) \in Nat
        BY <1>2, <1>3
      <4>2. off'[p] = (o + 1) + 0 /\ cnt'[p] = cnt[p] - 1
        BY <1>6, <3>1
      <4> QED BY <2>1, <4>1, <4>2
    <3>3. off'[p] % SPB # 0 => blk'[p] = off'[p] \div SPB
      BY <1>2, <1>6, <3>2, Blocks
    <3>4. Absent(dir', off'[p], Target(p)')
      <4> SUFFICES ASSUME NEW x \in Offs(dir), NEW i \in Ino PROVE ~ Has(dir, x, i, Target(p))
        BY <1>0, <1>9 DEF Absent
      <4>1. x < o
        BY <1>0, <1>2, <1>3, <2>1, OffsFacts
      <4> QED BY <1>0, <4>1 DEF Searching, Absent
    <3>5. free'[p] = free[p]
      BY <1>7, <3>1
    <3> QED BY <1>0, <3>1, <3>2, <3>3, <3>4, <3>5 DEF Searching
  <2>2. CASE o \in Offs(dir) /\ Empty(dir, o) /\ e = L - 1
    <3>1. o + L <= Len(dir) /\ Start(o) /\ off'[p] = o + L /\ Start(o + L)
      <4>1. o + L <= Len(dir) /\ Start(o)
        BY <1>0, <2>2, OffsFacts
      <4>2. off'[p] = o + L
        BY <1>2, <1>3, <1>6, <2>2
      <4>3. Start(o + L)
        BY <1>2, <1>3, <4>1, Starts
      <4> QED BY <4>1, <4>2, <4>3
    <3>2. off'[p] + cnt'[p] = o + cnt[p] + (L - 1)
      BY <1>2, <1>3, <1>6, <3>1
    <3>3. o + cnt[p] >= Len(dir) /\ (L = 1 => o + cnt[p] = Len(dir))
      BY <1>0 DEF Searching
    <3>4. off'[p] + cnt'[p] >= Len(dir) /\ (L = 1 => off'[p] + cnt'[p] = Len(dir))
      BY <1>2, <1>3, <3>2, <3>3
    <3>5. off'[p] + cnt'[p] > Len(dir) => free'[p] # 0
      <4>1. CASE L = 1
        BY <1>3, <3>4, <4>1
      <4> QED BY <1>8, <2>2, <4>1
    <3>6. off'[p] % SPB # 0 => blk'[p] = off'[p] \div SPB
      BY <1>2, <1>6, <3>1, Blocks
    <3>7. free'[p] # 0 => free'[p] - 1 \in Offs(dir) /\ Empty(dir, free'[p] - 1)
      <4>1. free'[p] = o + 1 => free'[p] - 1 = o
        BY <1>2
      <4> QED BY <1>0, <1>6, <2>2, <4>1 DEF Searching
    <3>8. Absent(dir', off'[p], Target(p)')
      <4> SUFFICES ASSUME NEW x \in Offs(dir), NEW i \in Ino, x < o + L
                   PROVE  ~ Has(dir, x, i, Target(p))
        BY <1>0, <1>9, <3>1 DEF Absent
      <4>1. CASE x < o
        BY <1>0, <4>1 DEF Searching, Absent
      <4>2. CASE x = o
        BY <1>9, <2>2, <4>2, OneContent
      <4>3. CASE o < x
        <5>1. o + L <= x /\ x \in Nat
          BY <1>0, <1>2, <1>3, <3>1, <4>3, OffsFacts, Starts
        <5> QED BY <1>2, <1>3, <5>1
      <4>4. x \in Nat
        BY <1>0, OffsFacts
      <4> QED BY <1>2, <4>1, <4>2, <4>3, <4>4
    <3> QED BY <1>0, <3>1, <3>4, <3>5, <3>6, <3>7, <3>8 DEF Searching
  <2> QED BY <1>2, <2>1, <2>2
<1>11. Knows(p)'
  <2>1. pc'[p] \in {"scan", "stuck"} /\ op'[p] = op[p]
    BY <1>0 DEF IndInv, TypeOK
  <2> QED BY <1>0, <1>10, <2>1 DEF Knows
<1>12. \A q \in Proc \ {p} : Knows(q)'
  BY <1>0, Frame DEF IndInv, TypeOK, DentOK
<1> QED BY <1>4, <1>5, <1>11, <1>12 DEF IndInv

\* p goes on behind an entry
LEMMA PassedEntry ==
  ASSUME OneLength, IndInv, NEW p \in Proc, Scanning(p), PassEntry(p),
         Entry(p).ino # 0
  PROVE  /\ off[p] \in Offs(dir)
         /\ off' = [off EXCEPT ![p] = off[p] + L] /\ cnt' = [cnt EXCEPT ![p] = cnt[p] - L]
         /\ blk' = [blk EXCEPT ![p] = off[p] \div SPB]
         /\ op' = op /\ free' = free
         /\ off[p] + L \in Nat /\ cnt[p] - L \in Nat /\ off[p] \div SPB \in Nat
         /\ \E i \in Ino, n \in Name :
              /\ Has(dir, off[p], i, n) /\ Entry(p).ino = i /\ Pieces(p) = n
              /\ Matches(p) <=> n = Target(p)
<1> DEFINE o == off[p]  e == Entry(p).esize
<1>1. /\ o \in Nat /\ cnt[p] \in Nat /\ o \in Offs(dir)
      /\ InBuf(p, o + (L - 1)) = o \div SPB /\ e = L - 1
      /\ \E i \in Ino, n \in Name :
           /\ Has(dir, o, i, n) /\ Entry(p).ino = i /\ Pieces(p) = n
           /\ Matches(p) <=> n = Target(p)
  BY EntryRead
<1>2. Shape(dir) /\ Searching(p)
  BY DEF IndInv, Knows, Scanning
<1>3. o + L <= Len(dir) /\ Len(dir) \in Nat /\ L \in Nat \ {0}
  BY <1>1, <1>2, OffsFacts, Lengths DEF Shape, IsFile
<1>4. /\ off' = [off EXCEPT ![p] = o + 1 + e] /\ cnt' = [cnt EXCEPT ![p] = cnt[p] - 1 - e]
      /\ blk' = [blk EXCEPT ![p] = InBuf(p, o + e)] /\ op' = op /\ free' = free
  BY DEF PassEntry
<1>5. o + 1 + e = o + L /\ cnt[p] - 1 - e = cnt[p] - L /\ InBuf(p, o + e) = o \div SPB
  <2>1. e = L - 1 /\ InBuf(p, o + (L - 1)) = o \div SPB
    BY <1>1
  <2> HIDE DEF e
  <2> QED BY <1>1, <1>3, <2>1
<1>6. o + L \in Nat /\ cnt[p] - L \in Nat
  <2>1. o + cnt[p] >= Len(dir)
    BY <1>2 DEF Searching
  <2> QED BY <1>1, <1>3, <2>1
<1>7. o \div SPB \in Nat
  BY <1>1, Blocks
<1> QED BY <1>1, <1>4, <1>5, <1>6, <1>7

LEMMA OtherEntryInd ==
  ASSUME OneLength, IndInv, NEW p \in Proc, OtherEntry(p)
  PROVE  IndInv'
<1> DEFINE o == off[p]
<1>0. /\ Scanning(p) /\ Searching(p) /\ pc[p] = "scan" /\ Knows(p) /\ Shape(dir)
      /\ Entry(p).ino # 0 /\ ~ Matches(p) /\ PassEntry(p)
      /\ UNCHANGED <<dir, lock, nlink, reset, pc, dent>>
  BY DEF OtherEntry, Scanning, IndInv, Knows
<1>1. /\ o \in Offs(dir)
      /\ off' = [off EXCEPT ![p] = o + L] /\ cnt' = [cnt EXCEPT ![p] = cnt[p] - L]
      /\ blk' = [blk EXCEPT ![p] = o \div SPB] /\ op' = op /\ free' = free
      /\ o + L \in Nat /\ cnt[p] - L \in Nat /\ o \div SPB \in Nat
  BY <1>0, PassedEntry
<1>2. PICK i0 \in Ino, n0 \in Name : Has(dir, o, i0, n0) /\ n0 # Target(p)
  <2>1. \E i \in Ino, n \in Name :
           /\ Has(dir, off[p], i, n) /\ Entry(p).ino = i /\ Pieces(p) = n
           /\ Matches(p) <=> n = Target(p)
    BY <1>0, PassedEntry
  <2> QED BY <1>0, <2>1
<1>3. /\ o \in Nat /\ Start(o) /\ o + L <= Len(dir) /\ Start(o + L)
      /\ L \in Nat \ {0} /\ Len(dir) \in Nat /\ cnt[p] \in Nat
  <2>1. o \in Nat /\ Start(o) /\ o + L <= Len(dir)
    BY <1>0, <1>1, OffsFacts
  <2> QED BY <1>0, <2>1, Lengths, Starts DEF Shape, IsFile, IndInv, TypeOK
<1>4. TypeOK'
  <2>1. /\ off' \in [Proc -> Nat] /\ cnt' \in [Proc -> Nat]
        /\ free' \in [Proc -> Nat] /\ blk' \in [Proc -> Nat]
    <3>1. /\ off \in [Proc -> Nat] /\ cnt \in [Proc -> Nat]
          /\ free \in [Proc -> Nat] /\ blk \in [Proc -> Nat]
      BY DEF IndInv, TypeOK
    <3> HIDE DEF o
    <3> QED BY <1>1, <3>1
  <2>2. /\ Len(dir') <= MaxSlots /\ lock' \in Proc \cup {NoProc}
        /\ nlink' \in [Ino -> Int] /\ reset' \subseteq Ino
        /\ pc' \in [Proc -> PCs] /\ op' \in [Proc -> Calls \cup {NoCall}]
    BY <1>0, <1>1 DEF IndInv, TypeOK
  <2> QED BY <2>1, <2>2 DEF TypeOK
<1>5. DentOK' /\ Shape(dir') /\ Unique(dir')
  BY <1>0 DEF IndInv, DentOK
<1>6. off'[p] = o + L /\ cnt'[p] = cnt[p] - L /\ blk'[p] = o \div SPB /\ free'[p] = free[p]
  BY <1>1 DEF IndInv, TypeOK
<1>7. Target(p)' = Target(p) /\ Target(p) \in Name
  BY <1>0, <1>1, SearchTarget DEF Target
<1>8. Searching(p)'
  <2>1. off'[p] + cnt'[p] = o + cnt[p]
    BY <1>3, <1>6
  <2>2. off'[p] % SPB # 0 => blk'[p] = off'[p] \div SPB
    BY <1>3, <1>6, Blocks
  <2>3. Absent(dir', off'[p], Target(p)')
    <3> SUFFICES ASSUME NEW x \in Offs(dir), NEW i \in Ino, x < o + L
                 PROVE  ~ Has(dir, x, i, Target(p))
      BY <1>0, <1>6, <1>7 DEF Absent
    <3>1. CASE x < o
      BY <1>0, <3>1 DEF Searching, Absent
    <3>2. CASE x = o
      BY <1>2, <1>7, <3>2, OneContent
    <3>3. x \in Nat /\ (o < x => o + L <= x)
      BY <1>0, <1>3, OffsFacts, Starts
    <3> QED BY <1>3, <3>1, <3>2, <3>3
  <2> QED BY <1>0, <1>3, <1>6, <2>1, <2>2, <2>3 DEF Searching
<1>9. Knows(p)'
  BY <1>0, <1>1, <1>8 DEF Knows
<1>10. \A q \in Proc \ {p} : Knows(q)'
  BY <1>0, <1>1, Frame DEF IndInv, TypeOK, DentOK
<1> QED BY <1>4, <1>5, <1>9, <1>10 DEF IndInv

LEMMA FoundInd ==
  ASSUME OneLength, IndInv, NEW p \in Proc, Found(p)
  PROVE  IndInv'
<1>0. /\ Scanning(p) /\ Searching(p) /\ pc[p] = "scan" /\ Knows(p) /\ Shape(dir) /\ lock = p
      /\ Entry(p).ino # 0 /\ Matches(p) /\ lock' = NoProc /\ dir' = dir /\ nlink' = nlink
      /\ reset' = reset
  BY DEF Found, Scanning, IndInv, Knows, Searching
<1>1. CASE Return(p)
  BY <1>0, <1>1, ReturnInd DEF IndInv, TypeOK
<1>2. CASE ~ (op[p].kind = "open" \/ (op[p].kind = "link" /\ Creating(p)))
  <2>1. /\ dent' = [dent EXCEPT ![p] = [ino |-> Entry(p).ino, name |-> Pieces(p)]]
        /\ PassEntry(p)
        /\ pc' = [pc EXCEPT ![p] = IF op[p].kind = "unlink" THEN "unlink"
                                  ELSE IF op[p].kind = "creat" THEN "trunc" ELSE "again"]
    BY <1>2 DEF Found, Goto
  <2>2. /\ off[p] \in Offs(dir)
        /\ off' = [off EXCEPT ![p] = off[p] + L] /\ cnt' = [cnt EXCEPT ![p] = cnt[p] - L]
        /\ blk' = [blk EXCEPT ![p] = off[p] \div SPB] /\ op' = op /\ free' = free
        /\ off[p] + L \in Nat /\ cnt[p] - L \in Nat /\ off[p] \div SPB \in Nat
    BY <1>0, <2>1, PassedEntry
  <2>3. Entry(p).ino \in Ino /\ Pieces(p) = Target(p) /\ Target(p) \in Name
    <3>1. \E i \in Ino, n \in Name :
             /\ Has(dir, off[p], i, n) /\ Entry(p).ino = i /\ Pieces(p) = n
             /\ Matches(p) <=> n = Target(p)
      BY <1>0, <2>1, PassedEntry
    <3> QED BY <1>0, <3>1, SearchTarget
  <2>4. op[p] \in Calls /\ op[p].kind \in {"creat", "link", "unlink"} /\ op[p].kind \in Kinds[p]
        /\ Target(p) = op[p].name
    BY <1>0, <1>2 DEF Knows, Calls, Creating, Target
  <2>5. TypeOK'
    <3>1. pc' \in [Proc -> PCs]
      BY <2>1 DEF IndInv, TypeOK, PCs
    <3>2. /\ off' \in [Proc -> Nat] /\ cnt' \in [Proc -> Nat] /\ blk' \in [Proc -> Nat]
          /\ free' \in [Proc -> Nat]
      BY <2>2 DEF IndInv, TypeOK
    <3> QED BY <1>0, <2>2, <3>1, <3>2 DEF IndInv, TypeOK
  <2>6. DentOK'
    BY <2>1, <2>3 DEF IndInv, DentOK
  <2>7. /\ pc'[p] = (IF op[p].kind = "unlink" THEN "unlink"
                     ELSE IF op[p].kind = "creat" THEN "trunc" ELSE "again")
        /\ dent'[p].ino = Entry(p).ino /\ dent'[p].name = Pieces(p) /\ off'[p] - L = off[p]
        /\ op'[p] = op[p]
    <3>1. off'[p] = off[p] + L /\ off[p] \in Nat /\ L \in Nat
      BY <2>2, Lengths DEF IndInv, TypeOK
    <3>2. off'[p] - L = off[p]
      BY <3>1
    <3> QED BY <2>1, <2>2, <3>2 DEF IndInv, TypeOK, DentOK
  <2>8. Knows(p)'
    BY <1>0, <2>2, <2>3, <2>4, <2>7 DEF Knows
  <2>9. \A q \in Proc \ {p} : Knows(q)'
    BY <1>0, <2>1, <2>2, Frame DEF IndInv, TypeOK, DentOK
  <2> QED BY <1>0, <2>5, <2>6, <2>8, <2>9 DEF IndInv
<1> QED BY <1>1, <1>2 DEF Found

\* a search that has ended has passed all entries
LEMMA SearchEnded ==
  ASSUME OneLength, IndInv, NEW p \in Proc, Ended(p)
  PROVE  /\ lock = p /\ off[p] >= Len(dir) /\ off[p] \in Nat /\ free[p] \in Nat
         /\ off[p] > Len(dir) => free[p] # 0
         /\ free[p] # 0 => free[p] - 1 \in Offs(dir) /\ Empty(dir, free[p] - 1)
         /\ Absent(dir, Len(dir), Target(p))
<1>1. /\ pc[p] = "scan" /\ cnt[p] = 0 /\ Searching(p) /\ off[p] \in Nat /\ free[p] \in Nat
      /\ Len(dir) \in Nat /\ Shape(dir)
  BY DEF Ended, IndInv, Knows, TypeOK, Shape, IsFile
<1>2. off[p] + cnt[p] = off[p]
  BY <1>1
<1>3. off[p] >= Len(dir) /\ (off[p] > Len(dir) => free[p] # 0)
  BY <1>1, <1>2 DEF Searching
<1>4. Absent(dir, Len(dir), Target(p))
  <2> SUFFICES ASSUME NEW x \in Offs(dir), NEW i \in Ino PROVE ~ Has(dir, x, i, Target(p))
    BY DEF Absent
  <2>1. x < off[p]
    BY <1>1, <1>3, OffsFacts
  <2> QED BY <1>1, <2>1 DEF Searching, Absent
<1> QED BY <1>1, <1>3, <1>4 DEF Searching

LEMMA NotFoundInd ==
  ASSUME OneLength, IndInv, NEW p \in Proc, NotFound(p)
  PROVE  IndInv'
<1>1. lock = p
  BY SearchEnded DEF NotFound
<1> QED BY <1>1, ReturnInd DEF NotFound, IndInv, TypeOK

LEMMA FoundPlaceInd ==
  ASSUME OneLength, IndInv, NEW p \in Proc, FoundPlace(p)
  PROVE  IndInv'
<1> DEFINE o == IF free[p] # 0 THEN free[p] - 1 ELSE off[p]
<1>0. /\ Ended(p) /\ Creating(p) /\ off' = [off EXCEPT ![p] = o]
      /\ off'[p] + Len(Target(p)) <= MaxSlots /\ pc' = [pc EXCEPT ![p] = "write"]
      /\ UNCHANGED <<dir, lock, nlink, reset, op, cnt, free, blk, dent>>
      /\ pc[p] = "scan" /\ Knows(p) /\ Shape(dir)
  BY DEF FoundPlace, Goto, Ended, IndInv
<1>1. /\ lock = p /\ off[p] >= Len(dir) /\ off[p] \in Nat /\ free[p] \in Nat
      /\ off[p] > Len(dir) => free[p] # 0
      /\ free[p] # 0 => free[p] - 1 \in Offs(dir) /\ Empty(dir, free[p] - 1)
      /\ Absent(dir, Len(dir), Target(p))
  BY <1>0, SearchEnded
<1>2. Len(dir) \in Nat
  BY <1>0 DEF Shape, IsFile
<1>3. o \in Nat /\ (o = Len(dir) \/ (o \in Offs(dir) /\ Empty(dir, o)))
  BY <1>1, <1>2
<1> HIDE DEF o
<1>4. off'[p] = o /\ pc'[p] = "write"
  BY <1>0 DEF IndInv, TypeOK
<1>5. Target(p)' = Target(p) /\ Creating(p)' /\ Len(Target(p)) = L
  BY <1>0, SearchTarget DEF Target, Creating, OneLength
<1>6. Placed(p)'
  BY <1>0, <1>1, <1>3, <1>4, <1>5 DEF Placed
<1>7. TypeOK'
  <2>1. off' \in [Proc -> Nat]
    BY <1>0, <1>3 DEF IndInv, TypeOK
  <2>2. pc' \in [Proc -> PCs]
    BY <1>0 DEF IndInv, TypeOK, PCs
  <2> QED BY <1>0, <2>1, <2>2 DEF IndInv, TypeOK
<1>8. DentOK' /\ Shape(dir') /\ Unique(dir')
  BY <1>0 DEF IndInv, DentOK
<1>9. Knows(p)'
  BY <1>0, <1>4, <1>6 DEF Knows
<1>10. \A q \in Proc \ {p} : Knows(q)'
  BY <1>0, Frame DEF IndInv, TypeOK, DentOK
<1> QED BY <1>7, <1>8, <1>9, <1>10 DEF IndInv

----------------------------------------------------------------------------
(* MakNode, WriteDir, Link, UnLink *)

\* what WriteDir does to the file
LEMMA EntryAdded ==
  ASSUME OneLength, IndInv, NEW p \in Proc, pc[p] = "write",
         NEW i \in Ino, WriteEntry(p, i)
  PROVE  /\ lock = p /\ Target(p) \in Name /\ Creating(p)
         /\ Shape(dir') /\ Unique(dir') /\ Len(dir') <= MaxSlots
         /\ off[p] \in Nat /\ Offs(dir') = Offs(dir) \cup {off[p]}
         /\ Has(dir', off[p], i, Target(p))
         /\ off[p] \in Offs(dir) => Empty(dir, off[p])
         /\ Absent(dir, Len(dir), Target(p))
         /\ \A x \in Offs(dir) \ {off[p]} :
              /\ Empty(dir', x) <=> Empty(dir, x)
              /\ \A j, m : Has(dir', x, j, m) <=> Has(dir, x, j, m)
<1> DEFINE o == off[p]  n == Target(p)
<1>0. /\ Placed(p) /\ n \in Name /\ Shape(dir) /\ Unique(dir) /\ o \in Nat
      /\ Len(dir) \in Nat /\ Len(dir) <= MaxSlots /\ L \in Nat \ {0}
  BY SearchTarget, Lengths DEF IndInv, Knows, TypeOK, Shape, IsFile
<1>1. o = Len(dir) \/ (o \in Offs(dir) /\ Empty(dir, o))
  BY <1>0 DEF Placed
<1>2. dir' = Written(o, EntrySlots(i, n))
  BY DEF WriteEntry
<1>3. /\ Shape(dir') /\ Offs(dir') = Offs(dir) \cup {o} /\ Has(dir', o, i, n)
      /\ Len(dir') = IF o = Len(dir) THEN Len(dir) + L ELSE Len(dir)
      /\ \A x \in Offs(dir) \ {o} :
           /\ Empty(dir', x) <=> Empty(dir, x)
           /\ \A j, m : Has(dir', x, j, m) <=> Has(dir, x, j, m)
  BY <1>0, <1>1, <1>2, NewEntry
<1>4. Len(dir') <= MaxSlots
  <2>1. o + L <= MaxSlots
    BY <1>0 DEF Placed
  <2> QED BY <1>0, <1>3, <2>1
<1>5. o \in Offs(dir) => Empty(dir, o)
  BY <1>0, <1>1, OffsFacts
<1>6. Absent(dir, Len(dir), n)
  BY <1>0 DEF Placed
<1>7. \A x \in Offs(dir), j \in Ino : ~ Has(dir, x, j, n)
  BY <1>0, <1>6, OffsFacts DEF Absent
<1>8. Unique(dir')
  <2> SUFFICES ASSUME NEW o1 \in Offs(dir'), NEW o2 \in Offs(dir'), NEW i1 \in Ino,
                      NEW i2 \in Ino, NEW m \in Name,
                      Has(dir', o1, i1, m), Has(dir', o2, i2, m)
               PROVE  o1 = o2
    BY DEF Unique
  <2>1. CASE o1 # o /\ o2 # o
    BY <1>0, <1>3, <2>1 DEF Unique
  <2>2. ASSUME NEW x \in Offs(dir'), NEW j \in Ino, x # o, Has(dir', x, j, m),
               NEW k \in Ino, Has(dir', o, k, m)
        PROVE  FALSE
    <3>1. m = n
      <4>1. Has(dir', o, i, n) /\ n \in Name /\ Has(dir', o, k, m)
        BY <1>0, <1>3, <2>2
      <4> HIDE DEF o, n
      <4> QED BY <4>1, OneContent
    <3>2. Has(dir, x, j, n)
      BY <1>3, <2>2, <3>1
    <3> QED BY <1>3, <1>7, <2>2, <3>2
  <2> QED BY <2>1, <2>2
<1> QED BY <1>0, <1>3, <1>4, <1>5, <1>6, <1>8 DEF Placed

LEMMA MakNodeInd ==
  ASSUME OneLength, IndInv, NEW p \in Proc, MakNode(p)
  PROVE  IndInv'
<1>1. PICK i \in Fresh : /\ WriteEntry(p, i) /\ nlink' = [nlink EXCEPT ![i] = 1]
                        /\ reset' \subseteq reset
  BY DEF MakNode
<1>0. /\ pc[p] = "write" /\ lock' = NoProc /\ i \in Ino
      /\ pc' = [pc EXCEPT ![p] = "user"] /\ op' = [op EXCEPT ![p] = NoCall]
      /\ dent' = [dent EXCEPT ![p] = NoEnt]
      /\ off' = [off EXCEPT ![p] = 0] /\ cnt' = [cnt EXCEPT ![p] = 0]
      /\ free' = [free EXCEPT ![p] = 0] /\ blk' = [blk EXCEPT ![p] = 0]
  BY DEF MakNode, Return, Goto, Fresh
<1>2. /\ lock = p /\ Shape(dir') /\ Unique(dir') /\ Len(dir') <= MaxSlots
      /\ Offs(dir') = Offs(dir) \cup {off[p]}
  BY <1>0, <1>1, EntryAdded
<1>3. TypeOK'
  <2>1. nlink' \in [Ino -> Int] /\ reset' \subseteq Ino
    <3>1. nlink \in [Ino -> Int] /\ reset \subseteq Ino
      BY DEF IndInv, TypeOK
    <3> QED BY <1>0, <1>1, <3>1
  <2> QED BY <1>0, <1>2, <2>1 DEF IndInv, TypeOK, PCs
<1>4. DentOK'
  BY <1>0 DEF IndInv, DentOK, NoEnt
<1>5. Knows(p)'
  <2>1. pc'[p] = "user" /\ dent'[p] = NoEnt
    BY <1>0 DEF IndInv, TypeOK, DentOK
  <2> QED BY <2>1 DEF Knows
<1>6. \A q \in Proc \ {p} : Knows(q)'
  BY <1>0, <1>2, Frame DEF IndInv, TypeOK, DentOK
<1> QED BY <1>2, <1>3, <1>4, <1>5, <1>6 DEF IndInv

\* creat of a name that is there
LEMMA TruncateInd ==
  ASSUME OneLength, IndInv, NEW p \in Proc, Truncate(p) \/ LeaveFile(p)
  PROVE  IndInv'
<1>1. dent[p].ino \in Ino /\ nlink \in [Ino -> Int] /\ reset \subseteq Ino
  BY DEF Truncate, LeaveFile, IndInv, Knows, TypeOK
<1>2. /\ Return(p) /\ dir' = dir /\ lock' = lock
      /\ nlink' = [nlink EXCEPT ![dent[p].ino] = 1] \/ nlink' = nlink
      /\ reset' \subseteq reset \cup {dent[p].ino}
  BY DEF Truncate, LeaveFile
<1>3. nlink' \in [Ino -> Int] /\ reset' \subseteq Ino
  BY <1>1, <1>2
<1> QED BY <1>2, <1>3, ReturnInd DEF IndInv, TypeOK

LEMMA MakNodeFailsInd ==
  ASSUME OneLength, IndInv, NEW p \in Proc, MakNodeFails(p)
  PROVE  IndInv'
BY ReturnInd DEF MakNodeFails, IndInv, TypeOK

LEMMA LinkWriteInd ==
  ASSUME OneLength, IndInv, NEW p \in Proc, LinkWrite(p)
  PROVE  IndInv'
<1>0. /\ pc[p] = "write" /\ op[p].kind = "link" /\ WriteEntry(p, dent[p].ino)
      /\ lock' = NoProc /\ pc' = [pc EXCEPT ![p] = "linked"]
      /\ UNCHANGED <<nlink, reset, op, off, cnt, free, blk, dent>> /\ Knows(p)
  BY DEF LinkWrite, Goto, scanVars, IndInv
<1>1. dent[p].ino \in Ino
  BY <1>0 DEF IndInv, Knows, Placed, Creating, DentOK
<1>2. /\ lock = p /\ Shape(dir') /\ Unique(dir') /\ Len(dir') <= MaxSlots
      /\ Offs(dir') = Offs(dir) \cup {off[p]}
  BY <1>0, <1>1, EntryAdded
<1>3. TypeOK'
  BY <1>0, <1>2 DEF IndInv, TypeOK, PCs
<1>4. DentOK'
  BY <1>0 DEF IndInv, DentOK
<1>5. Knows(p)'
  <2>1. pc'[p] = "linked"
    BY <1>0 DEF IndInv, TypeOK
  <2> QED BY <1>0, <1>1, <2>1 DEF Knows
<1>6. \A q \in Proc \ {p} : Knows(q)'
  BY <1>0, <1>2, Frame DEF IndInv, TypeOK, DentOK
<1> QED BY <1>2, <1>3, <1>4, <1>5, <1>6 DEF IndInv

LEMMA LinkCountInd ==
  ASSUME OneLength, IndInv, NEW p \in Proc, LinkCount(p)
  PROVE  IndInv'
<1>1. dent[p].ino \in Ino
  BY DEF LinkCount, IndInv, Knows
<1>2. nlink' \in [Ino -> Int]
  BY <1>1 DEF LinkCount, IndInv, TypeOK
<1> QED BY <1>2, ReturnInd DEF LinkCount, IndInv, TypeOK

\* what UnLink does to the file
LEMMA EntryRemoved ==
  ASSUME OneLength, IndInv, NEW p \in Proc, UnLinkWrite(p)
  PROVE  LET o == off[p] - L IN
         /\ o \in Offs(dir) /\ dent[p].ino \in Ino /\ op[p].name \in Name
         /\ Shape(dir') /\ Unique(dir') /\ Len(dir') = Len(dir)
         /\ Offs(dir') = Offs(dir) /\ Empty(dir', o)
         /\ \A x \in Offs(dir) \ {o} :
              /\ Empty(dir', x) <=> Empty(dir, x)
              /\ \A j, m : Has(dir', x, j, m) <=> Has(dir, x, j, m)
<1> DEFINE o == off[p] - L  n == op[p].name
<1>0. /\ o \in Offs(dir) /\ dent[p].ino \in Ino /\ dent[p].name = n /\ n \in Name
      /\ Shape(dir) /\ Unique(dir)
  BY DEF UnLinkWrite, IndInv, Knows, Calls
<1>1. dir' = Written(o, <<Ent(0, n[1], Len(n) - 1)>> \o [k \in 1 .. Len(n) - 1 |-> Zero])
  <2>1. Len(n) = L
    BY <1>0 DEF OneLength
  <2> QED BY <1>0, <2>1 DEF UnLinkWrite
<1> HIDE DEF o, n
<1>2. /\ Shape(dir') /\ Offs(dir') = Offs(dir) /\ Empty(dir', o) /\ Len(dir') = Len(dir)
      /\ \A x \in Offs(dir) \ {o} :
           /\ Empty(dir', x) <=> Empty(dir, x)
           /\ \A j, m : Has(dir', x, j, m) <=> Has(dir, x, j, m)
  BY <1>0, <1>1, Cleared
<1>3. \A i \in Ino, m \in Name : ~ Has(dir', o, i, m)
  BY <1>2, OneContent
<1>4. Unique(dir')
  BY <1>0, <1>2, <1>3 DEF Unique
<1> QED BY <1>0, <1>2, <1>4 DEF o, n

LEMMA UnLinkWriteInd ==
  ASSUME OneLength, IndInv, NEW p \in Proc, UnLinkWrite(p)
  PROVE  IndInv'
<1> DEFINE o == off[p] - L
<1>0. /\ lock' = lock /\ reset' = reset /\ nlink' = [nlink EXCEPT ![dent[p].ino] = @ - 1]
      /\ pc' = [pc EXCEPT ![p] = "user"] /\ op' = [op EXCEPT ![p] = NoCall]
      /\ dent' = [dent EXCEPT ![p] = NoEnt]
      /\ off' = [off EXCEPT ![p] = 0] /\ cnt' = [cnt EXCEPT ![p] = 0]
      /\ free' = [free EXCEPT ![p] = 0] /\ blk' = [blk EXCEPT ![p] = 0]
  BY DEF UnLinkWrite, Return, Goto
<1>1. /\ o \in Offs(dir) /\ dent[p].ino \in Ino
      /\ Shape(dir') /\ Unique(dir') /\ Len(dir') = Len(dir)
      /\ Offs(dir') = Offs(dir) /\ Empty(dir', o)
      /\ \A x \in Offs(dir) \ {o} :
           /\ Empty(dir', x) <=> Empty(dir, x)
           /\ \A j, m : Has(dir', x, j, m) <=> Has(dir, x, j, m)
  BY EntryRemoved
<1> HIDE DEF o
<1>2. TypeOK'
  <2>1. nlink' \in [Ino -> Int]
    <3>1. nlink \in [Ino -> Int] /\ dent[p].ino \in Ino
      BY <1>1 DEF IndInv, TypeOK
    <3>2. nlink' = [nlink EXCEPT ![dent[p].ino] = nlink[dent[p].ino] - 1]
      BY <1>0
    <3>3. nlink[dent[p].ino] - 1 \in Int
      BY <3>1
    <3> QED BY <3>1, <3>2, <3>3
  <2>2. Len(dir') <= MaxSlots /\ lock' \in Proc \cup {NoProc} /\ reset' \subseteq Ino
    BY <1>0, <1>1 DEF IndInv, TypeOK
  <2>3. /\ pc \in [Proc -> PCs] /\ op \in [Proc -> Calls \cup {NoCall}]
        /\ off \in [Proc -> Nat] /\ cnt \in [Proc -> Nat]
        /\ free \in [Proc -> Nat] /\ blk \in [Proc -> Nat]
    BY DEF IndInv, TypeOK
  <2>4. /\ pc' \in [Proc -> PCs] /\ op' \in [Proc -> Calls \cup {NoCall}]
        /\ off' \in [Proc -> Nat] /\ cnt' \in [Proc -> Nat]
        /\ free' \in [Proc -> Nat] /\ blk' \in [Proc -> Nat]
    BY <1>0, <2>3 DEF PCs
  <2> QED BY <2>1, <2>2, <2>4 DEF TypeOK
<1>3. DentOK'
  BY <1>0 DEF IndInv, DentOK, NoEnt
<1>4. Knows(p)'
  <2>1. pc'[p] = "user" /\ dent'[p] = NoEnt
    BY <1>0 DEF IndInv, TypeOK, DentOK
  <2> QED BY <2>1 DEF Knows
<1>5. \A q \in Proc \ {p} : Knows(q)'
  <2>1. \A x \in Offs(dir) : /\ Empty(dir, x) => Empty(dir', x)
                            /\ \A i \in Ino, n \in Name :
                                 Has(dir', x, i, n) => Has(dir, x, i, n)
    BY <1>1, OneContent
  <2> QED BY <1>0, <1>1, <2>1, Frame DEF IndInv, TypeOK, DentOK
<1> QED BY <1>1, <1>2, <1>3, <1>4, <1>5 DEF IndInv

LEMMA NextInd == ASSUME OneLength, IndInv, [Next]_vars PROVE IndInv'
<1>1. ASSUME NEW p \in Proc, Step(p) PROVE IndInv'
  BY <1>1, FreeEntryInd, OtherEntryInd, FoundInd, TruncateInd, LinkAgainInd, NotFoundInd,
     FoundPlaceInd, MakNodeInd, MakNodeFailsInd, LinkWriteInd, LinkCountInd, UnLinkWriteInd DEF Step
<1>2. ASSUME UNCHANGED vars PROVE IndInv'
  <2>1. \A q \in Proc : Knows(q)'
    BY <1>2 DEF vars, scanVars, IndInv, Knows, Searching, Placed, Target, Creating
  <2> QED BY <1>2, <2>1 DEF vars, scanVars, IndInv, TypeOK, DentOK
<1> QED BY <1>1, <1>2, CallInd DEF Next

THEOREM Invariance == OneLength => (Spec => []IndInv)
<1> SUFFICES ASSUME OneLength PROVE Spec => []IndInv
  OBVIOUS
<1>1. Init => IndInv
  BY InitInd
<1>2. IndInv /\ [Next]_vars => IndInv'
  BY NextInd
<1> QED BY <1>1, <1>2, PTL DEF Spec

----------------------------------------------------------------------------
(* Types, and the room for a new name *)

\* Every variable keeps its type: the file does not outgrow its bound and a
\* search does not count below zero.
THEOREM TypeCorrect == OneLength => (Spec => []TypeOK)
<1> SUFFICES ASSUME OneLength PROVE Spec => []TypeOK
  OBVIOUS
<1>1. IndInv => TypeOK
  BY DEF IndInv
<1> QED BY <1>1, Invariance, PTL

\* IsEntry of Directory, and InoOf, for a file d
EntryAt(d, k, n) ==
  /\ "ino" \in DOMAIN d[k] /\ d[k].ino # 0
  /\ k + Len(n) - 1 <= Len(d)
  /\ SubSeq(d, k, k + Len(n) - 1) = EntrySlots(d[k].ino, n)

\* slots that look like the start of an entry are one
LEMMA EntryIff ==
  ASSUME OneLength, NEW d, Shape(d), NEW n \in Name, NEW k \in DOMAIN d
  PROVE  /\ EntryAt(d, k, n) => k - 1 \in Offs(d) /\ d[k].ino \in Ino
                                 /\ Has(d, k - 1, d[k].ino, n)
         /\ k - 1 \in Offs(d) => \A i \in Ino : Has(d, k - 1, i, n) =>
                                   EntryAt(d, k, n) /\ d[k].ino = i
<1>0. /\ L \in Nat \ {0} /\ Len(n) = L /\ Len(d) \in Nat /\ DOMAIN d = 1 .. Len(d)
      /\ k \in 1 .. Len(d) /\ Start(Len(d))
  BY Lengths DEF OneLength, Shape, IsFile
<1>1. \A i \in Ino : /\ IsFile(EntrySlots(i, n)) /\ Len(EntrySlots(i, n)) = L
                     /\ EntrySlots(i, n)[1] = Ent(i, n[1], L - 1)
                     /\ \A j \in 2 .. L : EntrySlots(i, n)[j] = Rest(n[j])
  BY SlotsOfEntry
<1>2. ASSUME EntryAt(d, k, n)
      PROVE  k - 1 \in Offs(d) /\ d[k].ino \in Ino /\ Has(d, k - 1, d[k].ino, n)
  <2>1. PICK o \in Nat : Start(o) /\ o <= k - 1 /\ k - 1 < o + L
    <3>1. k - 1 \in Nat
      BY <1>0
    <3> QED BY <1>0, <3>1, Starts
  <2>2. o \in Offs(d)
    BY <1>0, <2>1 DEF Offs
  <2>3. o = k - 1
    <3> SUFFICES ASSUME o # k - 1 PROVE FALSE
      OBVIOUS
    <3>1. k - o \in 2 .. L /\ o + (k - o) = k
      BY <1>0, <2>1
    <3>2. d[k] = Zero \/ \E m \in Name : d[k] = Rest(m[k - o])
      <4>1. \A j \in 2 .. L : d[o + j] = Zero \/ \E m \in Name : d[o + j] = Rest(m[j])
        BY <2>2 DEF Shape, Empty, Has
      <4> QED BY <3>1, <4>1
    <3> QED BY <1>2, <3>2, SlotFacts DEF EntryAt
  <2>4. PICK i \in Ino, m \in Name : Has(d, o, i, m)
    <3>1. ~ Empty(d, o)
      <4>1. o + 1 = k
        BY <1>0, <2>3
      <4> QED BY <1>2, <4>1, SlotFacts DEF Empty, EntryAt
    <3> QED BY <2>2, <3>1 DEF Shape
  <2>5. d[k] = Ent(i, m[1], L - 1) /\ d[k].ino = i /\ k = o + 1
    <3>1. o + 1 = k
      BY <1>0, <2>3
    <3> QED BY <2>4, <3>1, SlotFacts DEF Has
  <2>6. Has(d, o, i, n)
    <3> DEFINE S == {d[j] : j \in 1 .. Len(d)}
    <3>1. \A j \in 1 .. L : SubSeq(d, k, k + L - 1)[j] = d[k + j - 1]
      <4>1. k + L - 1 <= Len(d) /\ k + L - 1 \in Int /\ k \in Int /\ (k + L - 1) - k + 1 = L
        BY <1>0, <1>2 DEF EntryAt
      <4>2. \A j \in k .. k + L - 1 : d[j] \in S
        BY <1>0, <4>1
      <4> HIDE DEF S
      <4> QED BY <4>1, <4>2, SubSeqProperties
    <3>2. \A j \in 1 .. L : d[o + j] = EntrySlots(i, n)[j]
      <4> SUFFICES ASSUME NEW j \in 1 .. L PROVE d[o + j] = EntrySlots(i, n)[j]
        OBVIOUS
      <4>1. k + j - 1 = o + j
        BY <1>0, <2>5
      <4>2. SubSeq(d, k, k + L - 1) = EntrySlots(i, n)
        BY <1>0, <1>2, <2>5 DEF EntryAt
      <4> QED BY <3>1, <4>1, <4>2
    <3>3. 1 \in 1 .. L /\ \A j \in 2 .. L : j \in 1 .. L
      BY <1>0
    <3> QED BY <1>1, <3>2, <3>3 DEF Has
  <2> QED BY <2>2, <2>3, <2>5, <2>6
<1>3. ASSUME k - 1 \in Offs(d), NEW i \in Ino, Has(d, k - 1, i, n)
      PROVE  EntryAt(d, k, n) /\ d[k].ino = i
  <2> DEFINE o == k - 1
             S == {d[j] : j \in 1 .. Len(d)}
             t == SubSeq(d, k, k + L - 1)
             e == EntrySlots(i, n)
  <2>1. o + 1 = k /\ o + L <= Len(d) /\ o \in Nat
    BY <1>0, <1>3, OffsFacts
  <2>2. d[k] = Ent(i, n[1], L - 1) /\ \A j \in 2 .. L : d[o + j] = Rest(n[j])
    BY <1>3, <2>1 DEF Has
  <2>3. "ino" \in DOMAIN d[k] /\ d[k].ino = i /\ i # 0
    BY <2>2, SlotFacts, DirectoryAssumption
  <2>4. k + L - 1 <= Len(d) /\ k + L - 1 \in Int /\ k \in Int /\ (k + L - 1) - k + 1 = L
        /\ k <= k + L - 1
    BY <1>0, <2>1
  <2>5. t \in Seq(S) /\ Len(t) = L /\ \A j \in 1 .. L : t[j] = d[k + j - 1]
    <3>1. \A j \in k .. k + L - 1 : d[j] \in S
      BY <1>0, <2>4
    <3>2. \A j \in 1 .. L : j \in 1 .. (k + L - 1) - k + 1
      BY <2>4
    <3> HIDE DEF S
    <3>3. t \in Seq(S) /\ Len(t) = L
      BY <2>4, <3>1, SubSeqProperties
    <3>4. \A j \in 1 .. (k + L - 1) - k + 1 : t[j] = d[k + j - 1]
      BY <2>4, <3>1, SubSeqProperties
    <3> QED BY <3>2, <3>3, <3>4
  <2>6. \A j \in 1 .. L : t[j] = e[j]
    <3> SUFFICES ASSUME NEW j \in 1 .. L PROVE t[j] = e[j]
      OBVIOUS
    <3>1. t[j] = d[o + j]
      <4>1. k + j - 1 = o + j
        BY <1>0
      <4> HIDE DEF t, o
      <4> QED BY <2>5, <4>1
    <3>2. CASE j = 1
      BY <1>1, <2>1, <2>2, <3>1, <3>2
    <3>3. CASE j \in 2 .. L
      BY <1>1, <2>2, <3>1, <3>3
    <3> QED BY <1>0, <3>2, <3>3
  <2>7. t = e
    <3>1. e \in Seq(S)
      <4>1. e = [j \in 1 .. L |-> e[j]]
        BY <1>0 DEF EntrySlots
      <4>2. \A j \in 1 .. L : e[j] \in S
        <5>1. t \in [1 .. L -> S]
          <6> HIDE DEF t, S
          <6> QED BY <2>5, LenProperties
        <5> HIDE DEF t, S, e
        <5> QED BY <2>6, <5>1
      <4> HIDE DEF e, S
      <4>3. e \in [1 .. L -> S]
        BY <4>1, <4>2
      <4> QED BY <1>0, <4>3, SeqDef
    <3>2. Len(e) = L
      BY <1>1
    <3> HIDE DEF t, e, S
    <3> QED BY <2>5, <2>6, <3>1, <3>2, SeqEqual
  <2> QED BY <1>0, <2>3, <2>4, <2>7 DEF EntryAt
<1> QED BY <1>2, <1>3

\* The place that NameI finds for a new name is free and large enough
\* (line 674): WriteDir overwrites no part of another file's entry.
THEOREM NewNameHasRoom == OneLength => (Spec => []FoundRoom)
<1> SUFFICES ASSUME OneLength PROVE Spec => []FoundRoom
  OBVIOUS
<1>1. IndInv => FoundRoom
  <2> SUFFICES ASSUME IndInv, NEW p \in Proc, pc[p] = "write", NEW n \in Name,
                      NEW k \in DOMAIN dir, IsEntry(k, n)
               PROVE  (k .. k + Len(n) - 1) \cap (off[p] + 1 .. off[p] + Len(Target(p))) = {}
    BY DEF FoundRoom
  <2>1. /\ Shape(dir) /\ Placed(p) /\ off[p] \in Nat /\ Target(p) \in Name
        /\ Len(dir) \in Nat /\ Start(Len(dir)) /\ L \in Nat \ {0}
        /\ Len(n) = L /\ Len(Target(p)) = L
    BY SearchTarget, Lengths DEF IndInv, Knows, TypeOK, Shape, IsFile, OneLength
  <2>2. EntryAt(dir, k, n)
    BY DEF IsEntry, EntryAt
  <2>3. k - 1 \in Offs(dir) /\ dir[k].ino \in Ino /\ Has(dir, k - 1, dir[k].ino, n)
    BY <2>1, <2>2, EntryIff
  <2>4. ~ Empty(dir, k - 1)
    BY <2>3, OneContent
  <2>5. k \in Nat /\ k - 1 \in Nat /\ Start(k - 1) /\ (k - 1) + L <= Len(dir)
    <3>1. k - 1 \in Nat /\ Start(k - 1) /\ (k - 1) + L <= Len(dir)
      BY <2>1, <2>3, OffsFacts
    <3>2. k \in 1 .. Len(dir)
      BY <2>1 DEF Shape, IsFile
    <3> QED BY <3>1, <3>2
  <2>6. off[p] = Len(dir) \/ (off[p] \in Offs(dir) /\ off[p] # k - 1)
    BY <2>1, <2>4 DEF Placed
  <2>7. (k - 1) + L <= off[p] \/ off[p] + L <= k - 1
    <3>1. CASE off[p] = Len(dir)
      BY <2>5, <3>1
    <3>2. CASE off[p] \in Offs(dir) /\ off[p] # k - 1
      <4>1. Start(off[p])
        BY <2>1, <3>2, OffsFacts
      <4>2. off[p] < k - 1 \/ k - 1 < off[p]
        BY <2>1, <2>5, <3>2
      <4> QED BY <2>1, <2>5, <4>1, <4>2, Starts
    <3> QED BY <2>6, <3>1, <3>2
  <2>8. ASSUME NEW x \in k .. k + L - 1, x \in off[p] + 1 .. off[p] + L PROVE FALSE
    <3>1. x \in Int /\ k <= x /\ x <= k + L - 1 /\ off[p] + 1 <= x /\ x <= off[p] + L
      BY <2>1, <2>5, <2>8
    <3> QED BY <2>1, <2>5, <2>7, <3>1
  <2> QED BY <2>1, <2>8
<1> QED BY <1>1, Invariance, PTL

----------------------------------------------------------------------------
(* Link counts *)

\* the entry that unlink is about to clear is still the one it found
Held == \A p \in Proc : pc[p] = "unlink" => Has(dir, off[p] - L, dent[p].ino, op[p].name)

\* the entries of file i in d, and the links to it that are not counted yet
Links(d, i) == {k \in 1 .. Len(d) : k - 1 \in Offs(d) /\ \E n \in Name : Has(d, k - 1, i, n)}
Linking(i)  == {p \in Proc : pc[p] = "linked" /\ dent[p].ino = i}

Counted == \A i \in Ino \ reset :
             nlink[i] + Cardinality(Linking(i)) = Cardinality(Links(dir, i))

MapInv == IndInv /\ Held /\ Counted

\* a step changes what one process knows
LEMMA OthersStay ==
  ASSUME IndInv, NEW p \in Proc, Step(p) \/ \E c \in Calls : Call(p, c)
  PROVE  \A q \in Proc \ {p} : /\ pc'[q] = pc[q] /\ op'[q] = op[q] /\ off'[q] = off[q]
                                /\ dent'[q] = dent[q]
<1> USE DEF IndInv, TypeOK, DentOK, Goto, Return
<1>1. ASSUME NEW c \in Calls, Call(p, c)
      PROVE  \A q \in Proc \ {p} : /\ pc'[q] = pc[q] /\ op'[q] = op[q] /\ off'[q] = off[q]
                                    /\ dent'[q] = dent[q]
  BY <1>1 DEF Call, StartSearch
<1>2. CASE FreeEntry(p)
  BY <1>2 DEF FreeEntry
<1>3. CASE OtherEntry(p)
  BY <1>3 DEF OtherEntry, PassEntry
<1>4. CASE Found(p)
  BY <1>4 DEF Found, PassEntry
<1>5. CASE LinkAgain(p)
  BY <1>5 DEF LinkAgain, StartSearch
<1>6. CASE NotFound(p)
  BY <1>6 DEF NotFound
<1>7. CASE FoundPlace(p)
  BY <1>7 DEF FoundPlace
<1>8. CASE MakNode(p)
  BY <1>8 DEF MakNode
<1>9. CASE MakNodeFails(p)
  BY <1>9 DEF MakNodeFails
<1>10. CASE LinkWrite(p)
  BY <1>10 DEF LinkWrite, scanVars
<1>11. CASE LinkCount(p)
  BY <1>11 DEF LinkCount
<1>12. CASE UnLinkWrite(p)
  BY <1>12 DEF UnLinkWrite
<1>13. CASE Truncate(p) \/ LeaveFile(p)
  BY <1>13 DEF Truncate, LeaveFile
<1> QED BY <1>1, <1>2, <1>3, <1>4, <1>5, <1>6, <1>7, <1>8, <1>9, <1>10, <1>11, <1>12, <1>13
        DEF Step

\* the steps that write no entry and change no link count
Quiet(p) == \/ \E c \in Calls : Call(p, c)
            \/ FreeEntry(p) \/ OtherEntry(p) \/ Found(p) \/ LinkAgain(p)
            \/ NotFound(p) \/ FoundPlace(p) \/ MakNodeFails(p) \/ LeaveFile(p)

LEMMA QuietStep ==
  ASSUME IndInv, NEW p \in Proc, Quiet(p)
  PROVE  /\ dir' = dir /\ nlink' = nlink /\ reset' = reset
         /\ pc[p] # "linked" /\ pc'[p] # "linked"
<1> USE DEF IndInv, TypeOK, Goto, Return
<1>1. CASE \E c \in Calls : Call(p, c)
  BY <1>1 DEF Call, StartSearch
<1>2. CASE FreeEntry(p)
  <2>1. /\ dir' = dir /\ nlink' = nlink /\ reset' = reset /\ pc[p] = "scan"
        /\ pc' = pc \/ pc' = [pc EXCEPT ![p] = "stuck"]
    BY <1>2 DEF FreeEntry, Scanning
  <2> QED BY <2>1
<1>3. CASE OtherEntry(p)
  BY <1>3 DEF OtherEntry, Scanning
<1>4. CASE Found(p)
  BY <1>4 DEF Found, Scanning
<1>5. CASE LinkAgain(p)
  BY <1>5 DEF LinkAgain, StartSearch
<1>6. CASE NotFound(p)
  BY <1>6 DEF NotFound, Ended
<1>7. CASE FoundPlace(p)
  BY <1>7 DEF FoundPlace, Ended
<1>8. CASE MakNodeFails(p)
  BY <1>8 DEF MakNodeFails
<1>9. CASE LeaveFile(p)
  BY <1>9 DEF LeaveFile
<1> QED BY <1>1, <1>2, <1>3, <1>4, <1>5, <1>6, <1>7, <1>8, <1>9 DEF Quiet

LEMMA HeldInit == ASSUME OneLength, Init PROVE MapInv
<1>1. IndInv
  BY InitInd
<1>2. Held
  BY DEF Init, Held
<1>3. ASSUME NEW i \in Ino
      PROVE  nlink[i] = 0 /\ Linking(i) = {} /\ Links(dir, i) = {}
  BY <1>3 DEF Init, Linking, Links
<1>4. Counted
  BY <1>3, FS_EmptySet DEF Counted
<1> QED BY <1>1, <1>2, <1>4 DEF MapInv

LEMMA HeldInd ==
  ASSUME OneLength, OneRemover, IndInv, Held, [Next]_vars PROVE Held'
<1> SUFFICES ASSUME NEW q \in Proc, pc'[q] = "unlink"
             PROVE  Has(dir', off'[q] - L, dent'[q].ino, op'[q].name)
  BY DEF Held
<1>1. CASE UNCHANGED vars
  BY <1>1 DEF vars, scanVars, Held
<1>2. ASSUME NEW p \in Proc, Step(p) \/ \E c \in Calls : Call(p, c)
      PROVE  Has(dir', off'[q] - L, dent'[q].ino, op'[q].name)
  <2>1. CASE p = q
    <3>1. Found(p) /\ ~ Return(p)
      BY <1>2, <2>1 DEF Step, Call, FreeEntry, OtherEntry, Scanning, LinkAgain, StartSearch,
        NotFound, FoundPlace, Ended, Truncate, LeaveFile, MakNode, MakNodeFails, LinkWrite, LinkCount,
        UnLinkWrite, Return, Goto, IndInv, TypeOK
    <3>2. /\ Scanning(p) /\ PassEntry(p) /\ Entry(p).ino # 0 /\ Matches(p) /\ dir' = dir
          /\ dent' = [dent EXCEPT ![p] = [ino |-> Entry(p).ino, name |-> Pieces(p)]]
          /\ op[p].kind # "link"
      <4>1. pc' = [pc EXCEPT ![p] = IF op[p].kind = "unlink" THEN "unlink"
                                    ELSE IF op[p].kind = "creat" THEN "trunc" ELSE "again"]
        BY <3>1 DEF Found, Goto
      <4>2. op[p].kind = "unlink"
        BY <2>1, <4>1 DEF IndInv, TypeOK
      <4> QED BY <3>1, <4>2 DEF Found
    <3>3. /\ off[p] \in Offs(dir) /\ off' = [off EXCEPT ![p] = off[p] + L] /\ op' = op
          /\ \E i \in Ino, n \in Name :
               /\ Has(dir, off[p], i, n) /\ Entry(p).ino = i /\ Pieces(p) = n
               /\ Matches(p) <=> n = Target(p)
      BY <3>2, PassedEntry
    <3>4. Has(dir, off[p], Entry(p).ino, Target(p)) /\ Target(p) = op[p].name
      BY <3>2, <3>3 DEF Target
    <3>5. off'[p] - L = off[p]
      <4>1. off'[p] = off[p] + L /\ off[p] \in Nat /\ L \in Nat
        BY <3>3, Lengths DEF IndInv, TypeOK
      <4> QED BY <4>1
    <3>6. dent'[p].ino = Entry(p).ino
      BY <3>2 DEF IndInv, DentOK
    <3> QED BY <2>1, <3>2, <3>3, <3>4, <3>5, <3>6
  <2>2. CASE p # q
    <3>1. pc'[q] = pc[q] /\ op'[q] = op[q] /\ off'[q] = off[q] /\ dent'[q] = dent[q]
      BY <1>2, <2>2, OthersStay
    <3> DEFINE x == off[q] - L
    <3>2. /\ Has(dir, x, dent[q].ino, op[q].name) /\ x \in Offs(dir)
          /\ dent[q].ino \in Ino /\ op[q].name \in Name
      BY <3>1 DEF Held, IndInv, Knows, Calls
    <3> HIDE DEF x
    <3>3. Has(dir', x, dent[q].ino, op[q].name)
      <4>1. CASE Quiet(p)
        BY <3>2, <4>1, QuietStep
      <4>2. ASSUME pc[p] = "write", NEW i \in Ino, WriteEntry(p, i)
            PROVE  Has(dir', x, dent[q].ino, op[q].name)
        <5>1. x # off[p]
          BY <3>2, <4>2, EntryAdded, OneContent
        <5> QED BY <3>2, <4>2, <5>1, EntryAdded
      <4>3. CASE MakNode(p)
        <5>1. PICK i \in Ino : WriteEntry(p, i)
          BY <4>3 DEF MakNode, Fresh
        <5> QED BY <4>2, <4>3, <5>1 DEF MakNode
      <4>4. CASE LinkWrite(p)
        <5>1. dent[p].ino \in Ino
          BY <4>4 DEF LinkWrite, IndInv, Knows, Placed, Creating, DentOK
        <5> QED BY <4>2, <4>4, <5>1 DEF LinkWrite
      <4>5. CASE LinkCount(p)
        BY <3>2, <4>5 DEF LinkCount
      <4>6. CASE UnLinkWrite(p)
        <5>1. "unlink" \in Kinds[p] /\ "unlink" \in Kinds[q]
          BY <3>1, <4>6 DEF UnLinkWrite, IndInv, Knows
        <5> QED BY <2>2, <5>1 DEF OneRemover
      <4>7. CASE Truncate(p)
        BY <3>2, <4>7 DEF Truncate
      <4> QED BY <1>2, <4>1, <4>3, <4>4, <4>5, <4>6, <4>7 DEF Step, Quiet
    <3> QED BY <3>1, <3>3 DEF x
  <2> QED BY <2>1, <2>2
<1> QED BY <1>1, <1>2 DEF Next

LEMMA InLinks ==
  ASSUME OneLength, NEW d, Shape(d), NEW i
  PROVE  /\ IsFiniteSet(Links(d, i)) /\ Cardinality(Links(d, i)) \in Nat
         /\ \A k : k \in Links(d, i) <=> /\ k \in Int /\ k - 1 \in Offs(d)
                                         /\ \E n \in Name : Has(d, k - 1, i, n)
<1>1. Len(d) \in Nat
  BY DEF Shape, IsFile
<1>2. IsFiniteSet(1 .. Len(d)) /\ Links(d, i) \in SUBSET (1 .. Len(d))
  BY <1>1, FS_Interval DEF Links
<1>3. IsFiniteSet(Links(d, i)) /\ Cardinality(Links(d, i)) \in Nat
  BY <1>2, FS_Subset, FS_CardinalityType
<1>4. \A k : k \in Int /\ k - 1 \in Offs(d) => k \in 1 .. Len(d)
  BY <1>1 DEF Offs
<1> QED BY <1>3, <1>4 DEF Links

\* a new entry for file i is one more link to i
LEMMA LinkAdded ==
  ASSUME OneLength, IndInv, NEW p \in Proc, pc[p] = "write",
         NEW i \in Ino, WriteEntry(p, i), NEW j \in Ino
  PROVE  Cardinality(Links(dir', j)) = Cardinality(Links(dir, j)) + (IF j = i THEN 1 ELSE 0)
<1> DEFINE o == off[p]
<1>1. /\ o \in Nat /\ Target(p) \in Name /\ Shape(dir) /\ Shape(dir')
      /\ Offs(dir') = Offs(dir) \cup {o} /\ Has(dir', o, i, Target(p))
      /\ o \in Offs(dir) => Empty(dir, o)
      /\ \A x \in Offs(dir) \ {o} : \A l, m : Has(dir', x, l, m) <=> Has(dir, x, l, m)
  BY EntryAdded DEF IndInv
<1> HIDE DEF o
<1>2. /\ IsFiniteSet(Links(dir, j)) /\ Cardinality(Links(dir, j)) \in Nat
      /\ \A k : k \in Links(dir, j) <=> /\ k \in Int /\ k - 1 \in Offs(dir)
                                         /\ \E n \in Name : Has(dir, k - 1, j, n)
      /\ \A k : k \in Links(dir', j) <=> /\ k \in Int /\ k - 1 \in Offs(dir')
                                          /\ \E n \in Name : Has(dir', k - 1, j, n)
  BY <1>1, InLinks
<1>3. \A k \in Int : k - 1 # o => (k \in Links(dir', j) <=> k \in Links(dir, j))
  BY <1>1, <1>2
<1>4. o + 1 \in Int /\ (o + 1) - 1 = o /\ \A k \in Int : k - 1 = o => k = o + 1
  BY <1>1
<1>5. o + 1 \notin Links(dir, j)
  BY <1>1, <1>2, <1>4, OneContent
<1>6. o + 1 \in Links(dir', j) <=> j = i
  <2>1. \A m \in Name : Has(dir', o, j, m) => j = i
    BY <1>1, OneContent
  <2> QED BY <1>1, <1>2, <1>4, <2>1
<1>7. CASE j = i
  <2>1. Links(dir', j) = Links(dir, j) \cup {o + 1}
    BY <1>2, <1>3, <1>4, <1>6, <1>7
  <2>2. Cardinality(Links(dir, j) \cup {o + 1}) = Cardinality(Links(dir, j)) + 1
    BY <1>2, <1>5, FS_AddElement
  <2> QED BY <1>7, <2>1, <2>2
<1>8. CASE j # i
  <2>1. Links(dir', j) = Links(dir, j)
    BY <1>2, <1>3, <1>4, <1>5, <1>6, <1>8
  <2> QED BY <1>2, <1>8, <2>1
<1> QED BY <1>7, <1>8

\* and an entry of file i that is cleared one less
LEMMA LinkRemoved ==
  ASSUME OneLength, IndInv, Held, NEW p \in Proc, UnLinkWrite(p), NEW j \in Ino
  PROVE  Cardinality(Links(dir', j))
           = Cardinality(Links(dir, j)) - (IF j = dent[p].ino THEN 1 ELSE 0)
<1> DEFINE o == off[p] - L  i == dent[p].ino
<1>1. /\ o \in Offs(dir) /\ i \in Ino /\ op[p].name \in Name /\ Shape(dir) /\ Shape(dir')
      /\ Offs(dir') = Offs(dir) /\ Empty(dir', o)
      /\ \A x \in Offs(dir) \ {o} : \A l, m : Has(dir', x, l, m) <=> Has(dir, x, l, m)
  BY EntryRemoved DEF IndInv
<1>0. Has(dir, o, i, op[p].name)
  BY DEF Held, UnLinkWrite
<1>9. o \in Int
  BY <1>1 DEF Offs
<1> HIDE DEF o, i
<1>2. /\ IsFiniteSet(Links(dir, j)) /\ Cardinality(Links(dir, j)) \in Nat
      /\ \A k : k \in Links(dir, j) <=> /\ k \in Int /\ k - 1 \in Offs(dir)
                                         /\ \E n \in Name : Has(dir, k - 1, j, n)
      /\ \A k : k \in Links(dir', j) <=> /\ k \in Int /\ k - 1 \in Offs(dir')
                                          /\ \E n \in Name : Has(dir', k - 1, j, n)
  BY <1>1, InLinks
<1>3. \A k \in Int : k - 1 # o => (k \in Links(dir', j) <=> k \in Links(dir, j))
  BY <1>1, <1>2
<1>4. o + 1 \in Int /\ (o + 1) - 1 = o /\ \A k \in Int : k - 1 = o => k = o + 1
  BY <1>9
<1>5. o + 1 \notin Links(dir', j)
  BY <1>1, <1>2, <1>4, OneContent
<1>6. o + 1 \in Links(dir, j) <=> j = i
  <2>1. \A m \in Name : Has(dir, o, j, m) => j = i
    BY <1>0, <1>1, OneContent
  <2> QED BY <1>0, <1>1, <1>2, <1>4, <2>1
<1>7. CASE j = i
  <2>1. Links(dir', j) = Links(dir, j) \ {o + 1}
    BY <1>2, <1>3, <1>4, <1>5, <1>7
  <2>2. Cardinality(Links(dir, j) \ {o + 1}) = Cardinality(Links(dir, j)) - 1
    BY <1>2, <1>6, <1>7, FS_RemoveElement
  <2> QED BY <1>7, <2>1, <2>2 DEF i
<1>8. CASE j # i
  <2>1. Links(dir', j) = Links(dir, j)
    BY <1>2, <1>3, <1>4, <1>5, <1>6, <1>8
  <2> QED BY <1>2, <1>8, <2>1 DEF i
<1> QED BY <1>7, <1>8

\* a step makes at most its own process one of those whose link is not counted
LEMMA LinkingStep ==
  ASSUME IndInv, NEW p \in Proc, Step(p) \/ \E c \in Calls : Call(p, c), NEW i
  PROVE  /\ Linking(i)' \ {p} = Linking(i) \ {p}
         /\ p \in Linking(i) <=> pc[p] = "linked" /\ dent[p].ino = i
         /\ p \in Linking(i)' <=> pc'[p] = "linked" /\ dent'[p].ino = i
         /\ IsFiniteSet(Linking(i)) /\ Cardinality(Linking(i)) \in Nat
<1>1. Linking(i)' \ {p} = Linking(i) \ {p}
  BY OthersStay DEF Linking
<1>2. IsFiniteSet(Linking(i)) /\ Cardinality(Linking(i)) \in Nat
  BY DirectoryAssumption, FS_Subset, FS_CardinalityType DEF Linking
<1> QED BY <1>1, <1>2 DEF Linking

LEMMA CountedInd ==
  ASSUME OneLength, IndInv, Held, Counted, [Next]_vars PROVE Counted'
<1> SUFFICES ASSUME NEW i \in Ino, i \notin reset'
             PROVE  nlink'[i] + Cardinality(Linking(i)') = Cardinality(Links(dir', i))
  BY DEF Counted
<1>0. /\ i \notin reset =>
           nlink[i] + Cardinality(Linking(i)) = Cardinality(Links(dir, i))
      /\ nlink \in [Ino -> Int] /\ Cardinality(Links(dir, i)) \in Nat
  BY InLinks DEF Counted, IndInv, TypeOK
<1>1. CASE UNCHANGED vars
  BY <1>0, <1>1 DEF vars, Linking
<1>2. ASSUME NEW p \in Proc, Step(p) \/ \E c \in Calls : Call(p, c)
      PROVE  nlink'[i] + Cardinality(Linking(i)') = Cardinality(Links(dir', i))
  <2>0. /\ Linking(i)' \ {p} = Linking(i) \ {p}
        /\ p \in Linking(i) <=> pc[p] = "linked" /\ dent[p].ino = i
        /\ p \in Linking(i)' <=> pc'[p] = "linked" /\ dent'[p].ino = i
        /\ IsFiniteSet(Linking(i)) /\ Cardinality(Linking(i)) \in Nat
    BY <1>2, LinkingStep
  <2>1. CASE Quiet(p)
    <3>1. /\ dir' = dir /\ nlink' = nlink /\ reset' = reset
          /\ pc[p] # "linked" /\ pc'[p] # "linked"
      BY <2>1, QuietStep
    <3>2. Linking(i)' = Linking(i)
      BY <2>0, <3>1
    <3> QED BY <1>0, <3>1, <3>2
  <2>2. CASE MakNode(p)
    <3>1. PICK j \in Fresh :
            /\ WriteEntry(p, j) /\ nlink' = [nlink EXCEPT ![j] = 1]
            /\ reset' = IF \E k \in DOMAIN dir : EntryOf(k, j) THEN reset ELSE reset \ {j}
      BY <2>2 DEF MakNode
    <3>2. j \in Ino /\ nlink[j] <= 0 /\ \A q \in Proc : dent[q].ino # j
      BY DEF Fresh
    <3>3. pc[p] = "write" /\ pc'[p] = "user"
      BY <2>2 DEF MakNode, Return, Goto, IndInv, TypeOK
    <3>4. Linking(i)' = Linking(i)
      BY <2>0, <3>3
    <3>5. Cardinality(Links(dir', i))
            = Cardinality(Links(dir, i)) + (IF i = j THEN 1 ELSE 0)
      BY <3>1, <3>2, <3>3, LinkAdded
    <3>6. CASE i # j
      <4>1. nlink'[i] = nlink[i] /\ i \notin reset
        BY <1>0, <3>1, <3>2, <3>6
      <4> QED BY <1>0, <3>4, <3>5, <3>6, <4>1
    <3>7. CASE i = j
      <4>1. nlink'[i] = 1
        BY <1>0, <3>1, <3>7
      <4>2. Linking(i) = {} /\ Cardinality(Linking(i)) = 0
        <5>1. Linking(i) = {}
          BY <3>2, <3>7 DEF Linking
        <5> QED BY <5>1, FS_EmptySet
      <4>3. Cardinality(Links(dir, i)) = 0
        <5>1. CASE i \in reset
          <6>1. \A k \in DOMAIN dir : ~ EntryOf(k, i)
            BY <3>1, <3>7, <5>1
          <6>2. Links(dir, i) = {}
            <7>1. DOMAIN dir = 1 .. Len(dir)
              BY DEF IndInv, Shape, IsFile
            <7>2. ASSUME NEW k \in Links(dir, i) PROVE FALSE
              <8>1. k - 1 \in Offs(dir) /\ k \in 1 .. Len(dir)
                    /\ \E n \in Name : Has(dir, k - 1, i, n)
                BY <7>2 DEF Links
              <8>2. (k - 1) + 1 = k
                BY <7>1, <8>1
              <8>3. \E n \in Name : dir[k] = Ent(i, n[1], L - 1)
                BY <8>1, <8>2 DEF Has
              <8> QED BY <6>1, <7>1, <8>1, <8>3, SlotFacts DEF EntryOf
            <7> QED BY <7>2
          <6> QED BY <6>2, FS_EmptySet
        <5>2. CASE i \notin reset
          BY <1>0, <3>2, <3>7, <4>2, <5>2
        <5> QED BY <5>1, <5>2
      <4> QED BY <3>4, <3>5, <3>7, <4>1, <4>2, <4>3
    <3> QED BY <3>6, <3>7
  <2>3. CASE LinkWrite(p)
    <3>1. /\ pc[p] = "write" /\ WriteEntry(p, dent[p].ino) /\ nlink' = nlink
          /\ pc'[p] = "linked" /\ dent' = dent /\ reset' = reset
      BY <2>3 DEF LinkWrite, Goto, IndInv, TypeOK
    <3>2. dent[p].ino \in Ino
      BY <2>3 DEF LinkWrite, IndInv, Knows, Placed, Creating, DentOK
    <3>3. Cardinality(Links(dir', i))
            = Cardinality(Links(dir, i)) + (IF i = dent[p].ino THEN 1 ELSE 0)
      BY <3>1, <3>2, LinkAdded
    <3>4. Cardinality(Linking(i)')
            = Cardinality(Linking(i)) + (IF i = dent[p].ino THEN 1 ELSE 0)
      <4>1. CASE i = dent[p].ino
        <5>1. Linking(i)' = Linking(i) \cup {p} /\ p \notin Linking(i)
          BY <2>0, <3>1, <4>1
        <5>2. Cardinality(Linking(i) \cup {p}) = Cardinality(Linking(i)) + 1
          BY <2>0, <5>1, FS_AddElement
        <5> QED BY <4>1, <5>1, <5>2
      <4>2. CASE i # dent[p].ino
        <5>1. Linking(i)' = Linking(i)
          BY <2>0, <3>1, <4>2
        <5> QED BY <2>0, <4>2, <5>1
      <4> QED BY <4>1, <4>2
    <3> QED BY <1>0, <2>0, <3>1, <3>3, <3>4
  <2>4. CASE LinkCount(p)
    <3>1. /\ pc[p] = "linked" /\ pc'[p] = "user" /\ dir' = dir /\ reset' = reset
          /\ nlink' = [nlink EXCEPT ![dent[p].ino] = @ + 1]
      BY <2>4 DEF LinkCount, Return, Goto, IndInv, TypeOK
    <3>2. dent[p].ino \in Ino
      BY <3>1 DEF IndInv, Knows
    <3>3. Cardinality(Linking(i)')
            = Cardinality(Linking(i)) - (IF i = dent[p].ino THEN 1 ELSE 0)
      <4>1. CASE i = dent[p].ino
        <5>1. Linking(i)' = Linking(i) \ {p} /\ p \in Linking(i)
          BY <2>0, <3>1, <4>1
        <5>2. Cardinality(Linking(i) \ {p}) = Cardinality(Linking(i)) - 1
          BY <2>0, <5>1, FS_RemoveElement
        <5> QED BY <4>1, <5>1, <5>2
      <4>2. CASE i # dent[p].ino
        <5>1. Linking(i)' = Linking(i)
          BY <2>0, <3>1, <4>2
        <5> QED BY <2>0, <4>2, <5>1
      <4> QED BY <4>1, <4>2
    <3>4. nlink'[i] = nlink[i] + (IF i = dent[p].ino THEN 1 ELSE 0)
      BY <1>0, <3>1, <3>2
    <3> QED BY <1>0, <2>0, <3>1, <3>3, <3>4
  <2>5. CASE UnLinkWrite(p)
    <3>1. /\ pc[p] = "unlink" /\ pc'[p] = "user" /\ reset' = reset
          /\ nlink' = [nlink EXCEPT ![dent[p].ino] = @ - 1]
      BY <2>5 DEF UnLinkWrite, Return, Goto, IndInv, TypeOK
    <3>2. dent[p].ino \in Ino
      BY <3>1 DEF IndInv, Knows
    <3>3. Linking(i)' = Linking(i)
      BY <2>0, <3>1
    <3>4. Cardinality(Links(dir', i))
            = Cardinality(Links(dir, i)) - (IF i = dent[p].ino THEN 1 ELSE 0)
      BY <2>5, LinkRemoved
    <3>5. nlink'[i] = nlink[i] - (IF i = dent[p].ino THEN 1 ELSE 0)
      BY <1>0, <3>1, <3>2
    <3> QED BY <1>0, <2>0, <3>1, <3>3, <3>4, <3>5
  <2>6. CASE Truncate(p)
    <3>1. /\ pc[p] = "trunc" /\ pc'[p] = "user" /\ dir' = dir
          /\ nlink' = [nlink EXCEPT ![dent[p].ino] = 1]
          /\ reset' = IF nlink[dent[p].ino] = 1 THEN reset ELSE reset \cup {dent[p].ino}
      BY <2>6 DEF Truncate, Return, Goto, IndInv, TypeOK
    <3>2. Linking(i)' = Linking(i)
      BY <2>0, <3>1
    <3>3. nlink'[i] = nlink[i] /\ i \notin reset
      <4>1. CASE i = dent[p].ino
        BY <1>0, <3>1, <4>1
      <4>2. CASE i # dent[p].ino
        BY <1>0, <3>1, <4>2
      <4> QED BY <4>1, <4>2
    <3> QED BY <1>0, <3>1, <3>2, <3>3
  <2> QED BY <1>2, <2>1, <2>2, <2>3, <2>4, <2>5, <2>6 DEF Step, Quiet
<1> QED BY <1>1, <1>2 DEF Next

\* From the start on, unlink clears the entry it found and counts are right.
THEOREM MapInvariance == OneLength /\ OneRemover => (Spec => []MapInv)
<1> SUFFICES ASSUME OneLength, OneRemover PROVE Spec => []MapInv
  OBVIOUS
<1>1. Init => MapInv
  BY HeldInit
<1>2. MapInv /\ [Next]_vars => MapInv'
  BY NextInd, HeldInd, CountedInd DEF MapInv
<1> QED BY <1>1, <1>2, PTL DEF Spec

\* The link count of a file is the number of its names, apart from links about
\* to be counted, although Link and UnLink write entry and count without locks;
\* except for files whose count the ITrunc of a creat set to 1 while it was
\* another number.
THEOREM LinkCountsAreNames == OneLength /\ OneRemover => (Spec => []LinkCounts)
<1> SUFFICES ASSUME OneLength, OneRemover PROVE Spec => []LinkCounts
  OBVIOUS
<1>1. MapInv => LinkCounts
  <2> SUFFICES ASSUME MapInv, NEW i \in Ino \ reset
               PROVE  Links(dir, i) = {k \in DOMAIN dir :
                                         \E n \in Name : IsEntry(k, n) /\ dir[k].ino = i}
    BY DEF MapInv, Counted, LinkCounts, CountsNames, Linking
  <2>1. Shape(dir) /\ DOMAIN dir = 1 .. Len(dir)
    BY DEF MapInv, IndInv, Shape, IsFile
  <2>2. \A k, n : IsEntry(k, n) <=> EntryAt(dir, k, n)
    BY DEF IsEntry, EntryAt
  <2>3. ASSUME NEW k \in DOMAIN dir, NEW n \in Name
        PROVE  (IsEntry(k, n) /\ dir[k].ino = i) <=> (k - 1 \in Offs(dir) /\ Has(dir, k - 1, i, n))
    BY <2>1, <2>2, EntryIff
  <2> QED BY <2>1, <2>3 DEF Links
<1> QED BY <1>1, MapInvariance, PTL

----------------------------------------------------------------------------
(* The directory implements a map *)

\* InoOf, and the map from names to files, for a file d
InoIn(d, n) == LET At == {k \in DOMAIN d : EntryAt(d, k, n)}
               IN  IF At = {} THEN 0 ELSE d[CHOOSE k \in At : TRUE].ino
Names(d) == [n \in Name |-> InoIn(d, n)]

LEMMA NamesAre ==
  /\ [n \in Name |-> InoOf(n)] = Names(dir)
  /\ [n \in Name |-> InoOf(n)]' = Names(dir')
BY DEF Names, InoOf, InoIn, IsEntry, EntryAt

\* the map holds what the entries say
LEMMA NameOf ==
  ASSUME OneLength, NEW d, Shape(d), Unique(d), NEW n \in Name
  PROVE  /\ \A o \in Offs(d), i \in Ino : Has(d, o, i, n) => Names(d)[n] = i
         /\ (\A o \in Offs(d), i \in Ino : ~ Has(d, o, i, n)) => Names(d)[n] = 0
<1> DEFINE At == {k \in DOMAIN d : EntryAt(d, k, n)}
<1>0. Names(d)[n] = IF At = {} THEN 0 ELSE d[CHOOSE k \in At : TRUE].ino
  BY DEF Names, InoIn
<1>1. \A k \in At : k - 1 \in Offs(d) /\ d[k].ino \in Ino /\ Has(d, k - 1, d[k].ino, n)
  BY EntryIff
<1>2. ASSUME NEW o \in Offs(d), NEW i \in Ino, Has(d, o, i, n) PROVE Names(d)[n] = i
  <2>1. o + 1 \in DOMAIN d /\ (o + 1) - 1 = o
    <3>1. o \in Nat /\ o < Len(d) /\ Len(d) \in Nat /\ DOMAIN d = 1 .. Len(d)
      BY OffsFacts DEF Shape, IsFile
    <3> QED BY <3>1
  <2>2. o + 1 \in At
    BY <1>2, <2>1, EntryIff
  <2>3. PICK k \in At : k = CHOOSE x \in At : TRUE
    BY <2>2
  <2>4. d[k].ino \in Ino /\ Has(d, k - 1, d[k].ino, n) /\ k - 1 \in Offs(d)
    BY <1>1, <2>3
  <2>5. k - 1 = o
    BY <1>2, <2>4 DEF Unique
  <2>6. d[k].ino = i
    BY <1>2, <2>4, <2>5, OneContent
  <2> QED BY <1>0, <2>2, <2>3, <2>6
<1>3. ASSUME \A o \in Offs(d), i \in Ino : ~ Has(d, o, i, n) PROVE Names(d)[n] = 0
  <2>1. At = {}
    BY <1>1, <1>3
  <2> QED BY <1>0, <2>1
<1> QED BY <1>2, <1>3

\* two files with the same entries for a name map it to the same file
LEMMA SameName ==
  ASSUME OneLength, NEW d, Shape(d), Unique(d), NEW e, Shape(e), Unique(e), NEW n \in Name,
         \A o \in Offs(d), i \in Ino : Has(d, o, i, n) => o \in Offs(e) /\ Has(e, o, i, n),
         \A o \in Offs(e), i \in Ino : Has(e, o, i, n) => o \in Offs(d) /\ Has(d, o, i, n)
  PROVE  Names(e)[n] = Names(d)[n]
<1>1. CASE \E o \in Offs(d), i \in Ino : Has(d, o, i, n)
  BY <1>1, NameOf
<1>2. CASE \A o \in Offs(d), i \in Ino : ~ Has(d, o, i, n)
  <2>1. \A o \in Offs(e), i \in Ino : ~ Has(e, o, i, n)
    BY <1>2
  <2> QED BY <1>2, <2>1, NameOf
<1> QED BY <1>1, <1>2

LEMMA InitMap == ASSUME Init PROVE Names(dir) = [n \in Name |-> 0]
<1>1. DOMAIN dir = {}
  BY DEF Init
<1> QED BY <1>1 DEF Names, InoIn

\* WriteDir enters the new name, which was not there
LEMMA EnterMap ==
  ASSUME OneLength, IndInv, NEW p \in Proc, pc[p] = "write", NEW i \in Ino, WriteEntry(p, i)
  PROVE  /\ Names(dir)[Target(p)] = 0
         /\ Names(dir') = [Names(dir) EXCEPT ![Target(p)] = i]
<1> DEFINE o == off[p]  n == Target(p)
<1>1. /\ o \in Nat /\ n \in Name /\ Shape(dir) /\ Unique(dir) /\ Shape(dir') /\ Unique(dir')
      /\ Offs(dir') = Offs(dir) \cup {o} /\ Has(dir', o, i, n)
      /\ o \in Offs(dir) => Empty(dir, o)
      /\ Absent(dir, Len(dir), n)
      /\ \A x \in Offs(dir) \ {o} : \A l, m : Has(dir', x, l, m) <=> Has(dir, x, l, m)
  BY EntryAdded DEF IndInv
<1> HIDE DEF o, n
<1>2. Names(dir)[n] = 0
  <2>1. \A x \in Offs(dir), j \in Ino : ~ Has(dir, x, j, n)
    BY <1>1, OffsFacts DEF Absent
  <2> QED BY <1>1, <2>1, NameOf
<1>3. Names(dir')[n] = i
  <2>1. o \in Offs(dir')
    BY <1>1
  <2> QED BY <1>1, <2>1, NameOf
<1>4. ASSUME NEW m \in Name, m # n PROVE Names(dir')[m] = Names(dir)[m]
  <2>1. \A j \in Ino : ~ Has(dir', o, j, m)
    BY <1>1, <1>4, OneContent
  <2>2. ASSUME o \in Offs(dir), NEW j \in Ino PROVE ~ Has(dir, o, j, m)
    BY <1>1, <2>2, OneContent
  <2>3. \A x \in Offs(dir), j \in Ino : Has(dir, x, j, m) => x \in Offs(dir') /\ Has(dir', x, j, m)
    BY <1>1, <2>2
  <2>4. \A x \in Offs(dir'), j \in Ino : Has(dir', x, j, m) => x \in Offs(dir) /\ Has(dir, x, j, m)
    BY <1>1, <2>1
  <2> QED BY <1>1, <2>3, <2>4, SameName
<1>5. Names(dir') = [Names(dir) EXCEPT ![n] = i]
  BY <1>3, <1>4 DEF Names
<1> QED BY <1>2, <1>5 DEF n

\* UnLink removes the name it looked for
LEMMA RemoveMap ==
  ASSUME OneLength, IndInv, Held, NEW p \in Proc, UnLinkWrite(p)
  PROVE  /\ op[p].name \in Name /\ Names(dir)[op[p].name] \in Ino
         /\ Names(dir') = [Names(dir) EXCEPT ![op[p].name] = 0]
<1> DEFINE o == off[p] - L  n == op[p].name  i == dent[p].ino
<1>1. /\ o \in Offs(dir) /\ i \in Ino /\ n \in Name
      /\ Shape(dir) /\ Unique(dir) /\ Shape(dir') /\ Unique(dir')
      /\ Offs(dir') = Offs(dir) /\ Empty(dir', o)
      /\ \A x \in Offs(dir) \ {o} : \A l, m : Has(dir', x, l, m) <=> Has(dir, x, l, m)
  BY EntryRemoved DEF IndInv
<1>2. Has(dir, o, i, n)
  BY DEF Held, UnLinkWrite
<1> HIDE DEF o, n, i
<1>3. Names(dir)[n] \in Ino
  BY <1>1, <1>2, NameOf
<1>4. \A j \in Ino, m \in Name : ~ Has(dir', o, j, m)
  BY <1>1, OneContent
<1>5. Names(dir')[n] = 0
  <2>1. \A x \in Offs(dir'), j \in Ino : ~ Has(dir', x, j, n)
    BY <1>1, <1>2, <1>4 DEF Unique
  <2> QED BY <1>1, <2>1, NameOf
<1>6. ASSUME NEW m \in Name, m # n PROVE Names(dir')[m] = Names(dir)[m]
  <2>1. \A j \in Ino : ~ Has(dir, o, j, m)
    BY <1>1, <1>2, <1>6, OneContent
  <2>2. \A x \in Offs(dir), j \in Ino : Has(dir, x, j, m) => x \in Offs(dir') /\ Has(dir', x, j, m)
    BY <1>1, <2>1
  <2>3. \A x \in Offs(dir'), j \in Ino : Has(dir', x, j, m) => x \in Offs(dir) /\ Has(dir, x, j, m)
    BY <1>1, <1>4
  <2> QED BY <1>1, <2>2, <2>3, SameName
<1>7. Names(dir') = [Names(dir) EXCEPT ![n] = 0]
  BY <1>5, <1>6 DEF Names
<1> QED BY <1>1, <1>3, <1>7 DEF n

\* a search that ends finds the name, or that there is none
LEMMA SearchMap ==
  ASSUME OneLength, IndInv, NEW p \in Proc, Found(p) \/ NotFound(p) \/ FoundPlace(p)
  PROVE  /\ Target(p) \in Name \cap {op[p].name, op[p].new}
         /\ res' = Names(dir)[Target(p)]
<1>0. Shape(dir) /\ Unique(dir) /\ Target(p) \in {op[p].name, op[p].new}
  BY DEF IndInv, Target
<1>1. CASE Found(p)
  <2>1. Scanning(p) /\ Entry(p).ino # 0 /\ Matches(p) /\ res' = Entry(p).ino /\ pc[p] = "scan"
    BY <1>1 DEF Found, Scanning
  <2>2. off[p] \in Offs(dir) /\ \E i \in Ino, n \in Name :
          /\ Has(dir, off[p], i, n) /\ Entry(p).ino = i
          /\ Matches(p) <=> n = Target(p)
    BY <2>1, EntryRead
  <2> QED BY <1>0, <2>1, <2>2, NameOf
<1>2. CASE NotFound(p) \/ FoundPlace(p)
  <2>1. Ended(p) /\ res' = 0 /\ pc[p] = "scan"
    BY <1>2 DEF NotFound, FoundPlace, Ended
  <2>2. Absent(dir, Len(dir), Target(p)) /\ Target(p) \in Name
    BY <2>1, SearchEnded, SearchTarget
  <2>3. \A x \in Offs(dir), j \in Ino : ~ Has(dir, x, j, Target(p))
    BY <1>0, <2>2, OffsFacts DEF Absent
  <2> QED BY <1>0, <2>1, <2>2, <2>3, NameOf
<1> QED BY <1>1, <1>2

LEMMA NextMap ==
  ASSUME OneLength, IndInv, Held, [Next]_vars PROVE [Map!Next]_(Map!vars)
<1> USE NamesAre
<1>1. CASE UNCHANGED vars
  BY <1>1 DEF vars, Map!vars
<1>2. ASSUME NEW p \in Proc, NEW c \in Calls, Call(p, c) PROVE Map!Call(p)
  BY <1>2 DEF Call, StartSearch, Map!Call
<1>3. ASSUME NEW p \in Proc, Found(p) \/ NotFound(p) \/ FoundPlace(p) PROVE Map!Search(p)
  <2>1. dir' = dir /\ (op' = op \/ op' = [op EXCEPT ![p] = NoCall])
    BY <1>3 DEF Found, NotFound, FoundPlace, PassEntry, Return
  <2>2. Target(p) \in Name \cap {op[p].name, op[p].new} /\ res' = Names(dir)[Target(p)]
    BY <1>3, SearchMap
  <2> QED BY <2>1, <2>2 DEF Map!Search, Map!MayReturn
<1>4. ASSUME NEW p \in Proc, FreeEntry(p) \/ OtherEntry(p) \/ LinkAgain(p) \/ MakNodeFails(p)
                             \/ LinkCount(p) \/ Truncate(p) \/ LeaveFile(p)
      PROVE  Map!Other
  <2>1. dir' = dir /\ res' = NoRes /\ (op' = op \/ op' = [op EXCEPT ![p] = NoCall])
    BY <1>4 DEF FreeEntry, OtherEntry, PassEntry, LinkAgain, MakNodeFails, LinkCount, Truncate,
      LeaveFile, Return
  <2> QED BY <2>1 DEF Map!Other, Map!MayReturn
<1>5. ASSUME NEW p \in Proc, MakNode(p) PROVE Map!Enter(p)
  <2>1. PICK i \in Ino : WriteEntry(p, i)
    BY <1>5 DEF MakNode, Fresh
  <2>2. pc[p] = "write" /\ op[p].kind = "creat" /\ res' = NoRes
        /\ op' = [op EXCEPT ![p] = NoCall]
    BY <1>5 DEF MakNode, Return
  <2>3. Target(p) = op[p].name /\ Target(p) \in Name
    BY <2>2, SearchTarget DEF Target
  <2>4. Names(dir)[Target(p)] = 0 /\ Names(dir') = [Names(dir) EXCEPT ![Target(p)] = i]
    BY <2>1, <2>2, EnterMap
  <2> QED BY <2>2, <2>3, <2>4 DEF Map!Enter, Map!Entered, Map!MayReturn
<1>6. ASSUME NEW p \in Proc, LinkWrite(p) PROVE Map!Enter(p)
  <2>1. pc[p] = "write" /\ op[p].kind = "link" /\ res' = NoRes /\ op' = op
        /\ WriteEntry(p, dent[p].ino)
    BY <1>6 DEF LinkWrite
  <2>2. dent[p].ino \in Ino /\ Target(p) = op[p].new
    BY <2>1 DEF IndInv, Knows, Placed, Creating, DentOK, Target
  <2>4. Names(dir)[Target(p)] = 0 /\ Names(dir') = [Names(dir) EXCEPT ![Target(p)] = dent[p].ino]
    BY <2>1, <2>2, EnterMap
  <2> QED BY <2>1, <2>2, <2>4 DEF Map!Enter, Map!Entered, Map!MayReturn
<1>7. ASSUME NEW p \in Proc, UnLinkWrite(p) PROVE Map!Remove(p)
  <2>1. op[p].kind = "unlink" /\ res' = NoRes /\ op' = [op EXCEPT ![p] = NoCall]
    BY <1>7 DEF UnLinkWrite, Return, IndInv, Knows
  <2>2. /\ Names(dir)[op[p].name] \in Ino
        /\ Names(dir') = [Names(dir) EXCEPT ![op[p].name] = 0]
    BY <1>7, RemoveMap
  <2>3. 0 \notin Ino
    BY DirectoryAssumption
  <2> QED BY <2>1, <2>2, <2>3 DEF Map!Remove, Map!MayReturn
<1> QED BY <1>1, <1>2, <1>3, <1>4, <1>5, <1>6, <1>7 DEF Next, Step, Map!Next

\* The array of entries, with its searches slot by slot and the free entries
\* that a search passes over, implements a map from names to files: a search
\* finds what the map holds and a call changes its own name only.
THEOREM DirectoryIsMap == OneLength /\ OneRemover => (Spec => IsMap)
<1> SUFFICES ASSUME OneLength, OneRemover PROVE Spec => IsMap
  OBVIOUS
<1>1. Init => Map!Init
  <2>1. Init => op = [p \in Proc |-> NoCall] /\ res = NoRes
    BY DEF Init
  <2> QED BY <2>1, InitMap, NamesAre DEF Map!Init
<1>2. MapInv /\ [Next]_vars => [Map!Next]_(Map!vars)
  BY NextMap DEF MapInv
<1> QED BY <1>1, <1>2, MapInvariance, PTL DEF Spec, IsMap, Map!Spec
=============================================================================
