-------------------------- MODULE InodeAllocProofs --------------------------
(***************************************************************************)
(* The safety properties of InodeAlloc, proved for every set of processes, *)
(* every size of the disk, of the list and of the inode table, and any     *)
(* number of crashes.                                                      *)
(***************************************************************************)
EXTENDS InodeAlloc, FiniteSetTheorems, WellFoundedInduction, TLAPS

----------------------------------------------------------------------------
(* The inductive invariant *)

\* where a process has a reference to its inode; where it reads the inode; and
\* where it has the inode locked and for itself
ReadPCs  == {"iread", "oread"}
AlonePCs == ReadPCs \cup {"made", "itrunc", "iupdate"}
RefPCs   == AlonePCs \cup {"open", "unlink"}

Ref(p, i)  == pc[p] \in RefPCs /\ ino[p] = i
Refs(i)    == {p \in Proc : Ref(p, i)}

\* the inode is in memory and has been read
Valid(i) == IsLoaded(i) /\ \A p \in Proc : ~ (pc[p] \in ReadPCs /\ ino[p] = i)

Root == [mode |-> TRUE, nlink |-> 1, count |-> 1, lock |-> FALSE, upd |-> FALSE]

\* TypeOK without the bound of i_count, which Counted gives
Node == [mode : BOOLEAN, nlink : Int, count : Nat, lock : BOOLEAN, upd : BOOLEAN]
Types ==
  /\ s_inode \in [Entry -> Ino] /\ s_ninode \in 0 .. MaxFree
  /\ s_ilock \in BOOLEAN /\ s_fmod \in BOOLEAN /\ updlock \in BOOLEAN
  /\ saved \in [ninode : 0 .. MaxFree, inode : [Entry -> Ino], fmod : BOOLEAN]
  /\ core \in [Ino -> Node] /\ disk \in [Ino -> DiskNode]
  /\ named \subseteq File /\ late \subseteq File
  /\ pc \in [Proc -> PCs] /\ ino \in [Proc -> Ino]
  /\ op \in [Proc -> {"alloc", "open", "unlink"}]
  /\ blk \in 0 .. Blocks - 1
  /\ files \in [Ino -> Nat] /\ crashes \in 0 .. MaxCrash

\* The root's inode stays as it is.
RootIs ==
  /\ core[0] = Root /\ disk[0].mode
  /\ \A p \in Proc : pc[p] \in RefPCs => ino[p] # 0

\* i_count is the number of references; some of them are the only ones
Counted == \A i \in File : core[i].count = Cardinality(Refs(i))
Alone   == \A p \in Proc : pc[p] \in AlonePCs => core[ino[p]].count = 1 /\ core[ino[p]].lock
Free    == \A i \in Ino : core[i].count = 0 => ~ core[i].lock

\* The mode of an inode, in memory or else on the disk, tells whether a file
\* has it; what has not changed is the same in memory and on the disk.
Mode(i)  == IF Valid(i) THEN core[i].mode ELSE disk[i].mode
Links(i) == IF Valid(i) THEN core[i].nlink ELSE disk[i].nlink

Modes ==
  /\ \A i \in Ino : files[i] = IF Mode(i) THEN 1 ELSE 0
  /\ \A i \in Ino : Valid(i) /\ ~ core[i].upd =>
       (core[i].mode <=> disk[i].mode) /\ core[i].nlink = disk[i].nlink
  /\ \A p \in Proc : pc[p] \in {"made", "open", "unlink", "itrunc"} => core[ino[p]].mode
  /\ \A p \in Proc : pc[p] = "oread" => disk[ino[p]].mode

\* A name keeps a link.
Names ==
  /\ \A i \in named : Mode(i) /\ Links(i) > 0
  /\ \A p \in Proc : pc[p] = "made" => core[ino[p]].nlink > 0
  /\ \A p \in Proc : pc[p] = "itrunc" => core[ino[p]].nlink <= 0

\* one search of the disk at a time, with the list locked
Scanner ==
  /\ \A p, q \in Proc : pc[p] = "scan" /\ pc[q] = "scan" => p = q
  /\ s_ilock <=> \E p \in Proc : pc[p] = "scan"
  /\ \A p \in Proc : pc[p] = "ilockSleep" => s_ilock

Listed(i) == \E k \in 0 .. s_ninode - 1 : s_inode[k] = i

\* where a process has the inode of an open file
FilePCs == {"oread", "open", "unlink", "itrunc", "iupdate"}

\* until the first crash
Sound ==
  /\ \A p \in Proc : pc[p] # "wild"
  /\ \A p \in Proc : pc[p] = "iread" => ~ Listed(ino[p]) /\ ~ disk[ino[p]].mode
  /\ \A p \in Proc : pc[p] \in FilePCs => op[p] # "alloc"
  /\ \A k \in 0 .. s_ninode - 1 : files[s_inode[k]] = 0
  /\ \A k, m \in 0 .. s_ninode - 1 : s_inode[k] = s_inode[m] => k = m
  /\ \A k \in 0 .. s_ninode - 1 : s_ilock => s_inode[k] \div PerBlock < blk

BaseInv == Types /\ RootIs /\ Counted /\ Alone /\ Free /\ Scanner
FileInv == Modes /\ Names /\ (crashes = 0 => Sound)
IndInv  == BaseInv /\ FileInv

\* The search puts on the list what it finds, or somebody has taken it.
Searched ==
  s_ilock => \A i \in Ino : i \div PerBlock < blk /\ ~ disk[i].mode /\ ~ IsLoaded(i) /\ i \notin late
               => Listed(i)

\* the inode table has an entry for every process
TableHasRoom == Cardinality(Proc) <= NINODE

----------------------------------------------------------------------------
(* References *)

\* every inode is in a block
LEMMA BlocksIs ==
  /\ Blocks \in Nat \ {0}
  /\ \A i \in Ino : i \div PerBlock \in 0 .. Blocks - 1
<1>1. NIno \in Nat \ {0} /\ PerBlock \in Nat \ {0}
  BY ConstantsAssumption
<1>2. \A a \in Nat, P \in Nat \ {0} : (a + P) \div P = (a \div P) + 1 /\ a \div P \in Nat
  OBVIOUS
<1>3. \A a, b \in Nat, P \in Nat \ {0} : a <= b => (a \div P) <= (b \div P)
  OBVIOUS
<1>4. NIno - 1 \in Nat /\ NIno + PerBlock - 1 = (NIno - 1) + PerBlock
  BY <1>1
<1>5. Blocks = ((NIno - 1) \div PerBlock) + 1 /\ (NIno - 1) \div PerBlock \in Nat
  BY <1>1, <1>2, <1>4 DEF Blocks
<1>6. ASSUME NEW i \in Ino PROVE i \div PerBlock \in 0 .. Blocks - 1
  <2>1. i \in Nat /\ i <= NIno - 1
    BY <1>1 DEF Ino
  <2>2. i \div PerBlock \in Nat /\ (i \div PerBlock) <= ((NIno - 1) \div PerBlock)
    BY <2>1, <1>1, <1>2, <1>3, <1>4
  <2> QED BY <2>2, <1>5
<1> QED BY <1>5, <1>6

\* the sets of processes are finite
LEMMA ProcsFinite ==
  ASSUME NEW S \in SUBSET Proc
  PROVE  IsFiniteSet(S) /\ Cardinality(S) \in Nat
<1>1. IsFiniteSet(S)
  BY ConstantsAssumption, FS_Subset
<1> QED BY <1>1, FS_CardinalityType

LEMMA RefIsCounted ==
  ASSUME Types, Counted, NEW i \in File, NEW p \in Proc, Ref(p, i)
  PROVE  core[i].count >= 1 /\ core[i].count \in Nat
<1>1. Refs(i) \in SUBSET Proc /\ p \in Refs(i)
  BY DEF Refs
<1>2. IsFiniteSet(Refs(i)) /\ Cardinality(Refs(i)) \in Nat
  BY <1>1, ProcsFinite
<1>3. Cardinality(Refs(i)) # 0
  BY <1>1, <1>2, FS_EmptySet
<1> QED BY <1>2, <1>3 DEF Counted

\* The only reference is the only one.
LEMMA SoleRef ==
  ASSUME Types, Counted, NEW i \in File, core[i].count = 1,
         NEW p \in Proc, NEW q \in Proc, Ref(p, i), Ref(q, i)
  PROVE  p = q
<1>1. Refs(i) \in SUBSET Proc /\ p \in Refs(i) /\ q \in Refs(i)
  BY DEF Refs
<1>2. IsFiniteSet(Refs(i))
  BY <1>1, ProcsFinite
<1>3. Cardinality(Refs(i)) = 1
  BY DEF Counted
<1>4. PICK x : Refs(i) = {x}
  BY <1>2, <1>3, FS_Singleton
<1> QED BY <1>1, <1>4

\* An inode in memory has a reference.
LEMMA SomeRef ==
  ASSUME Types, Counted, NEW i \in File, core[i].count # 0
  PROVE  \E p \in Proc : Ref(p, i)
<1>1. Cardinality(Refs(i)) # 0
  BY DEF Counted
<1>2. Refs(i) # {}
  BY <1>1, FS_EmptySet
<1> QED BY <1>2 DEF Refs

----------------------------------------------------------------------------
(* What a step of p does: to other processes and inodes nothing, or at most *)
(* it wakes those who wait for the list; to its inodes what DataFor says    *)

OthersStay(p) ==
  \A q \in Proc \ {p} :
    /\ ino'[q] = ino[q] /\ op'[q] = op[q]
    /\ pc'[q] = pc[q] \/ (pc[q] = "ilockSleep" /\ pc'[q] = "ilock")

Touched(p, x) == Ref(p, x) \/ Ref(p, x)'

Frame(p) ==
  /\ OthersStay(p)
  /\ \A x \in Ino : ~ Touched(p, x) =>
       /\ core'[x] = core[x] /\ disk'[x] = disk[x] /\ files'[x] = files[x]
       /\ x \in named' => x \in named
  /\ \A x \in File : core'[x].count = core[x].count + (IF Ref(p, x)' THEN 1 ELSE 0)
                                                   - (IF Ref(p, x) THEN 1 ELSE 0)
  /\ \A x \in File : Ref(p, x)' /\ ~ Ref(p, x) => ~ core[x].lock
  /\ \A x \in File : Touched(p, x) /\ core[x].count > (IF Ref(p, x) THEN 1 ELSE 0) =>
       core'[x].mode = core[x].mode
  /\ pc'[p] \in RefPCs => ino'[p] # 0
  /\ disk'[0].mode

\* Valid, Mode and Links of an inode that nobody but p reads
ValidFor(p, x) == core[x].count # 0 /\ ~ (pc[p] \in ReadPCs /\ ino[p] = x)
ModeFor(p, x)  == IF ValidFor(p, x) THEN core[x].mode ELSE disk[x].mode
LinksFor(p, x) == IF ValidFor(p, x) THEN core[x].nlink ELSE disk[x].nlink

DataFor(p, x) ==
  /\ files[x] = IF ModeFor(p, x) THEN 1 ELSE 0
  /\ ValidFor(p, x) /\ ~ core[x].upd =>
       (core[x].mode <=> disk[x].mode) /\ core[x].nlink = disk[x].nlink
  /\ x \in named => ModeFor(p, x) /\ LinksFor(p, x) > 0
  /\ core[x].count = 0 => ~ core[x].lock
  /\ ino[p] = x =>
       /\ pc[p] \in AlonePCs => core[x].count = 1 /\ core[x].lock
       /\ pc[p] \in {"made", "open", "unlink", "itrunc"} => core[x].mode
       /\ pc[p] = "oread" => disk[x].mode
       /\ pc[p] = "made" => core[x].nlink > 0
       /\ pc[p] = "itrunc" => core[x].nlink <= 0

\* nobody else reads an inode that p has, or that is not locked
LEMMA NoOtherReader ==
  ASSUME BaseInv, NEW p \in Proc, NEW x \in File, Ref(p, x) \/ ~ core[x].lock,
         NEW q \in Proc \ {p}
  PROVE  ~ (pc[q] \in AlonePCs /\ ino[q] = x)
<1> SUFFICES ASSUME pc[q] \in AlonePCs, ino[q] = x PROVE FALSE
  OBVIOUS
<1>1. core[x].count = 1 /\ core[x].lock
  BY DEF BaseInv, Alone
<1>2. Ref(q, x)
  BY DEF Ref, RefPCs
<1>3. Ref(p, x)
  BY <1>1
<1> QED BY <1>1, <1>2, <1>3, SoleRef DEF BaseInv

LEMMA DataHere ==
  ASSUME BaseInv, Modes, Names, NEW p \in Proc, NEW x \in File, Ref(p, x) \/ ~ core[x].lock
  PROVE  DataFor(p, x)
<1>1. Valid(x) <=> ValidFor(p, x)
  BY NoOtherReader DEF Valid, ValidFor, IsLoaded, AlonePCs
<1>2. x \in Ino
  BY DEF File
<1>3. Mode(x) = ModeFor(p, x) /\ Links(x) = LinksFor(p, x)
  BY <1>1 DEF Mode, Links, ModeFor, LinksFor
<1>4. files[x] = IF ModeFor(p, x) THEN 1 ELSE 0
  BY <1>2, <1>3 DEF Modes
<1>5. ValidFor(p, x) /\ ~ core[x].upd =>
       (core[x].mode <=> disk[x].mode) /\ core[x].nlink = disk[x].nlink
  BY <1>1, <1>2 DEF Modes
<1>6. x \in named => ModeFor(p, x) /\ LinksFor(p, x) > 0
  BY <1>3 DEF Names
<1>7. core[x].count = 0 => ~ core[x].lock
  BY <1>2 DEF BaseInv, Free
<1>8. pc[p] \in AlonePCs /\ ino[p] = x => core[x].count = 1 /\ core[x].lock
  BY DEF BaseInv, Alone
<1>9. ino[p] = x =>
       /\ pc[p] \in {"made", "open", "unlink", "itrunc"} => core[x].mode
       /\ pc[p] = "oread" => disk[x].mode
       /\ pc[p] = "made" => core[x].nlink > 0
       /\ pc[p] = "itrunc" => core[x].nlink <= 0
  BY DEF Modes, Names
<1> QED BY <1>4, <1>5, <1>6, <1>7, <1>8, <1>9 DEF DataFor

\* i_count follows the reference of the process that runs.
LEMMA CountStep ==
  ASSUME Types, Counted, NEW p \in Proc, Frame(p)
  PROVE  Counted'
<1> SUFFICES ASSUME NEW x \in File
             PROVE  core'[x].count = Cardinality(Refs(x)')
  BY DEF Counted
<1> DEFINE U == Refs(x) \ {p}
<1>1. U \in SUBSET Proc /\ p \notin U
  BY DEF Refs
<1>2. IsFiniteSet(U) /\ Cardinality(U) \in Nat
  BY <1>1, ProcsFinite
<1>3. Cardinality(U \cup {p}) = Cardinality(U) + 1
  BY <1>1, <1>2, FS_AddElement
<1>4. Refs(x) = IF Ref(p, x) THEN U \cup {p} ELSE U
  BY DEF Refs
<1>5. \A q \in Proc \ {p} : Ref(q, x)' <=> Ref(q, x)
  BY DEF Frame, OthersStay, Ref, RefPCs, AlonePCs, ReadPCs
<1>6. Refs(x)' = IF Ref(p, x)' THEN U \cup {p} ELSE U
  BY <1>5 DEF Refs
<1>7. core[x].count = Cardinality(Refs(x))
  BY DEF Counted
<1>8. core'[x].count = core[x].count + (IF Ref(p, x)' THEN 1 ELSE 0)
                                     - (IF Ref(p, x) THEN 1 ELSE 0)
  BY DEF Frame
<1> HIDE DEF U
<1> QED BY <1>2, <1>3, <1>4, <1>6, <1>7, <1>8

LEMMA LocalStep ==
  ASSUME BaseInv, Modes, Names, NEW p \in Proc, Frame(p),
         \A x \in File : Touched(p, x) => DataFor(p, x)',
         Types'
  PROVE  /\ RootIs' /\ Counted' /\ Alone' /\ Free'
         /\ Modes' /\ Names'
<1>o. \A q \in Proc \ {p} :
        /\ ino'[q] = ino[q]
        /\ \A l \in RefPCs : (pc'[q] = l) <=> (pc[q] = l)
  BY DEF Frame, OthersStay, RefPCs, AlonePCs, ReadPCs
<1>r. \A q \in Proc \ {p} : \A x : Ref(q, x)' <=> Ref(q, x)
  BY <1>o DEF Ref
<1>0. \A x \in Ino : Touched(p, x) => x \in File
  BY DEF Touched, Ref, Frame, BaseInv, RootIs, File
<1>f. \A x \in Ino : ~ Touched(p, x) =>
       /\ core'[x] = core[x] /\ disk'[x] = disk[x] /\ files'[x] = files[x]
       /\ x \in named' => x \in named
  BY DEF Frame
<1>1. RootIs'
  <2>1. 0 \in Ino /\ 0 \notin File
    BY ConstantsAssumption DEF Ino, File
  <2>2. core'[0] = Root
    BY <2>1, <1>0, <1>f DEF BaseInv, RootIs
  <2>3. \A q \in Proc : pc'[q] \in RefPCs => ino'[q] # 0
    BY <1>o DEF Frame, BaseInv, RootIs
  <2> QED BY <2>2, <2>3 DEF RootIs, Frame, Root
<1>2. Counted'
  BY CountStep DEF BaseInv
<1>3. \A q \in Proc : pc[q] \in RefPCs => ino[q] \in File /\ ino[q] \in Ino
  BY DEF BaseInv, Types, RootIs, File
<1>3p. \A q \in Proc : pc'[q] \in RefPCs => ino'[q] \in File /\ ino'[q] \in Ino
  BY <1>1 DEF Types, RootIs, File
\* an inode that p touches is not another's alone, and keeps its mode for others
<1>4. ASSUME NEW q \in Proc \ {p}, NEW x \in File, Touched(p, x)
      PROVE  /\ ~ (pc[q] \in AlonePCs /\ ino[q] = x)
             /\ Ref(q, x) => core'[x].mode = core[x].mode
  <2>1. Ref(p, x) \/ ~ core[x].lock
    BY <1>4 DEF Touched, Frame
  <2>2. ~ (pc[q] \in AlonePCs /\ ino[q] = x)
    BY <2>1, NoOtherReader
  <2>3. ASSUME Ref(q, x) PROVE core[x].count > (IF Ref(p, x) THEN 1 ELSE 0)
    <3>1. core[x].count >= 1 /\ core[x].count \in Nat
      BY <2>3, RefIsCounted DEF BaseInv
    <3>2. Ref(p, x) => core[x].count # 1
      BY <2>3, SoleRef DEF BaseInv
    <3> QED BY <3>1, <3>2
  <2> QED BY <1>4, <2>2, <2>3 DEF Frame
<1>5. ASSUME NEW x \in File, Touched(p, x) PROVE Valid(x)' <=> ValidFor(p, x)'
  <2>1. \A q \in Proc \ {p} : ~ (pc'[q] \in ReadPCs /\ ino'[q] = x)
    BY <1>4, <1>5, <1>o DEF RefPCs, AlonePCs
  <2> QED BY <2>1 DEF Valid, ValidFor, IsLoaded
<1>6. ASSUME NEW x \in Ino, ~ Touched(p, x) PROVE Valid(x)' <=> Valid(x)
  <2>1. \A q \in Proc : (pc'[q] \in ReadPCs /\ ino'[q] = x) <=> (pc[q] \in ReadPCs /\ ino[q] = x)
    BY <1>6, <1>o DEF RefPCs, AlonePCs, ReadPCs, Touched, Ref
  <2> QED BY <2>1, <1>6, <1>f DEF Valid, IsLoaded
<1>7. ASSUME NEW x \in Ino
      PROVE  /\ files'[x] = IF Mode(x)' THEN 1 ELSE 0
             /\ Valid(x)' /\ ~ core'[x].upd =>
                  (core'[x].mode <=> disk'[x].mode) /\ core'[x].nlink = disk'[x].nlink
             /\ x \in named' => Mode(x)' /\ Links(x)' > 0
             /\ core'[x].count = 0 => ~ core'[x].lock
  <2>1. CASE Touched(p, x)
    <3>1. x \in File /\ DataFor(p, x)'
      BY <2>1, <1>0
    <3>2. Mode(x)' = ModeFor(p, x)' /\ Links(x)' = LinksFor(p, x)'
      BY <2>1, <3>1, <1>5 DEF Mode, Links, ModeFor, LinksFor
    <3> QED BY <2>1, <3>1, <3>2, <1>5 DEF DataFor
  <2>2. CASE ~ Touched(p, x)
    <3>1. /\ core'[x] = core[x] /\ disk'[x] = disk[x] /\ files'[x] = files[x]
          /\ x \in named' => x \in named
      BY <2>2, <1>f
    <3>2. Mode(x)' = Mode(x) /\ Links(x)' = Links(x)
      BY <2>2, <3>1, <1>6 DEF Mode, Links
    <3> QED BY <2>2, <3>1, <3>2, <1>6 DEF Modes, Names, BaseInv, Free
  <2> QED BY <2>1, <2>2
<1>8. ASSUME NEW q \in Proc, pc'[q] \in RefPCs
      PROVE  /\ pc'[q] \in AlonePCs => core'[ino'[q]].count = 1 /\ core'[ino'[q]].lock
             /\ pc'[q] \in {"made", "open", "unlink", "itrunc"} => core'[ino'[q]].mode
             /\ pc'[q] = "oread" => disk'[ino'[q]].mode
             /\ pc'[q] = "made" => core'[ino'[q]].nlink > 0
             /\ pc'[q] = "itrunc" => core'[ino'[q]].nlink <= 0
  <2>1. CASE q = p
    <3>1. PICK x \in File : x = ino'[p]
      BY <2>1, <1>8, <1>3p
    <3>2. Ref(p, x)'
      BY <2>1, <1>8, <3>1 DEF Ref
    <3>3. DataFor(p, x)'
      BY <3>2 DEF Touched
    <3> QED BY <2>1, <3>1, <3>3 DEF DataFor
  <2>2. CASE q # p
    <3> DEFINE x == ino[q]
    <3>1. /\ ino'[q] = x /\ x \in File /\ x \in Ino /\ pc'[q] = pc[q] /\ Ref(q, x)
      BY <2>2, <1>8, <1>o, <1>3 DEF Ref
    <3>2. /\ pc[q] \in AlonePCs => core[x].count = 1 /\ core[x].lock
          /\ pc[q] \in {"made", "open", "unlink", "itrunc"} => core[x].mode
          /\ pc[q] = "oread" => disk[x].mode
          /\ pc[q] = "made" => core[x].nlink > 0
          /\ pc[q] = "itrunc" => core[x].nlink <= 0
      BY DEF BaseInv, Alone, Modes, Names
    <3> HIDE DEF x
    <3>3. CASE Touched(p, x)
      <4>1. ~ pc[q] \in AlonePCs /\ core'[x].mode = core[x].mode
        BY <2>2, <3>1, <3>3, <1>4 DEF x
      <4> QED BY <3>1, <3>2, <4>1 DEF AlonePCs, ReadPCs
    <3>4. CASE ~ Touched(p, x)
      <4>1. core'[x] = core[x] /\ disk'[x] = disk[x]
        BY <3>1, <3>4, <1>f
      <4> QED BY <3>1, <3>2, <4>1
    <3> QED BY <3>3, <3>4
  <2> QED BY <2>1, <2>2
<1>9. Alone' /\ Free'
  BY <1>7, <1>8 DEF Alone, Free, RefPCs
<1>10. Modes'
  BY <1>7, <1>8 DEF Modes, RefPCs, AlonePCs, ReadPCs
<1>11. Names'
  <2>1. named' \subseteq Ino
    BY DEF Types, File
  <2> QED BY <2>1, <1>7, <1>8 DEF Names, RefPCs, AlonePCs
<1> QED BY <1>1, <1>2, <1>9, <1>10, <1>11

----------------------------------------------------------------------------
(* The loop of IAlloc *)

\* A nonempty set of numbers up to n has a greatest one.
LEMMA MaxIs ==
  ASSUME NEW n \in Nat, NEW S \in SUBSET (0 .. n), S # {}
  PROVE  Max(S) \in S /\ \A m \in S : m <= Max(S)
<1> DEFINE T == {n - m : m \in S}
<1>1. T \subseteq Nat /\ T # {}
  <2>1. \A m \in S : n - m \in Nat
    OBVIOUS
  <2> QED BY <2>1
<1> HIDE DEF T
<1>2. PICK t \in T : \A u \in T : ~ (<<u, t>> \in OpToRel(<, Nat))
  BY <1>1, NatLessThanWellFounded, WFMin, Zenon
<1>3. \A u \in T : ~ (u < t)
  BY <1>1, <1>2 DEF OpToRel
<1>4. PICK x \in S : t = n - x
  BY DEF T
<1>5. \A m \in S : x >= m
  <2> TAKE m \in S
  <2>1. n - m \in T
    BY DEF T
  <2> QED BY <2>1, <1>3, <1>4
<1> QED BY <1>5 DEF Max

\* how the loop passes over a number; what c has for the inode it stops at
PassesOver(c, i) == c[i].count # 0 /\ ~ c[i].lock /\ c[i].mode
Stops(p, c, i, w) ==
  \/ c[i].lock /\ core' = c /\ pc' = [w EXCEPT ![p] = "igetSleep"]
  \/ c[i].count = 0 /\ ~ Room(c) /\ core' = c /\ pc' = [w EXCEPT ![p] = "user"]
  \/ /\ c[i].count = 0
     /\ core' = [c EXCEPT ![i] = [Absent EXCEPT !.count = 1, !.lock = TRUE]]
     /\ pc' = [w EXCEPT ![p] = "iread"]

LEMMA TakeIs ==
  ASSUME NEW p, NEW arr \in [Entry -> Ino], NEW n \in 0 .. MaxFree,
         NEW c \in [Ino -> Node], c[0] = Root, NEW w, Take(p, arr, n, c, w)
  PROVE  /\ s_inode' = arr /\ files' = files
         /\ \/ /\ s_ninode' = 0 /\ core' = c /\ pc' = [w EXCEPT ![p] = "wild"]
               /\ ino' = ino /\ op' = op
               /\ \A k \in 0 .. n - 1 : PassesOver(c, arr[k])
            \/ \E k \in 0 .. n - 1 :
                 /\ k \in Entry /\ s_ninode' = k /\ arr[k] \in File
                 /\ \A m \in 0 .. n - 1 : m > k => PassesOver(c, arr[m])
                 /\ ino' = [ino EXCEPT ![p] = arr[k]] /\ op' = [op EXCEPT ![p] = "alloc"]
                 /\ ~ PassesOver(c, arr[k])
                 /\ Stops(p, c, arr[k], w)
<1> DEFINE Left == {k \in 0 .. n - 1 : ~ PassesOver(c, arr[k])}
<1>0. MaxFree \in Nat /\ n \in Nat /\ 0 .. n - 1 \subseteq Entry /\ Left \in SUBSET (0 .. n)
  BY ConstantsAssumption DEF Entry
<1>1. s_inode' = arr /\ files' = files
  BY DEF Take
<1>2. \/ /\ Left = {}
         /\ s_ninode' = 0 /\ core' = c
         /\ pc' = [w EXCEPT ![p] = "wild"] /\ UNCHANGED <<ino, op>>
      \/ \E k \in Left :
           /\ k = Max(Left)
           /\ s_ninode' = k
           /\ ino' = [ino EXCEPT ![p] = arr[k]] /\ op' = [op EXCEPT ![p] = "alloc"]
           /\ Stops(p, c, arr[k], w)
  BY DEF Take, PassesOver, Stops
<1>3. CASE Left = {} /\ s_ninode' = 0 /\ core' = c /\ pc' = [w EXCEPT ![p] = "wild"]
           /\ UNCHANGED <<ino, op>>
  BY <1>1, <1>3
<1>4. ASSUME NEW k \in Left, k = Max(Left), s_ninode' = k,
             ino' = [ino EXCEPT ![p] = arr[k]], op' = [op EXCEPT ![p] = "alloc"],
             Stops(p, c, arr[k], w)
      PROVE  /\ k \in 0 .. n - 1 /\ k \in Entry /\ arr[k] \in File
             /\ \A m \in 0 .. n - 1 : m > k => PassesOver(c, arr[m])
             /\ ~ PassesOver(c, arr[k])
  <2>1. \A m \in Left : m <= k
    BY <1>0, <1>4, MaxIs
  <2>2. k \in 0 .. n - 1 /\ k \in Entry /\ arr[k] \in Ino /\ ~ PassesOver(c, arr[k])
    BY <1>0
  <2>3. arr[k] # 0
    BY <2>2 DEF PassesOver, Root
  <2>4. \A m \in 0 .. n - 1 : m > k => PassesOver(c, arr[m])
    BY <2>1, <2>2, <1>0
  <2> QED BY <2>2, <2>3, <2>4 DEF File
<1> HIDE DEF Left
<1> QED BY <1>1, <1>2, <1>3, <1>4

\* the entry of the inode table for an inode that is being read
LEMMA NewNode ==
  /\ Absent \in Node
  /\ [Absent EXCEPT !.count = 1, !.lock = TRUE] \in Node
<1>1. Absent \in Node
  BY DEF Absent, Node
<1>2. [Absent EXCEPT !.count = 1, !.lock = TRUE] \in Node
  BY <1>1 DEF Node
<1> QED BY <1>1, <1>2

\* What the loop does to the inodes; c has the inode that p puts away, if any.
Putting(p, c) ==
  /\ disk' \in [Ino -> DiskNode] /\ named' = named
  /\ \A x \in Ino :
       IF Ref(p, x)
       THEN /\ core[x].count = 1 /\ c[x] = Absent
            /\ disk'[x].mode = ModeFor(p, x) /\ disk'[x].nlink = LinksFor(p, x)
       ELSE c[x] = core[x] /\ disk'[x] = disk[x]

Waking(p, w) ==
  \A q \in Proc \ {p} : w[q] = pc[q] \/ (pc[q] = "ilockSleep" /\ w[q] = "ilock")

LEMMA TakeStep ==
  ASSUME BaseInv, Modes, Names, NEW p \in Proc, NEW arr \in [Entry -> Ino],
         NEW n \in 0 .. MaxFree, NEW w \in [Proc -> PCs], NEW c \in [Ino -> Node],
         Take(p, arr, n, c, w), Waking(p, w), Putting(p, c)
  PROVE  /\ Frame(p)
         /\ \A x \in File : Touched(p, x) => DataFor(p, x)'
         /\ s_inode' \in [Entry -> Ino] /\ s_ninode' \in 0 .. MaxFree
         /\ core' \in [Ino -> Node] /\ files' \in [Ino -> Nat]
         /\ pc' \in [Proc -> PCs] /\ ino' \in [Proc -> Ino]
         /\ op' \in [Proc -> {"alloc", "open", "unlink"}]
<1>t. Types /\ 0 \in Ino /\ MaxFree \in Nat /\ n \in Nat
  BY ConstantsAssumption DEF BaseInv, Ino
<1>0. ~ Ref(p, 0)
  BY DEF BaseInv, RootIs, Ref
<1>1. c[0] = Root
  BY <1>t, <1>0 DEF BaseInv, RootIs, Putting
<1>2. \A x \in File : x \in Ino /\ core[x] \in Node /\ c[x] \in Node
  BY <1>t DEF File, Types
<1>3. \A x \in File : c[x].count = core[x].count - (IF Ref(p, x) THEN 1 ELSE 0)
  <2> TAKE x \in File
  <2>1. core[x].count \in Nat
    BY <1>2 DEF Node
  <2>2. CASE Ref(p, x)
    BY <2>2, <1>2 DEF Putting, Absent
  <2>3. CASE ~ Ref(p, x)
    BY <2>1, <2>3, <1>2 DEF Putting
  <2> QED BY <2>2, <2>3
<1>4. ASSUME NEW x \in File, Ref(p, x) \/ c[x].count = 0
      PROVE  /\ Ref(p, x) \/ ~ core[x].lock
             /\ disk'[x].mode = ModeFor(p, x) /\ disk'[x].nlink = LinksFor(p, x)
             /\ DataFor(p, x)
  <2>1. CASE Ref(p, x)
    BY <2>1, <1>2, DataHere DEF Putting
  <2>2. CASE ~ Ref(p, x)
    <3>1. core[x].count = 0 /\ disk'[x] = disk[x]
      BY <2>2, <1>4, <1>2 DEF Putting
    <3>2. ~ core[x].lock
      BY <3>1, <1>2 DEF BaseInv, Free
    <3>3. DataFor(p, x)
      BY <3>2, DataHere
    <3> QED BY <3>1, <3>2, <3>3 DEF ModeFor, LinksFor, ValidFor
  <2> QED BY <2>1, <2>2
<1>5. ASSUME NEW x \in File, Ref(p, x) \/ c[x].count = 0, files' = files,
             core'[x].count = 0 \/ (pc'[p] \in ReadPCs /\ ino'[p] = x),
             core'[x].count = 0 => ~ core'[x].lock,
             ino'[p] = x => pc'[p] \in {"wild", "user", "igetSleep"}
                  \/ (pc'[p] = "iread" /\ core'[x].count = 1 /\ core'[x].lock)
      PROVE  DataFor(p, x)'
  <2>1. ~ ValidFor(p, x)'
    BY <1>5 DEF ValidFor
  <2>2. ModeFor(p, x)' = ModeFor(p, x) /\ LinksFor(p, x)' = LinksFor(p, x)
    BY <2>1, <1>4, <1>5 DEF ModeFor, LinksFor
  <2>3. files[x] = IF ModeFor(p, x) THEN 1 ELSE 0
    BY <1>4, <1>5 DEF DataFor
  <2>4. x \in named => ModeFor(p, x) /\ LinksFor(p, x) > 0
    BY <1>4, <1>5 DEF DataFor
  <2>5. named' = named
    BY DEF Putting
  <2> QED BY <2>1, <2>2, <2>3, <2>4, <2>5, <1>5 DEF DataFor, AlonePCs, ReadPCs
<1>6. disk'[0].mode
  BY <1>t, <1>0 DEF Putting, BaseInv, RootIs
<1>7. pc \in [Proc -> PCs] /\ ino \in [Proc -> Ino] /\ op \in [Proc -> {"alloc", "open", "unlink"}]
      /\ files \in [Ino -> Nat]
  BY <1>t DEF Types
<1>8. /\ s_inode' = arr /\ files' = files
      /\ \/ /\ s_ninode' = 0 /\ core' = c /\ pc' = [w EXCEPT ![p] = "wild"]
            /\ ino' = ino /\ op' = op
         \/ \E k \in 0 .. n - 1 :
              /\ s_ninode' = k /\ arr[k] \in File
              /\ ino' = [ino EXCEPT ![p] = arr[k]] /\ op' = [op EXCEPT ![p] = "alloc"]
              /\ Stops(p, c, arr[k], w)
  BY <1>1, TakeIs
<1>9. /\ s_inode' \in [Entry -> Ino] /\ files' \in [Ino -> Nat]
      /\ \A x \in File : x \in Ino /\ c[x].count \in Nat
  BY <1>2, <1>7, <1>8 DEF Node
<1>10. ASSUME core' = c, pc'[p] \in {"wild", "user", "igetSleep"}, OthersStay(p),
              files' = files
       PROVE  Frame(p) /\ \A x \in File : Touched(p, x) => DataFor(p, x)'
  <2>1. \A x \in Ino : ~ Ref(p, x)'
    BY <1>10 DEF Ref, RefPCs, AlonePCs, ReadPCs
  <2>2. \A x \in Ino : ~ Ref(p, x) => core'[x] = core[x] /\ disk'[x] = disk[x]
    BY <1>10 DEF Putting
  <2>3. \A x \in File : Ref(p, x) => core[x].count = 1 /\ c[x] = Absent
    BY <1>2 DEF Putting
  <2>4. \A x \in File : core'[x].count = core[x].count + (IF Ref(p, x)' THEN 1 ELSE 0)
                                                   - (IF Ref(p, x) THEN 1 ELSE 0)
    <3> TAKE x \in File
    <3>1. core[x].count \in Nat
      BY <1>2 DEF Node
    <3>2. ~ Ref(p, x)' /\ core'[x].count = core[x].count - (IF Ref(p, x) THEN 1 ELSE 0)
      BY <1>2, <1>3, <1>10, <2>1
    <3> QED BY <3>1, <3>2
  <2>5. Frame(p)
    <3>1. \A x \in Ino : ~ Touched(p, x) =>
            /\ core'[x] = core[x] /\ disk'[x] = disk[x] /\ files'[x] = files[x]
            /\ x \in named' => x \in named
      BY <1>10, <2>2 DEF Touched, Putting
    <3>2. \A x \in File : Touched(p, x) /\ core[x].count > (IF Ref(p, x) THEN 1 ELSE 0) => FALSE
      BY <1>2, <2>1, <2>3 DEF Touched
    <3>3. \A x \in File : ~ Ref(p, x)'
      BY <1>2, <2>1
    <3>4. pc'[p] \notin RefPCs
      BY <1>10 DEF RefPCs, AlonePCs, ReadPCs
    <3> QED BY <1>6, <1>10, <2>4, <3>1, <3>2, <3>3, <3>4 DEF Frame
  <2>6. ASSUME NEW x \in File, Touched(p, x) PROVE DataFor(p, x)'
    <3>1. Ref(p, x)
      BY <1>2, <2>1, <2>6 DEF Touched
    <3>2. core'[x].count = 0 /\ ~ core'[x].lock
      BY <2>3, <3>1, <1>10 DEF Absent
    <3> QED BY <1>5, <1>10, <3>1, <3>2
  <2> QED BY <2>5, <2>6
<1>11. CASE /\ s_ninode' = 0 /\ core' = c /\ pc' = [w EXCEPT ![p] = "wild"]
            /\ ino' = ino /\ op' = op
  <2>1. OthersStay(p) /\ pc'[p] = "wild" /\ pc' \in [Proc -> PCs]
    BY <1>11, <1>7 DEF OthersStay, Waking, PCs
  <2> QED BY <2>1, <1>t, <1>7, <1>8, <1>9, <1>10, <1>11
<1>12. ASSUME NEW k \in 0 .. n - 1,
              s_ninode' = k, arr[k] \in File,
              ino' = [ino EXCEPT ![p] = arr[k]], op' = [op EXCEPT ![p] = "alloc"],
              Stops(p, c, arr[k], w)
       PROVE  /\ Frame(p)
              /\ \A x \in File : Touched(p, x) => DataFor(p, x)'
              /\ s_ninode' \in 0 .. MaxFree
              /\ core' \in [Ino -> Node] /\ pc' \in [Proc -> PCs] /\ ino' \in [Proc -> Ino]
              /\ op' \in [Proc -> {"alloc", "open", "unlink"}]
  <2> DEFINE y == arr[k]
  <2>1. y \in File /\ y \in Ino
    BY <1>12, <1>2
  <2>2. s_ninode' \in 0 .. MaxFree /\ ino' \in [Proc -> Ino] /\ op' \in [Proc -> {"alloc", "open", "unlink"}]
    BY <1>12, <1>t, <1>7, <2>1
  <2>3. ino'[p] = y /\ \A q \in Proc \ {p} : ino'[q] = ino[q] /\ op'[q] = op[q]
    BY <1>12, <1>7
  <2>4. Stops(p, c, y, w)
    BY <1>12
  <2> HIDE DEF y
  <2>5. CASE core' = c /\ \E l \in {"user", "igetSleep"} : pc' = [w EXCEPT ![p] = l]
    <3>1. OthersStay(p) /\ pc'[p] \in {"user", "igetSleep"} /\ pc' \in [Proc -> PCs]
      BY <2>3, <2>5 DEF OthersStay, Waking, PCs
    <3> QED BY <3>1, <2>2, <2>5, <1>8, <1>10
  <2>6. CASE /\ c[y].count = 0
             /\ core' = [c EXCEPT ![y] = [Absent EXCEPT !.count = 1, !.lock = TRUE]]
             /\ pc' = [w EXCEPT ![p] = "iread"]
    <3>1. /\ OthersStay(p) /\ pc'[p] = "iread" /\ pc' \in [Proc -> PCs]
          /\ core' \in [Ino -> Node]
      <4>1. pc'[p] = "iread" /\ pc' \in [Proc -> PCs] /\ \A q \in Proc \ {p} : pc'[q] = w[q]
        BY <2>6 DEF PCs
      <4>2. [Absent EXCEPT !.count = 1, !.lock = TRUE] \in Node
        BY NewNode
      <4>3. core' \in [Ino -> Node]
        BY <2>1, <2>6, <4>2
      <4> QED BY <2>3, <4>1, <4>3 DEF OthersStay, Waking
    <3>2. \A x \in Ino : Ref(p, x)' <=> x = y
      BY <2>3, <3>1 DEF Ref, RefPCs, AlonePCs, ReadPCs
    <3>3. \A x \in Ino : x # y => core'[x] = c[x]
      BY <2>6
    <3>4. core'[y].count = 1 /\ core'[y].lock
      BY <2>1, <2>6 DEF Absent
    <3>5. Ref(p, y) \/ ~ core[y].lock
      BY <1>4, <2>1, <2>6
    <3>6. \A x \in File : core'[x].count = core[x].count + (IF Ref(p, x)' THEN 1 ELSE 0)
                                                   - (IF Ref(p, x) THEN 1 ELSE 0)
      <4> TAKE x \in File
      <4>1. core[x].count \in Nat
        BY <1>2 DEF Node
      <4>2. c[x].count = core[x].count - (IF Ref(p, x) THEN 1 ELSE 0)
        BY <1>3
      <4>3. core'[x].count = c[x].count + (IF Ref(p, x)' THEN 1 ELSE 0)
        <5>1. CASE x = y
          BY <5>1, <2>1, <2>6, <3>2, <3>4
        <5>2. CASE x # y
          BY <5>2, <1>9, <1>2, <3>2, <3>3
        <5> QED BY <5>1, <5>2
      <4> QED BY <4>1, <4>2, <4>3
    <3>7. Frame(p)
      <4>1. \A x \in Ino : ~ Touched(p, x) =>
              /\ core'[x] = core[x] /\ disk'[x] = disk[x] /\ files'[x] = files[x]
              /\ x \in named' => x \in named
        BY <1>8, <3>2, <3>3 DEF Touched, Putting
      <4>2. \A x \in File : Touched(p, x) /\ core[x].count > (IF Ref(p, x) THEN 1 ELSE 0) => FALSE
        <5> SUFFICES ASSUME NEW x \in File, Touched(p, x),
                            core[x].count > (IF Ref(p, x) THEN 1 ELSE 0)
                     PROVE  FALSE
          OBVIOUS
        <5>1. CASE Ref(p, x)
          BY <5>1, <1>2 DEF Putting
        <5>2. CASE ~ Ref(p, x)
          <6>1. x = y
            BY <5>2, <1>2, <3>2 DEF Touched
          <6>2. core[x].count = 0
            BY <5>2, <6>1, <1>2, <2>6 DEF Putting
          <6> QED BY <5>2, <6>2
        <5> QED BY <5>1, <5>2
      <4>3. \A x \in File : Ref(p, x)' /\ ~ Ref(p, x) => ~ core[x].lock
        BY <1>2, <3>2, <3>5
      <4>4. ino'[p] # 0
        BY <2>1, <2>3 DEF File
      <4> QED BY <1>6, <3>1, <3>6, <4>1, <4>2, <4>3, <4>4 DEF Frame
    <3>8. ASSUME NEW x \in File, Touched(p, x) PROVE DataFor(p, x)'
      <4>1. CASE x = y
        <5>1. pc'[p] \in ReadPCs
          BY <3>1 DEF ReadPCs
        <5> QED BY <4>1, <5>1, <1>5, <1>8, <2>3, <2>6, <3>1, <3>4
      <4>2. CASE x # y
        <5>1. Ref(p, x)
          BY <4>2, <1>2, <3>2, <3>8 DEF Touched
        <5>2. core'[x].count = 0 /\ ~ core'[x].lock
          BY <4>2, <5>1, <1>2, <3>3 DEF Putting, Absent
        <5> QED BY <4>2, <5>1, <5>2, <1>5, <1>8, <2>3
      <4> QED BY <4>1, <4>2
    <3> QED BY <2>2, <3>1, <3>7, <3>8
  <2> QED BY <2>4, <2>5, <2>6 DEF Stops
<1> QED BY <1>8, <1>9, <1>11, <1>12

----------------------------------------------------------------------------
(* IPut *)

\* What IPut finds: the inode of p, with c for the inodes in memory.
PutsAway(p, i, c) ==
  /\ Ref(p, i) /\ files[i] = 1
  /\ \A x \in Ino \ {i} : c[x] = core[x]
  /\ c[i].count = core[i].count /\ c[i].mode
  /\ core[i].count > 1 => core[i].mode
  /\ ~ c[i].upd => disk[i].mode /\ disk[i].nlink = c[i].nlink
  /\ named' \subseteq named /\ (i \in named' => c[i].nlink > 0)
  /\ disk' = disk /\ files' = files
  /\ \A q \in Proc \ {p} : op'[q] = op[q]

LEMMA PutStep ==
  ASSUME BaseInv, NEW p \in Proc, NEW i \in File, NEW c \in [Ino -> Node],
         IPut(p, i, c), PutsAway(p, i, c)
  PROVE  /\ Frame(p)
         /\ \A x \in File : Touched(p, x) => DataFor(p, x)'
         /\ core' \in [Ino -> Node]
         /\ pc' \in [Proc -> PCs] /\ ino' \in [Proc -> Ino]
<1>t. Types /\ i \in Ino /\ 0 \in Ino /\ i # 0
  BY ConstantsAssumption DEF BaseInv, Ino, File
<1>0. core[i].count \in Nat /\ core[i].count >= 1 /\ c[i] \in Node
  BY <1>t, RefIsCounted DEF BaseInv, PutsAway
<1>1. \A x \in File : Ref(p, x) <=> x = i
  BY DEF PutsAway, Ref
<1>2. /\ \A x \in Ino \ {i} : core'[x] = core[x]
      /\ core' \in [Ino -> Node]
  <2>1. CASE core' = [c EXCEPT ![i].count = @ - 1, ![i].lock = FALSE] /\ c[i].count > 1
    <3>1. c[i].count - 1 \in Nat
      BY <1>0, <2>1 DEF PutsAway
    <3>2. [[c[i] EXCEPT !.count = @ - 1] EXCEPT !.lock = FALSE] \in Node
      BY <1>0, <3>1 DEF Node
    <3> QED BY <1>t, <2>1, <3>2 DEF PutsAway
  <2>2. CASE core' = [c EXCEPT ![i].lock = TRUE]
    <3>1. [c[i] EXCEPT !.lock = TRUE] \in Node
      BY <1>0 DEF Node
    <3> QED BY <1>t, <2>2, <3>1 DEF PutsAway
  <2>3. CASE core' = [c EXCEPT ![i] = Absent]
    BY <1>t, <2>3, NewNode DEF PutsAway
  <2> QED BY <2>1, <2>2, <2>3 DEF IPut
<1>3. pc' \in [Proc -> PCs] /\ ino' \in [Proc -> Ino] /\ OthersStay(p)
  BY <1>t DEF IPut, Types, OthersStay, Goto, PCs, PutsAway
\* the four outcomes
<1>4. \/ /\ core[i].count > 1 /\ core'[i].count = core[i].count - 1
         /\ core'[i].mode = c[i].mode /\ core'[i].nlink = c[i].nlink /\ core'[i].upd = c[i].upd
         /\ pc'[p] = "user" /\ ino'[p] = 0
      \/ /\ core[i].count = 1 /\ core'[i].count = 1 /\ core'[i].lock
         /\ core'[i].mode = c[i].mode /\ core'[i].nlink = c[i].nlink /\ core'[i].upd = c[i].upd
         /\ pc'[p] \in {"itrunc", "iupdate"} /\ ino'[p] = i
         /\ pc'[p] = "itrunc" => c[i].nlink <= 0
      \/ /\ core[i].count = 1 /\ core'[i] = Absent /\ ~ c[i].upd
         /\ pc'[p] = "user" /\ ino'[p] = 0
  <2>1. ino[p] = i
    BY DEF PutsAway, Ref
  <2>2. ino \in [Proc -> Ino] /\ pc \in [Proc -> PCs]
    BY <1>t DEF Types
  <2>3. c[i].count = core[i].count
    BY DEF PutsAway
  <2>4. CASE /\ c[i].count > 1
             /\ core' = [c EXCEPT ![i].count = @ - 1, ![i].lock = FALSE]
             /\ Goto(p, "user") /\ ino' = [ino EXCEPT ![p] = 0]
    <3>1. core'[i] = [[c[i] EXCEPT !.count = @ - 1] EXCEPT !.lock = FALSE]
      BY <1>t, <2>4
    <3>2. /\ core'[i].count = c[i].count - 1
          /\ core'[i].mode = c[i].mode /\ core'[i].nlink = c[i].nlink /\ core'[i].upd = c[i].upd
      BY <1>0, <3>1 DEF Node
    <3> QED BY <2>2, <2>3, <2>4, <3>2 DEF Goto
  <2>5. CASE /\ c[i].count = 1 /\ core' = [c EXCEPT ![i].lock = TRUE] /\ UNCHANGED ino
             /\ \/ Goto(p, "itrunc") /\ c[i].nlink <= 0
                \/ Goto(p, "iupdate")
    <3>1. core'[i] = [c[i] EXCEPT !.lock = TRUE]
      BY <1>t, <2>5
    <3>2. /\ core'[i].count = 1 /\ core'[i].lock
          /\ core'[i].mode = c[i].mode /\ core'[i].nlink = c[i].nlink /\ core'[i].upd = c[i].upd
      BY <1>0, <2>5, <3>1 DEF Node
    <3> QED BY <2>1, <2>2, <2>3, <2>5, <3>2 DEF Goto
  <2>6. CASE /\ c[i].count = 1 /\ ~ c[i].upd /\ core' = [c EXCEPT ![i] = Absent]
             /\ Goto(p, "user") /\ ino' = [ino EXCEPT ![p] = 0]
    BY <1>t, <2>2, <2>3, <2>6 DEF Goto
  <2> QED BY <2>4, <2>5, <2>6 DEF IPut
<1>5. \A x \in File : Ref(p, x)' => x = i
  BY <1>4, <1>t DEF Ref, RefPCs, AlonePCs, ReadPCs
<1>6. Ref(p, i)' <=> pc'[p] # "user"
  BY <1>4 DEF Ref, RefPCs, AlonePCs, ReadPCs
<1>7. disk'[0].mode /\ ~ Ref(p, 0) /\ (pc'[p] \in RefPCs => ino'[p] # 0)
  BY <1>t, <1>4 DEF BaseInv, RootIs, PutsAway, Ref, RefPCs, AlonePCs, ReadPCs
<1>8. Frame(p)
  <2>1. \A x \in Ino : ~ Touched(p, x) =>
          /\ core'[x] = core[x] /\ disk'[x] = disk[x] /\ files'[x] = files[x]
          /\ x \in named' => x \in named
    BY <1>1, <1>2 DEF Touched, PutsAway
  <2>2. \A x \in File : core'[x].count = core[x].count + (IF Ref(p, x)' THEN 1 ELSE 0)
                                                   - (IF Ref(p, x) THEN 1 ELSE 0)
    <3> TAKE x \in File
    <3>1. x \in Ino /\ core[x].count \in Nat
      BY <1>t DEF File, Types, Node
    <3>2. CASE x = i
      <4>1. CASE Ref(p, i)'
        <5>1. core'[i].count = core[i].count
          BY <4>1, <1>4, <1>6
        <5> QED BY <3>1, <3>2, <4>1, <5>1, <1>1
      <4>2. CASE ~ Ref(p, i)'
        <5>1. core'[i].count = core[i].count - 1
          BY <4>2, <1>4, <1>6 DEF Absent
        <5> QED BY <3>1, <3>2, <4>2, <5>1, <1>1
      <4> QED BY <4>1, <4>2
    <3>3. CASE x # i
      BY <3>1, <3>3, <1>1, <1>2, <1>5
    <3> QED BY <3>2, <3>3
  <2>3. \A x \in File : Ref(p, x)' /\ ~ Ref(p, x) => ~ core[x].lock
    BY <1>1, <1>5
  <2>4. ASSUME NEW x \in File, Touched(p, x), core[x].count > (IF Ref(p, x) THEN 1 ELSE 0)
        PROVE  core'[x].mode = core[x].mode
    <3>1. x = i /\ core[i].count > 1
      BY <2>4, <1>1, <1>5 DEF Touched
    <3>2. core'[i].mode = c[i].mode
      BY <3>1, <1>4
    <3>3. c[i].mode = TRUE /\ core[i].mode = TRUE
      BY <3>1, <1>0, <1>t DEF PutsAway, Types, Node
    <3> QED BY <3>1, <3>2, <3>3
  <2> QED BY <1>3, <1>7, <2>1, <2>2, <2>3, <2>4 DEF Frame
<1>9. DataFor(p, i)'
  <2>1. /\ named' \subseteq named /\ (i \in named' => c[i].nlink > 0)
        /\ disk' = disk /\ files'[i] = 1 /\ c[i].mode
        /\ ~ c[i].upd => disk[i].mode /\ disk[i].nlink = c[i].nlink
    BY DEF PutsAway
  <2>2. CASE /\ core'[i].count # 0
             /\ core'[i].mode = c[i].mode /\ core'[i].nlink = c[i].nlink /\ core'[i].upd = c[i].upd
             /\ pc'[p] \notin ReadPCs
             /\ ino'[p] = i => /\ pc'[p] \in {"itrunc", "iupdate"}
                               /\ core'[i].count = 1 /\ core'[i].lock
                               /\ pc'[p] = "itrunc" => c[i].nlink <= 0
    <3>1. ValidFor(p, i)' /\ ModeFor(p, i)' = c[i].mode /\ LinksFor(p, i)' = c[i].nlink
      BY <2>2 DEF ValidFor, ModeFor, LinksFor
    <3> QED BY <2>1, <2>2, <3>1 DEF DataFor
  <2>3. CASE core'[i] = Absent /\ ~ c[i].upd /\ pc'[p] = "user" /\ ino'[p] = 0
    <3>1. ~ ValidFor(p, i)' /\ ModeFor(p, i)' = disk[i].mode /\ LinksFor(p, i)' = disk[i].nlink
      BY <2>1, <2>3 DEF ValidFor, ModeFor, LinksFor, Absent
    <3>2. ~ core'[i].lock
      BY <2>3 DEF Absent
    <3> QED BY <1>t, <2>1, <2>3, <3>1, <3>2 DEF DataFor
  <2>4. core'[i].count # 0 \/ core'[i] = Absent
    BY <1>0, <1>4
  <2> QED BY <1>t, <1>0, <1>4, <2>2, <2>3 DEF ReadPCs
<1> QED BY <1>1, <1>2, <1>3, <1>5, <1>8, <1>9 DEF Touched

----------------------------------------------------------------------------
(* The actions of a process *)

\* what LocalStep needs of a step
Local(p) == Frame(p) /\ \A x \in File : Touched(p, x) => DataFor(p, x)'

\* a step that touches no inode
LEMMA QuietStep ==
  ASSUME BaseInv, NEW p \in Proc, UNCHANGED <<core, disk, files, named>>,
         OthersStay(p), pc[p] \notin RefPCs, pc'[p] \notin RefPCs
  PROVE  Local(p)
<1>1. \A x \in Ino : ~ Ref(p, x) /\ ~ Ref(p, x)'
  BY DEF Ref
<1>2. \A x \in File : x \in Ino /\ core[x].count \in Nat
  BY DEF BaseInv, Types, Node, File
<1>3. disk'[0].mode
  BY DEF BaseInv, RootIs
<1> QED BY <1>1, <1>2, <1>3 DEF Local, Frame, Touched

\* a step that touches one inode
LEMMA OneStep ==
  ASSUME BaseInv, NEW p \in Proc, NEW i \in File,
         \A x \in Ino \ {i} : /\ core'[x] = core[x] /\ disk'[x] = disk[x]
                              /\ files'[x] = files[x] /\ (x \in named' => x \in named),
         pc[p] \in RefPCs => ino[p] = i, pc'[p] \in RefPCs => ino'[p] = i,
         OthersStay(p),
         core'[i].count = core[i].count + (IF Ref(p, i)' THEN 1 ELSE 0)
                                        - (IF Ref(p, i) THEN 1 ELSE 0),
         Ref(p, i)' /\ ~ Ref(p, i) => ~ core[i].lock,
         core[i].count > (IF Ref(p, i) THEN 1 ELSE 0) => core'[i].mode = core[i].mode,
         Touched(p, i), DataFor(p, i)'
  PROVE  Local(p)
<1>1. \A x \in Ino \ {i} : ~ Ref(p, x) /\ ~ Ref(p, x)'
  BY DEF Ref
<1>2. 0 \in Ino \ {i} /\ \A x \in File : x \in Ino /\ core[x].count \in Nat
  <2>1. 0 \in Ino \ {i}
    BY ConstantsAssumption DEF File, Ino
  <2>2. \A x \in File : x \in Ino
    BY DEF File
  <2> QED BY <2>1, <2>2 DEF BaseInv, Types, Node
<1>3. disk'[0].mode
  BY <1>2 DEF BaseInv, RootIs
<1>4. \A x \in File : core'[x].count = core[x].count + (IF Ref(p, x)' THEN 1 ELSE 0)
                                                     - (IF Ref(p, x) THEN 1 ELSE 0)
  <2> TAKE x \in File
  <2>1. CASE x = i
    BY <2>1
  <2>2. CASE x # i
    <3>1. core'[x] = core[x] /\ core[x].count \in Nat /\ ~ Ref(p, x) /\ ~ Ref(p, x)'
      BY <2>2, <1>1, <1>2
    <3> QED BY <3>1
  <2> QED BY <2>1, <2>2
<1>5. \A x \in Ino : ~ Touched(p, x) => x \in Ino \ {i}
  OBVIOUS
<1>6. \A x \in File : Touched(p, x) => x = i
  BY <1>1, <1>2 DEF Touched
<1>7. pc'[p] \in RefPCs => ino'[p] # 0
  BY <1>2
<1>8. \A x \in File : Ref(p, x)' /\ ~ Ref(p, x) => ~ core[x].lock
  BY <1>6 DEF Touched
<1> QED BY <1>3, <1>4, <1>5, <1>6, <1>7, <1>8 DEF Local, Frame

\* the first three conjuncts of Types name no state function of a process
LEMMA LoopTypes ==
  ASSUME Types, NEW p \in Proc
  PROVE  /\ s_inode \in [Entry -> Ino] /\ s_ninode \in 0 .. MaxFree
         /\ core \in [Ino -> Node] /\ disk \in [Ino -> DiskNode]
         /\ pc \in [Proc -> PCs] /\ ino \in [Proc -> Ino] /\ op \in [Proc -> {"alloc", "open", "unlink"}]
         /\ Woken \in [Proc -> PCs]
BY DEF Types, Woken, PCs

LEMMA SleepOK ==
  ASSUME BaseInv, NEW p \in Proc, IAllocSleep(p)
  PROVE  Local(p) /\ Types' /\ Scanner'
<1>1. pc \in [Proc -> PCs] /\ pc' = [pc EXCEPT ![p] = "ilockSleep"] /\ pc[p] \in {"user", "ilock"}
  BY DEF BaseInv, Types, IAllocSleep, Goto, Begin
<1>2. Local(p)
  BY <1>1, QuietStep DEF IAllocSleep, OthersStay, hist, RefPCs, AlonePCs, ReadPCs
<1>3. Types'
  BY <1>1 DEF BaseInv, Types, IAllocSleep, PCs, spb, hist
<1>4. Scanner'
  BY <1>1 DEF BaseInv, Scanner, IAllocSleep, spb
<1> QED BY <1>2, <1>3, <1>4

LEMMA SearchOK ==
  ASSUME BaseInv, NEW p \in Proc, IAllocSearch(p)
  PROVE  Local(p) /\ Types' /\ Scanner'
<1>1. pc \in [Proc -> PCs] /\ pc' = [pc EXCEPT ![p] = "scan"] /\ pc[p] \in {"user", "ilock"}
  BY DEF BaseInv, Types, IAllocSearch, Goto, Begin
<1>2. Local(p)
  BY <1>1, QuietStep DEF IAllocSearch, OthersStay, hist, RefPCs, AlonePCs, ReadPCs
<1>3. 0 \in 0 .. Blocks - 1
  BY BlocksIs
<1>4. Types'
  BY <1>1, <1>3 DEF BaseInv, Types, IAllocSearch, PCs, spb, hist
<1>5. Scanner'
  BY <1>1 DEF BaseInv, Scanner, IAllocSearch, spb
<1> QED BY <1>2, <1>4, <1>5

----------------------------------------------------------------------------
(* The search of the disk *)

\* how many elements of U are less than i
Rank(U, i) == Cardinality({j \in U : j < i})

\* In a finite set of numbers every place is taken once.
LEMMA RankIs ==
  ASSUME NEW U \in SUBSET Nat, IsFiniteSet(U)
  PROVE  /\ Cardinality(U) \in Nat
         /\ \A i, m \in U : Rank(U, i) = Rank(U, m) => i = m
         /\ \A i \in U : Rank(U, i) \in 0 .. Cardinality(U) - 1
         /\ \A k \in 0 .. Cardinality(U) - 1 : \E i \in U : Rank(U, i) = k
<1> DEFINE n == Cardinality(U)
           T == 0 .. n - 1
           f == [i \in U |-> Rank(U, i)]
<1>1. n \in Nat
  BY FS_CardinalityType
<1> HIDE DEF n
<1>2. IsFiniteSet(T) /\ Cardinality(T) = n
  BY <1>1, FS_Interval
<1>3. ASSUME NEW i \in U PROVE Rank(U, i) \in Nat /\ Rank(U, i) < n
  <2> DEFINE V == {j \in U : j < i}
  <2>1. V \in SUBSET U /\ V # U
    BY DEF V
  <2>2. IsFiniteSet(V) /\ Cardinality(V) <= n /\ (n = Cardinality(V) => U = V)
    BY <2>1, FS_Subset DEF n
  <2>3. Cardinality(V) \in Nat
    BY <2>2, FS_CardinalityType
  <2> QED BY <2>1, <2>2, <2>3, <1>1 DEF Rank
<1>4. ASSUME NEW i \in U, NEW m \in U, i < m PROVE Rank(U, i) < Rank(U, m)
  <2> DEFINE V == {j \in U : j < i}
             W == {j \in U : j < m}
  <2>0. i \in W /\ i \notin V /\ \A j \in V : j \in W
    BY <1>4
  <2>1. V \in SUBSET W /\ V # W /\ W \in SUBSET U
    BY <2>0
  <2>2. IsFiniteSet(W)
    BY <2>1, FS_Subset
  <2>3. IsFiniteSet(V) /\ Cardinality(V) <= Cardinality(W) /\ (Cardinality(W) = Cardinality(V) => W = V)
    BY <2>1, <2>2, FS_Subset
  <2>4. Cardinality(V) \in Nat /\ Cardinality(W) \in Nat
    BY <2>2, <2>3, FS_CardinalityType
  <2> QED BY <2>1, <2>3, <2>4 DEF Rank
<1>5. \A i, m \in U : Rank(U, i) = Rank(U, m) => i = m
  <2> SUFFICES ASSUME NEW i \in U, NEW m \in U, i # m PROVE Rank(U, i) # Rank(U, m)
    OBVIOUS
  <2>1. i < m \/ m < i
    OBVIOUS
  <2> QED BY <2>1, <1>3, <1>4
<1>6. \A i \in U : Rank(U, i) \in T
  BY <1>1, <1>3
<1>7. f \in Injection(U, T)
  BY <1>5, <1>6 DEF Injection, IsInjective
<1>8. f \in Surjection(U, T)
  <2>1. Cardinality(U) = Cardinality(T)
    BY <1>2 DEF n
  <2> QED BY <1>2, <1>7, <2>1, FS_Injection
<1>9. \A k \in T : \E i \in U : Rank(U, i) = k
  BY <1>8 DEF Surjection
<1> QED BY <1>1, <1>5, <1>6, <1>9 DEF n

LEMMA LesserIs ==
  ASSUME NEW a \in Int, NEW b \in Int
  PROVE  Min({a, b}) = IF a <= b THEN a ELSE b
<1>1. \E x \in {a, b} : \A y \in {a, b} : x <= y
  OBVIOUS
<1> QED BY <1>1 DEF Min

\* What a block gives: the unused inodes of the block, each once, and all of
\* them if the list has not become full.
LEMMA FilledIs ==
  ASSUME Types
  PROVE  /\ FilledN \in s_ninode .. MaxFree /\ FilledN \in 0 .. MaxFree
         /\ Filled \in [Entry -> Ino]
         /\ \A k \in 0 .. s_ninode - 1 : Filled[k] = s_inode[k]
         /\ \A k \in s_ninode .. FilledN - 1 : Filled[k] \in Unused(blk)
         /\ \A k, m \in s_ninode .. FilledN - 1 : Filled[k] = Filled[m] => k = m
         /\ FilledN < MaxFree =>
              \A i \in Unused(blk) : \E k \in s_ninode .. FilledN - 1 : Filled[k] = i
<1> DEFINE U == Unused(blk)
           Nth(k) == CHOOSE i \in U : Rank(U, i) = k
           n == Cardinality(U)
           room == MaxFree - s_ninode
           d == IF n <= room THEN n ELSE room
<1>1. MaxFree \in Nat /\ s_ninode \in Nat /\ s_ninode <= MaxFree /\ room \in Nat /\ NIno \in Nat
  BY ConstantsAssumption DEF Types
<1>2. U \in SUBSET Ino /\ Ino \subseteq Nat /\ IsFiniteSet(Ino)
  BY <1>1, FS_Interval DEF Unused, Ino
<1>3. U \in SUBSET Nat /\ IsFiniteSet(U)
  BY <1>2, FS_Subset
<1> HIDE DEF U
<1>4. /\ n \in Nat
      /\ \A i, m \in U : Rank(U, i) = Rank(U, m) => i = m
      /\ \A i \in U : Rank(U, i) \in 0 .. n - 1
      /\ \A k \in 0 .. n - 1 : \E i \in U : Rank(U, i) = k
  BY <1>3, RankIs
<1> HIDE DEF n, room
<1>5. d \in Nat /\ d <= n /\ d <= room /\ (d < room => d = n)
  BY <1>1, <1>4
<1>6. Found = [k \in 0 .. d - 1 |-> Nth(k)]
  <2>1. Min({n, room}) = d
    BY <1>1, <1>4, LesserIs
  <2> QED BY <2>1 DEF Found, Rank, U, n, room
<1> HIDE DEF d
<1>7. \A k \in 0 .. d - 1 : Nth(k) \in U /\ Rank(U, Nth(k)) = k
  <2> TAKE k \in 0 .. d - 1
  <2>1. k \in 0 .. n - 1
    BY <1>4, <1>5
  <2>2. \E i \in U : Rank(U, i) = k
    BY <2>1, <1>4
  <2> QED BY <2>2
<1> HIDE DEF Nth
<1>8. FilledN = s_ninode + d
  <2>1. DOMAIN Found = 0 .. d - 1
    BY <1>6
  <2>2. Cardinality(0 .. d - 1) = d
    BY <1>5, FS_Interval
  <2> QED BY <2>1, <2>2 DEF FilledN
<1>9. Filled = [k \in Entry |-> IF k - s_ninode \in 0 .. d - 1 THEN Nth(k - s_ninode) ELSE s_inode[k]]
  BY <1>6 DEF Filled
<1>10. s_ninode + d \in s_ninode .. MaxFree /\ s_ninode + d \in 0 .. MaxFree
  BY <1>1, <1>5 DEF room
<1>11. Filled \in [Entry -> Ino]
  BY <1>2, <1>7, <1>9 DEF Types
<1>12. \A k \in 0 .. s_ninode - 1 : Filled[k] = s_inode[k]
  <2> TAKE k \in 0 .. s_ninode - 1
  <2>1. k \in Entry /\ ~ (k - s_ninode \in 0 .. d - 1)
    BY <1>1, <1>5 DEF Entry
  <2> QED BY <2>1, <1>9
<1>13. ASSUME NEW k \in s_ninode .. FilledN - 1
       PROVE  k - s_ninode \in 0 .. d - 1 /\ Filled[k] = Nth(k - s_ninode)
  <2>1. k \in Entry /\ k - s_ninode \in 0 .. d - 1
    BY <1>1, <1>5, <1>8, <1>10 DEF Entry
  <2> QED BY <2>1, <1>9
<1>14. ASSUME NEW k \in s_ninode .. FilledN - 1, NEW m \in s_ninode .. FilledN - 1,
              Filled[k] = Filled[m]
       PROVE  k = m
  <2>1. k - s_ninode = m - s_ninode
    BY <1>7, <1>13, <1>14
  <2>2. k \in Int /\ m \in Int
    BY <1>1, <1>5, <1>8
  <2> QED BY <2>1, <2>2, <1>1
<1>15. ASSUME FilledN < MaxFree, NEW i \in U
       PROVE  \E k \in s_ninode .. FilledN - 1 : Filled[k] = i
  <2> DEFINE r == Rank(U, i)
  <2>1. d = n
    BY <1>1, <1>5, <1>8, <1>15 DEF room
  <2>2. r \in 0 .. d - 1
    BY <2>1, <1>4
  <2>3. Nth(r) = i
    BY <2>2, <1>4, <1>7
  <2> HIDE DEF r
  <2>4. s_ninode + r \in s_ninode .. FilledN - 1 /\ (s_ninode + r) - s_ninode = r
    BY <2>2, <1>1, <1>5, <1>8
  <2>5. Filled[s_ninode + r] = i
    BY <2>3, <2>4, <1>13
  <2> QED BY <2>4, <2>5
<1>16. \A k \in s_ninode .. FilledN - 1 : Filled[k] \in U
  BY <1>7, <1>13
<1> QED BY <1>8, <1>10, <1>11, <1>12, <1>14, <1>15, <1>16 DEF U

----------------------------------------------------------------------------
(* The other actions *)

LEMMA ScannerStays ==
  ASSUME BaseInv, NEW p \in Proc, s_ilock' = s_ilock,
         \A q \in Proc \ {p} : pc'[q] = pc[q],
         pc[p] # "scan", pc'[p] \notin {"scan", "ilockSleep"}
  PROVE  Scanner'
BY DEF BaseInv, Scanner

LEMMA ScannerEnds ==
  ASSUME BaseInv, NEW p \in Proc, s_ilock' = FALSE, pc[p] = "scan",
         \A q \in Proc \ {p} : pc'[q] = Woken[q],
         pc'[p] \notin {"scan", "ilockSleep"}
  PROVE  Scanner'
<1>1. \A q \in Proc \ {p} : pc'[q] # "scan" /\ pc'[q] # "ilockSleep"
  BY DEF BaseInv, Scanner, Woken
<1> QED BY <1>1 DEF Scanner

LEMMA TakeGoes ==
  ASSUME NEW p \in Proc, NEW arr, NEW n, NEW c, NEW w \in [Proc -> PCs], Take(p, arr, n, c, w)
  PROVE  /\ \A q \in Proc \ {p} : pc'[q] = w[q]
         /\ pc'[p] \in {"wild", "igetSleep", "user", "iread"}
BY DEF Take

LEMMA TakeOK ==
  ASSUME BaseInv, Modes, Names, NEW p \in Proc, IAllocTake(p)
  PROVE  Local(p) /\ Types' /\ Scanner'
<1> USE DEF IAllocTake
<1>t. Types /\ pc[p] \in {"user", "ilock"}
  BY DEF BaseInv, Begin
<1>1. \A x \in Ino : ~ Ref(p, x)
  BY <1>t DEF Ref, RefPCs, AlonePCs, ReadPCs
<1>2. Putting(p, core) /\ Waking(p, pc)
  BY <1>t, <1>1 DEF Putting, Waking, Types
<1>3. /\ Local(p)
      /\ s_inode' \in [Entry -> Ino] /\ s_ninode' \in 0 .. MaxFree
      /\ core' \in [Ino -> Node] /\ files' \in [Ino -> Nat]
      /\ pc' \in [Proc -> PCs] /\ ino' \in [Proc -> Ino]
      /\ op' \in [Proc -> {"alloc", "open", "unlink"}]
  <2>1. /\ s_inode \in [Entry -> Ino] /\ s_ninode \in 0 .. MaxFree
        /\ core \in [Ino -> Node] /\ pc \in [Proc -> PCs]
    BY <1>t, LoopTypes
  <2> HIDE DEF IAllocTake
  <2>2. Take(p, s_inode, s_ninode, core, pc)
    BY DEF IAllocTake
  <2> QED BY <2>1, <2>2, <1>2, TakeStep DEF Local
<1>4. Types'
  BY <1>t, <1>3 DEF Types
<1>5. Scanner'
  <2>1. pc \in [Proc -> PCs]
    BY <1>t, LoopTypes
  <2> QED BY <1>t, <2>1, TakeGoes, ScannerStays
<1> QED BY <1>3, <1>4, <1>5

LEMMA BlockOK ==
  ASSUME BaseInv, NEW p \in Proc, ScanBlock(p)
  PROVE  Local(p) /\ Types' /\ Scanner'
<1> USE DEF ScanBlock
<1>1. Local(p)
  BY QuietStep DEF OthersStay, procs, hist, RefPCs, AlonePCs, ReadPCs
<1>2. Types'
  <2>1. Types /\ FilledN \in 0 .. MaxFree /\ Filled \in [Entry -> Ino]
    BY FilledIs DEF BaseInv
  <2>2. blk + 1 \in 0 .. Blocks - 1
    BY <2>1, BlocksIs DEF Types, Last
  <2> QED BY <2>1, <2>2 DEF Types, procs, hist
<1>3. Scanner'
  BY DEF procs, BaseInv, Scanner
<1> QED BY <1>1, <1>2, <1>3

LEMMA NoneOK ==
  ASSUME BaseInv, NEW p \in Proc, ScanNone(p)
  PROVE  Local(p) /\ Types' /\ Scanner'
<1> USE DEF ScanNone
<1>1. Types /\ Woken \in [Proc -> PCs]
  BY LoopTypes DEF BaseInv
<1>2. /\ pc' \in [Proc -> PCs] /\ pc'[p] = "user"
      /\ \A q \in Proc \ {p} : pc'[q] = Woken[q]
  BY <1>1 DEF PCs
<1>3. Local(p)
  <2>1. OthersStay(p)
    BY <1>2 DEF OthersStay, Woken
  <2> QED BY <1>2, <2>1, QuietStep DEF RefPCs, AlonePCs, ReadPCs
<1>4. Types'
  <2>1. blk' \in 0 .. Blocks - 1
    BY BlocksIs
  <2> QED BY <1>1, <1>2, <2>1 DEF Types
<1>5. Scanner'
  BY <1>2, ScannerEnds
<1> QED BY <1>3, <1>4, <1>5

LEMMA ScanTakeOK ==
  ASSUME BaseInv, Modes, Names, NEW p \in Proc, ScanTake(p)
  PROVE  Local(p) /\ Types' /\ Scanner'
<1> USE DEF ScanTake
<1>1. /\ Types /\ Woken \in [Proc -> PCs] /\ core \in [Ino -> Node]
      /\ Filled \in [Entry -> Ino] /\ FilledN \in 0 .. MaxFree
  BY LoopTypes, FilledIs DEF BaseInv
<1>2. \A x \in Ino : ~ Ref(p, x)
  BY DEF Ref, RefPCs, AlonePCs, ReadPCs
<1>3. Putting(p, core) /\ Waking(p, Woken)
  BY <1>1, <1>2 DEF Putting, Waking, Types, Woken
<1>4. Take(p, Filled, FilledN, core, Woken)
  OBVIOUS
<1>5. /\ Local(p)
      /\ s_inode' \in [Entry -> Ino] /\ s_ninode' \in 0 .. MaxFree
      /\ core' \in [Ino -> Node] /\ files' \in [Ino -> Nat]
      /\ pc' \in [Proc -> PCs] /\ ino' \in [Proc -> Ino]
      /\ op' \in [Proc -> {"alloc", "open", "unlink"}]
  <2> HIDE DEF ScanTake
  <2> QED BY <1>1, <1>3, <1>4, TakeStep DEF Local
<1>6. Types'
  <2>1. blk' \in 0 .. Blocks - 1
    BY BlocksIs
  <2> QED BY <1>1, <1>5, <2>1 DEF Types
<1>7. Scanner'
  <2>1. /\ \A q \in Proc \ {p} : pc'[q] = Woken[q]
        /\ pc'[p] \in {"wild", "igetSleep", "user", "iread"}
    BY <1>1, <1>4, TakeGoes
  <2> QED BY <2>1, ScannerEnds
<1> QED BY <1>5, <1>6, <1>7

LEMMA SyncOK ==
  ASSUME BaseInv, NEW p \in Proc, Update(p) \/ UpdateSector0(p) \/ UpdateSector1(p)
  PROVE  Local(p) /\ Types' /\ Scanner'
<1>1. /\ Types /\ UNCHANGED <<s_inode, s_ninode, s_ilock, core, disk, named, ino, op, blk, hist>>
      /\ pc[p] \in {"user", "sync0", "sync1"}
      /\ \E l \in {"sync0", "sync1", "sync2"} : pc' = [pc EXCEPT ![p] = l]
  BY DEF Update, UpdateSector0, UpdateSector1, Goto, BaseInv, spb
<1>2. /\ pc' \in [Proc -> PCs] /\ pc'[p] \in {"sync0", "sync1", "sync2"}
      /\ \A q \in Proc \ {p} : pc'[q] = pc[q]
  BY <1>1 DEF Types, PCs
<1>3. Local(p)
  BY <1>1, <1>2, QuietStep DEF OthersStay, RefPCs, AlonePCs, ReadPCs, hist
<1>4. /\ s_fmod' \in BOOLEAN /\ updlock' \in BOOLEAN
      /\ saved' \in [ninode : 0 .. MaxFree, inode : [Entry -> Ino], fmod : BOOLEAN]
  <2>1. CASE Update(p)
    BY <1>1, <2>1 DEF Update, Types
  <2>2. CASE UpdateSector0(p)
    <3> DEFINE a == [k \in Entry |-> IF k < Split THEN s_inode[k] ELSE saved.inode[k]]
    <3>1. a \in [Entry -> Ino]
      BY <1>1 DEF Types
    <3>2. saved' = [[saved EXCEPT !.ninode = s_ninode] EXCEPT !.inode = a]
      BY <1>1, <2>2 DEF UpdateSector0, Types
    <3> HIDE DEF a
    <3> QED BY <1>1, <2>2, <3>1, <3>2 DEF UpdateSector0, Types, spb
  <2>3. CASE UpdateSector1(p)
    <3> DEFINE a == [k \in Entry |-> IF k < Split THEN saved.inode[k] ELSE s_inode[k]]
    <3>1. a \in [Entry -> Ino]
      BY <1>1 DEF Types
    <3>2. saved' = [[saved EXCEPT !.fmod = s_fmod] EXCEPT !.inode = a]
      BY <1>1, <2>3 DEF UpdateSector1, Types
    <3> HIDE DEF a
    <3> QED BY <1>1, <2>3, <3>1, <3>2 DEF UpdateSector1, Types, spb
  <2> QED BY <2>1, <2>2, <2>3
<1>5. Types'
  BY <1>1, <1>2, <1>4 DEF Types, hist
<1>6. Scanner'
  BY <1>1, <1>2, ScannerStays
<1> QED BY <1>3, <1>5, <1>6

\* the inode of a process that has one
LEMMA Mine ==
  ASSUME BaseInv, NEW p \in Proc, pc[p] \in RefPCs
  PROVE  /\ ino[p] \in File /\ ino[p] \in Ino /\ Ref(p, ino[p])
         /\ core[ino[p]] \in Node /\ disk[ino[p]] \in DiskNode /\ files[ino[p]] \in Nat
         /\ pc[p] \in AlonePCs => core[ino[p]].count = 1 /\ core[ino[p]].lock
<1>1. ino[p] \in Ino /\ ino[p] # 0
  BY DEF BaseInv, Types, RootIs
<1> QED BY <1>1 DEF BaseInv, Types, Alone, Ref, File

LEMMA CleanOK ==
  ASSUME BaseInv, Modes, Names, NEW p \in Proc, IAllocDone(p)
  PROVE  Local(p) /\ Types' /\ Scanner'
<1>0. PICK i \in File : i = ino[p]
  BY Mine DEF IAllocDone, RefPCs, AlonePCs, ReadPCs
<1>1. /\ pc[p] = "iread" /\ ~ disk[i].mode
      /\ core' = [core EXCEPT ![i] = [mode |-> TRUE, nlink |-> 1, count |-> 1,
                                      lock |-> TRUE, upd |-> TRUE]]
      /\ files' = [files EXCEPT ![i] = @ + 1]
      /\ s_fmod' = TRUE
      /\ pc' = [pc EXCEPT ![p] = "made"]
      /\ UNCHANGED <<s_inode, s_ninode, s_ilock, saved, updlock, disk, named, ino, op, blk, late, crashes>>
  BY <1>0 DEF IAllocDone, Goto
<1>2. Types
  BY DEF BaseInv
<1>3. /\ i \in File /\ i \in Ino /\ Ref(p, i) /\ core[i].count = 1 /\ files[i] \in Nat
      /\ core[i] \in Node
  BY <1>0, <1>1, Mine DEF RefPCs, AlonePCs, ReadPCs
<1>4. DataFor(p, i)
  BY <1>3, DataHere
<1>5. [mode |-> TRUE, nlink |-> 1, count |-> 1, lock |-> TRUE, upd |-> TRUE] \in Node
  BY DEF Node
<1>6. /\ core' \in [Ino -> Node] /\ pc' \in [Proc -> PCs] /\ files' \in [Ino -> Nat]
      /\ pc'[p] = "made" /\ \A q \in Proc \ {p} : pc'[q] = pc[q]
      /\ core'[i].count = 1 /\ core'[i].lock /\ core'[i].mode /\ core'[i].nlink = 1
      /\ core'[i].upd
  BY <1>1, <1>2, <1>3, <1>5 DEF Types, PCs
<1>7. files[i] = 0 /\ i \notin named /\ files'[i] = 1
  <2>1. ~ ModeFor(p, i)
    BY <1>0, <1>1, <1>2 DEF ModeFor, ValidFor, ReadPCs
  <2>2. files[i] = 0 /\ i \notin named
    BY <2>1, <1>4 DEF DataFor
  <2>3. files'[i] = files[i] + 1
    BY <1>1, <1>2, <1>3 DEF Types
  <2> QED BY <2>2, <2>3
<1>8. DataFor(p, i)'
  <2>1. ValidFor(p, i)' /\ ModeFor(p, i)'
    BY <1>6 DEF ValidFor, ModeFor, ReadPCs
  <2> QED BY <2>1, <1>1, <1>6, <1>7 DEF DataFor
<1>9. Ref(p, i)'
  BY <1>0, <1>1, <1>3, <1>6 DEF Ref, RefPCs, AlonePCs
<1>10. Local(p)
  <2>1. \A x \in Ino \ {i} : /\ core'[x] = core[x] /\ disk'[x] = disk[x] /\ files'[x] = files[x]
                             /\ x \in named' => x \in named
    BY <1>1, <1>2 DEF Types
  <2>2. OthersStay(p) /\ ino[p] = i /\ ino'[p] = i
    BY <1>0, <1>1, <1>6 DEF OthersStay
  <2>3. core'[i].count = core[i].count + 1 - 1
    BY <1>3, <1>6
  <2>4. core[i].count > 1 => core'[i].mode = core[i].mode
    BY <1>3
  <2> QED BY <2>1, <2>2, <2>3, <2>4, <1>3, <1>8, <1>9, OneStep DEF Touched
<1>11. Types'
  BY <1>1, <1>2, <1>6 DEF Types
<1>12. Scanner'
  BY <1>1, <1>6, ScannerStays
<1> QED BY <1>10, <1>11, <1>12

LEMMA MadeOK ==
  ASSUME BaseInv, Modes, Names, NEW p \in Proc, MakNodeDone(p)
  PROVE  Local(p) /\ Types' /\ Scanner'
<1>0. PICK i \in File : i = ino[p]
  BY Mine DEF MakNodeDone, RefPCs, AlonePCs, ReadPCs
<1>1. /\ pc[p] = "made" /\ named' = named \cup {i}
      /\ core' = [core EXCEPT ![i].lock = FALSE]
      /\ op' = [op EXCEPT ![p] = "open"] /\ pc' = [pc EXCEPT ![p] = "open"]
      /\ UNCHANGED <<spb, saved, updlock, disk, ino, blk, hist>>
  BY <1>0 DEF MakNodeDone, Goto
<1>2. Types
  BY DEF BaseInv
<1>3. /\ i \in File /\ i \in Ino /\ Ref(p, i) /\ core[i].count = 1
      /\ core[i] \in Node
  BY <1>0, <1>1, Mine DEF RefPCs, AlonePCs
<1>4. DataFor(p, i)
  BY <1>3, DataHere
<1>5. core[i].mode /\ core[i].nlink > 0
  BY <1>0, <1>1, <1>4 DEF DataFor
<1>6. /\ [core[i] EXCEPT !.lock = FALSE] \in Node
      /\ core'[i] = [core[i] EXCEPT !.lock = FALSE]
  BY <1>1, <1>2, <1>3 DEF Types, Node
<1>7. /\ core' \in [Ino -> Node] /\ pc' \in [Proc -> PCs]
      /\ op' \in [Proc -> {"alloc", "open", "unlink"}]
      /\ pc'[p] = "open" /\ \A q \in Proc \ {p} : pc'[q] = pc[q] /\ op'[q] = op[q]
  BY <1>1, <1>2, <1>3, <1>6 DEF Types, PCs
<1>8. /\ core'[i].count = 1 /\ core'[i].mode = core[i].mode /\ core'[i].nlink = core[i].nlink
      /\ core'[i].upd = core[i].upd
  BY <1>3, <1>6 DEF Node
<1>9. DataFor(p, i)'
  <2>1. ValidFor(p, i) /\ ValidFor(p, i)'
    BY <1>1, <1>3, <1>7, <1>8 DEF ValidFor, ReadPCs
  <2> QED BY <2>1, <1>1, <1>4, <1>5, <1>7, <1>8 DEF DataFor, ModeFor, LinksFor, AlonePCs, ReadPCs, hist
<1>10. Ref(p, i)'
  BY <1>0, <1>1, <1>3, <1>7 DEF Ref, RefPCs
<1>11. Local(p)
  <2>1. \A x \in Ino \ {i} : /\ core'[x] = core[x] /\ disk'[x] = disk[x] /\ files'[x] = files[x]
                             /\ x \in named' => x \in named
    BY <1>1, <1>2 DEF Types, hist
  <2>2. OthersStay(p) /\ ino[p] = i /\ ino'[p] = i
    BY <1>0, <1>1, <1>7 DEF OthersStay
  <2>3. core'[i].count = core[i].count + 1 - 1
    BY <1>3, <1>8
  <2> QED BY <2>1, <2>2, <2>3, <1>3, <1>8, <1>9, <1>10, OneStep DEF Touched
<1>12. Types'
  BY <1>1, <1>2, <1>3, <1>7 DEF Types, spb, hist
<1>13. Scanner'
  BY <1>1, <1>7, ScannerStays DEF spb
<1> QED BY <1>11, <1>12, <1>13

\* IFree leaves the list as it is or puts the inode on it.
LEMMA FreeIs ==
  ASSUME Types, NEW i \in Ino, IFree(i)
  PROVE  /\ s_inode' \in [Entry -> Ino] /\ s_ninode' \in 0 .. MaxFree /\ s_ilock' = s_ilock
         /\ s_fmod' \in BOOLEAN
         /\ \/ s_inode' = s_inode /\ s_ninode' = s_ninode
            \/ /\ ~ s_ilock /\ s_ninode \in Entry /\ s_ninode' = s_ninode + 1
               /\ s_inode' = [s_inode EXCEPT ![s_ninode] = i]
<1>1. MaxFree \in Nat
  BY ConstantsAssumption
<1>2. CASE UNCHANGED spb
  BY <1>2 DEF Types, spb
<1>3. CASE /\ ~ s_ilock /\ ~ (s_ninode >= MaxFree)
           /\ s_inode' = [s_inode EXCEPT ![s_ninode] = i] /\ s_ninode' = s_ninode + 1
           /\ s_fmod' = TRUE /\ UNCHANGED s_ilock
  <2>1. s_ninode \in Entry /\ s_ninode + 1 \in 0 .. MaxFree
    BY <1>1, <1>3 DEF Types, Entry
  <2> QED BY <1>3, <2>1 DEF Types
<1> QED BY <1>2, <1>3 DEF IFree

LEMMA TruncOK ==
  ASSUME BaseInv, Modes, Names, NEW p \in Proc, ITruncDone(p)
  PROVE  Local(p) /\ Types' /\ Scanner'
<1>0. PICK i \in File : i = ino[p]
  BY Mine DEF ITruncDone, RefPCs, AlonePCs, ReadPCs
<1>1. /\ pc[p] = "itrunc" /\ IFree(i)
      /\ core' = [core EXCEPT ![i].mode = FALSE, ![i].nlink = 1, ![i].upd = TRUE]
      /\ files' = [files EXCEPT ![i] = @ - 1]
      /\ pc' = [pc EXCEPT ![p] = "iupdate"]
      /\ UNCHANGED <<saved, updlock, disk, named, ino, op, blk, late, crashes>>
  BY <1>0 DEF ITruncDone, Goto
<1>2. Types
  BY DEF BaseInv
<1>3. /\ i \in File /\ i \in Ino /\ Ref(p, i) /\ core[i].count = 1 /\ core[i].lock /\ files[i] \in Nat
      /\ core[i] \in Node
  BY <1>0, <1>1, Mine DEF RefPCs, AlonePCs
<1>4. DataFor(p, i)
  BY <1>3, DataHere
<1>5. core[i].mode /\ ~ (core[i].nlink > 0)
  BY <1>0, <1>1, <1>3, <1>4 DEF DataFor, Node
<1>6. /\ s_inode' \in [Entry -> Ino] /\ s_ninode' \in 0 .. MaxFree /\ s_ilock' = s_ilock
      /\ s_fmod' \in BOOLEAN
  BY <1>1, <1>2, <1>3, FreeIs
<1>7. /\ [[[core[i] EXCEPT !.mode = FALSE] EXCEPT !.nlink = 1] EXCEPT !.upd = TRUE] \in Node
      /\ core'[i] = [[[core[i] EXCEPT !.mode = FALSE] EXCEPT !.nlink = 1] EXCEPT !.upd = TRUE]
  <2>1. [[[core[i] EXCEPT !.mode = FALSE] EXCEPT !.nlink = 1] EXCEPT !.upd = TRUE] \in Node
    <3>1. \A n \in Node : [n EXCEPT !.mode = FALSE] \in Node
      BY DEF Node
    <3>2. \A n \in Node : [n EXCEPT !.nlink = 1] \in Node
      BY DEF Node
    <3>3. \A n \in Node : [n EXCEPT !.upd = TRUE] \in Node
      BY DEF Node
    <3> QED BY <1>3, <3>1, <3>2, <3>3
  <2>2. core'[i] = [[[core[i] EXCEPT !.mode = FALSE] EXCEPT !.nlink = 1] EXCEPT !.upd = TRUE]
    BY <1>1, <1>2, <1>3 DEF Types
  <2> QED BY <2>1, <2>2
<1>8. /\ core'[i].count = 1 /\ core'[i].lock /\ ~ core'[i].mode /\ core'[i].upd
  BY <1>3, <1>7 DEF Node
<1>9. ValidFor(p, i) /\ files[i] = 1 /\ i \notin named
  <2>1. ValidFor(p, i)
    BY <1>1, <1>3 DEF ValidFor, ReadPCs
  <2> QED BY <2>1, <1>4, <1>5 DEF DataFor, ModeFor, LinksFor
<1>10. /\ core' \in [Ino -> Node] /\ pc' \in [Proc -> PCs] /\ files' \in [Ino -> Nat] /\ files'[i] = 0
       /\ pc'[p] = "iupdate" /\ \A q \in Proc \ {p} : pc'[q] = pc[q]
  BY <1>1, <1>2, <1>3, <1>7, <1>9 DEF Types, PCs
<1>11. DataFor(p, i)'
  <2>1. ValidFor(p, i)' /\ ~ ModeFor(p, i)'
    BY <1>8, <1>10 DEF ValidFor, ModeFor, ReadPCs
  <2> QED BY <2>1, <1>1, <1>8, <1>9, <1>10 DEF DataFor
<1>12. Ref(p, i)'
  BY <1>0, <1>1, <1>3, <1>10 DEF Ref, RefPCs, AlonePCs
<1>13. Local(p)
  <2>1. \A x \in Ino \ {i} : /\ core'[x] = core[x] /\ disk'[x] = disk[x] /\ files'[x] = files[x]
                             /\ x \in named' => x \in named
    BY <1>1, <1>2 DEF Types
  <2>2. OthersStay(p) /\ ino[p] = i /\ ino'[p] = i
    BY <1>0, <1>1, <1>10 DEF OthersStay
  <2>3. core'[i].count = core[i].count + 1 - 1
    BY <1>3, <1>8
  <2>4. core[i].count > 1 => core'[i].mode = core[i].mode
    BY <1>3
  <2> QED BY <2>1, <2>2, <2>3, <2>4, <1>3, <1>11, <1>12, OneStep DEF Touched
<1>14. Types'
  BY <1>1, <1>2, <1>6, <1>10 DEF Types
<1>15. Scanner'
  BY <1>1, <1>6, <1>10, ScannerStays
<1> QED BY <1>13, <1>14, <1>15

LEMMA WrittenOK ==
  ASSUME BaseInv, Modes, Names, NEW p \in Proc, IUpdateDone(p)
  PROVE  Local(p) /\ Types' /\ Scanner'
<1>0. PICK i \in File : i = ino[p]
  BY Mine DEF IUpdateDone, RefPCs, AlonePCs
<1> DEFINE c == [core EXCEPT ![i] = Absent]
<1>1. /\ pc[p] = "iupdate"
      /\ disk' = [disk EXCEPT ![i] = [mode |-> core[i].mode, nlink |-> core[i].nlink]]
      /\ late' = IF core[i].mode \/ ~ s_ilock THEN late ELSE late \cup {i}
      /\ \/ Take(p, s_inode, s_ninode, c, pc) /\ UNCHANGED <<s_ilock, s_fmod>>
         \/ /\ core' = c
            /\ pc' = [pc EXCEPT ![p] = "user"] /\ ino' = [ino EXCEPT ![p] = 0]
            /\ UNCHANGED <<s_inode, s_ninode, s_ilock, s_fmod, op, files>>
      /\ UNCHANGED <<saved, updlock, named, blk, crashes>>
  BY <1>0 DEF IUpdateDone, Goto, spb
<1>2. Types
  BY DEF BaseInv
<1>3. /\ i \in Ino /\ Ref(p, i) /\ core[i].count = 1 /\ core[i].lock
      /\ core[i] \in Node /\ disk[i] \in DiskNode
  BY <1>0, <1>1, Mine DEF RefPCs, AlonePCs
<1>4. DataFor(p, i)
  BY <1>3, DataHere
<1>5. c \in [Ino -> Node] /\ c[i] = Absent /\ \A x \in Ino \ {i} : c[x] = core[x]
  BY <1>2, <1>3, NewNode DEF Types
<1> HIDE DEF c
<1>6. /\ disk' \in [Ino -> DiskNode] /\ \A x \in Ino \ {i} : disk'[x] = disk[x]
      /\ disk'[i].mode = core[i].mode /\ disk'[i].nlink = core[i].nlink
  <2>1. [mode |-> core[i].mode, nlink |-> core[i].nlink] \in DiskNode
    BY <1>3 DEF Node, DiskNode
  <2>2. disk'[i] = [mode |-> core[i].mode, nlink |-> core[i].nlink]
    BY <1>1, <1>2, <1>3 DEF Types
  <2> QED BY <1>1, <1>2, <1>3, <2>1, <2>2 DEF Types
<1>7. ValidFor(p, i) /\ ModeFor(p, i) = core[i].mode /\ LinksFor(p, i) = core[i].nlink
  BY <1>1, <1>3 DEF ValidFor, ModeFor, LinksFor, ReadPCs
<1>8. late' \subseteq File
  BY <1>1, <1>2 DEF Types
<1>9. CASE Take(p, s_inode, s_ninode, c, pc) /\ UNCHANGED <<s_ilock, s_fmod>>
  <2>1. \A x \in Ino : Ref(p, x) <=> x = i
    BY <1>0, <1>3 DEF Ref
  <2>2. Putting(p, c)
    BY <1>1, <1>3, <1>5, <1>6, <1>7, <2>1 DEF Putting
  <2>3. Waking(p, pc) /\ pc \in [Proc -> PCs] /\ s_inode \in [Entry -> Ino] /\ s_ninode \in 0 .. MaxFree
    BY <1>2 DEF Waking, Types
  <2>4. /\ Local(p)
        /\ s_inode' \in [Entry -> Ino] /\ s_ninode' \in 0 .. MaxFree
        /\ core' \in [Ino -> Node] /\ files' \in [Ino -> Nat]
        /\ pc' \in [Proc -> PCs] /\ ino' \in [Proc -> Ino]
        /\ op' \in [Proc -> {"alloc", "open", "unlink"}]
    BY <1>5, <1>9, <2>2, <2>3, TakeStep DEF Local
  <2>5. Types'
    BY <1>1, <1>2, <1>6, <1>8, <1>9, <2>4 DEF Types
  <2>6. Scanner'
    <3>1. /\ \A q \in Proc \ {p} : pc'[q] = pc[q]
          /\ pc'[p] \in {"wild", "igetSleep", "user", "iread"}
      BY <1>9, <2>3, TakeGoes
    <3> QED BY <1>1, <1>9, <3>1, ScannerStays
  <2> QED BY <2>4, <2>5, <2>6
<1>10. CASE /\ core' = c
            /\ pc' = [pc EXCEPT ![p] = "user"] /\ ino' = [ino EXCEPT ![p] = 0]
            /\ UNCHANGED <<s_inode, s_ninode, s_ilock, s_fmod, op, files>>
  <2>1. /\ pc' \in [Proc -> PCs] /\ pc'[p] = "user" /\ \A q \in Proc \ {p} : pc'[q] = pc[q]
        /\ ino' \in [Proc -> Ino] /\ ino'[p] = 0 /\ \A q \in Proc \ {p} : ino'[q] = ino[q]
    <3>1. 0 \in Ino
      BY ConstantsAssumption DEF Ino
    <3> QED BY <1>2, <1>10, <3>1 DEF Types, PCs
  <2>2. ~ Ref(p, i)' /\ core'[i].count = 0 /\ ~ core'[i].lock
    BY <1>5, <1>10, <2>1 DEF Ref, RefPCs, AlonePCs, ReadPCs, Absent
  <2>3. DataFor(p, i)'
    <3>1. ~ ValidFor(p, i)' /\ ModeFor(p, i)' = ModeFor(p, i) /\ LinksFor(p, i)' = LinksFor(p, i)
      BY <1>6, <1>7, <2>2 DEF ValidFor, ModeFor, LinksFor
    <3>2. ino'[p] # i
      BY <2>1 DEF File
    <3> QED BY <1>1, <1>4, <1>10, <2>2, <3>1, <3>2 DEF DataFor
  <2>4. Local(p)
    <3>1. \A x \in Ino \ {i} : /\ core'[x] = core[x] /\ disk'[x] = disk[x] /\ files'[x] = files[x]
                               /\ x \in named' => x \in named
      BY <1>1, <1>5, <1>6, <1>10
    <3>2. OthersStay(p)
      BY <1>10, <2>1 DEF OthersStay
    <3>3. core'[i].count = core[i].count + 0 - 1
      BY <1>3, <2>2
    <3>4. core[i].count > 1 => core'[i].mode = core[i].mode
      BY <1>3
    <3>5. pc'[p] \notin RefPCs /\ ino[p] = i
      BY <1>0, <2>1 DEF RefPCs, AlonePCs, ReadPCs
    <3> QED BY <1>3, <2>2, <2>3, <3>1, <3>2, <3>3, <3>4, <3>5, OneStep DEF Touched
  <2>5. Types'
    BY <1>1, <1>2, <1>5, <1>6, <1>8, <1>10, <2>1 DEF Types
  <2>6. Scanner'
    BY <1>1, <1>10, <2>1, ScannerStays
  <2> QED BY <2>4, <2>5, <2>6
<1> QED BY <1>1, <1>9, <1>10

LEMMA AgainOK ==
  ASSUME BaseInv, Modes, Names, NEW p \in Proc, IAllocAgain(p)
  PROVE  Local(p) /\ Types' /\ Scanner'
<1>0. PICK i \in File : i = ino[p]
  BY Mine DEF IAllocAgain, RefPCs, AlonePCs, ReadPCs
<1>1. /\ pc[p] = "iread" /\ disk[i].mode
      /\ \/ /\ Take(p, s_inode, s_ninode, [core EXCEPT ![i] = Absent], pc)
            /\ UNCHANGED <<s_ilock, s_fmod>>
         \/ /\ disk[i].nlink <= 0
            /\ IPut(p, i, [core EXCEPT ![i] = FromDisk(i)])
            /\ UNCHANGED <<s_inode, s_ninode, s_ilock, s_fmod, op, files>>
      /\ UNCHANGED <<saved, updlock, disk, named, blk, late, crashes>>
  BY <1>0 DEF IAllocAgain, spb
<1>2. Types
  BY DEF BaseInv
<1>3. /\ i \in Ino /\ Ref(p, i) /\ core[i].count = 1 /\ core[i].lock
      /\ core[i] \in Node /\ disk[i] \in DiskNode
  BY <1>0, <1>1, Mine DEF RefPCs, AlonePCs, ReadPCs
<1>4. DataFor(p, i)
  BY <1>3, DataHere
<1>5. ~ ValidFor(p, i) /\ ModeFor(p, i) = disk[i].mode /\ LinksFor(p, i) = disk[i].nlink
  BY <1>0, <1>1 DEF ValidFor, ModeFor, LinksFor, ReadPCs
<1>6. /\ pc \in [Proc -> PCs] /\ s_inode \in [Entry -> Ino] /\ s_ninode \in 0 .. MaxFree
      /\ core \in [Ino -> Node] /\ op \in [Proc -> {"alloc", "open", "unlink"}]
  BY <1>2, LoopTypes
<1>7. CASE /\ Take(p, s_inode, s_ninode, [core EXCEPT ![i] = Absent], pc)
           /\ UNCHANGED <<s_ilock, s_fmod>>
  <2> DEFINE c == [core EXCEPT ![i] = Absent]
  <2>0. Take(p, s_inode, s_ninode, c, pc)
    BY <1>7
  <2>1. c \in [Ino -> Node] /\ c[i] = Absent /\ \A x \in Ino \ {i} : c[x] = core[x]
    BY <1>3, <1>6, NewNode
  <2> HIDE DEF c
  <2>2. \A x \in Ino : Ref(p, x) <=> x = i
    BY <1>0, <1>3 DEF Ref
  <2>3. Putting(p, c) /\ Waking(p, pc)
    BY <1>1, <1>2, <1>3, <1>5, <2>1, <2>2 DEF Putting, Waking, Types
  <2>4. /\ Local(p)
        /\ s_inode' \in [Entry -> Ino] /\ s_ninode' \in 0 .. MaxFree
        /\ core' \in [Ino -> Node] /\ files' \in [Ino -> Nat]
        /\ pc' \in [Proc -> PCs] /\ ino' \in [Proc -> Ino]
        /\ op' \in [Proc -> {"alloc", "open", "unlink"}]
    BY <1>6, <2>0, <2>1, <2>3, TakeStep DEF Local
  <2>5. Types'
    BY <1>1, <1>2, <1>7, <2>4 DEF Types
  <2>6. Scanner'
    <3>1. /\ \A q \in Proc \ {p} : pc'[q] = pc[q]
          /\ pc'[p] \in {"wild", "igetSleep", "user", "iread"}
      BY <1>6, <2>0, TakeGoes
    <3> QED BY <1>1, <1>7, <3>1, ScannerStays
  <2> QED BY <2>4, <2>5, <2>6
<1>8. CASE /\ disk[i].nlink <= 0
           /\ IPut(p, i, [core EXCEPT ![i] = FromDisk(i)])
           /\ UNCHANGED <<s_inode, s_ninode, s_ilock, s_fmod, op, files>>
  <2> DEFINE c == [core EXCEPT ![i] = FromDisk(i)]
  <2>0. IPut(p, i, c)
    BY <1>8
  <2>1. /\ FromDisk(i) \in Node /\ FromDisk(i).count = 1 /\ FromDisk(i).mode = disk[i].mode
        /\ FromDisk(i).nlink = disk[i].nlink
    BY <1>3 DEF FromDisk, Node, DiskNode
  <2>2. c \in [Ino -> Node] /\ c[i] = FromDisk(i) /\ \A x \in Ino \ {i} : c[x] = core[x]
    BY <1>3, <1>6, <2>1
  <2> HIDE DEF c
  <2>3. files[i] = 1 /\ i \notin named
    <3>1. ~ (disk[i].nlink > 0)
      BY <1>3, <1>8 DEF DiskNode
    <3> QED BY <1>1, <1>4, <1>5, <3>1 DEF DataFor
  <2>4. PutsAway(p, i, c)
    <3>1. c[i].mode /\ c[i].count = core[i].count /\ disk[i].nlink = c[i].nlink
      BY <1>1, <1>3, <2>1, <2>2
    <3>2. ~ (core[i].count > 1)
      BY <1>3
    <3>3. \A q \in Proc \ {p} : op'[q] = op[q]
      BY <1>8
    <3> QED BY <1>1, <1>3, <1>8, <2>2, <2>3, <3>1, <3>2, <3>3 DEF PutsAway
  <2>5. Local(p) /\ core' \in [Ino -> Node] /\ pc' \in [Proc -> PCs] /\ ino' \in [Proc -> Ino]
    BY <2>0, <2>2, <2>4, PutStep DEF Local
  <2>6. Types'
    BY <1>1, <1>2, <1>8, <2>5 DEF Types
  <2>7. Scanner'
    <3>1. (\A q \in Proc \ {p} : pc'[q] = pc[q]) /\ pc'[p] \in {"user", "itrunc", "iupdate"}
      BY <1>6, <2>0 DEF IPut, Goto
    <3> QED BY <1>1, <1>8, <3>1, ScannerStays
  <2> QED BY <2>5, <2>6, <2>7
<1> QED BY <1>1, <1>7, <1>8

LEMMA ReadOK ==
  ASSUME BaseInv, Modes, Names, NEW p \in Proc, ReadDone(p)
  PROVE  Local(p) /\ Types' /\ Scanner'
<1>0. PICK i \in File : i = ino[p]
  BY Mine DEF ReadDone, RefPCs, AlonePCs, ReadPCs
<1> DEFINE n == [FromDisk(i) EXCEPT !.lock = (op[p] = "unlink")]
<1>1. /\ pc[p] = "oread"
      /\ core' = [core EXCEPT ![i] = n]
      /\ pc' = [pc EXCEPT ![p] = After(op[p])]
      /\ UNCHANGED <<spb, saved, updlock, disk, named, ino, op, blk, hist>>
  BY <1>0 DEF ReadDone, Goto
<1>2. Types
  BY DEF BaseInv
<1>3. /\ i \in Ino /\ Ref(p, i) /\ core[i].count = 1 /\ core[i].lock
      /\ core[i] \in Node /\ disk[i] \in DiskNode
  BY <1>0, <1>1, Mine DEF RefPCs, AlonePCs, ReadPCs
<1>4. DataFor(p, i)
  BY <1>3, DataHere
<1>5. disk[i].mode
  BY <1>0, <1>1, <1>4 DEF DataFor
<1>6. ~ ValidFor(p, i) /\ ModeFor(p, i) = disk[i].mode /\ LinksFor(p, i) = disk[i].nlink
  BY <1>0, <1>1 DEF ValidFor, ModeFor, LinksFor, ReadPCs
<1>7. /\ n \in Node /\ n.count = 1 /\ n.mode = disk[i].mode /\ n.nlink = disk[i].nlink
  <2>1. FromDisk(i) \in Node
    BY <1>3 DEF FromDisk, Node, DiskNode
  <2>2. n \in Node
    BY <2>1 DEF Node
  <2>3. n.count = FromDisk(i).count /\ n.mode = FromDisk(i).mode /\ n.nlink = FromDisk(i).nlink
    BY <2>1 DEF Node
  <2> QED BY <2>2, <2>3 DEF FromDisk
<1> HIDE DEF n
<1>8. core' \in [Ino -> Node] /\ core'[i] = n /\ \A x \in Ino \ {i} : core'[x] = core[x]
  BY <1>1, <1>2, <1>3, <1>7 DEF Types
<1>9. /\ pc' \in [Proc -> PCs] /\ pc'[p] \in {"open", "unlink"}
      /\ \A q \in Proc \ {p} : pc'[q] = pc[q]
  BY <1>1, <1>2 DEF Types, PCs, After
<1>10. DataFor(p, i)'
  <2>1. ValidFor(p, i)' /\ ModeFor(p, i)' = disk[i].mode /\ LinksFor(p, i)' = disk[i].nlink
    BY <1>7, <1>8, <1>9 DEF ValidFor, ModeFor, LinksFor, ReadPCs
  <2>2. disk' = disk /\ named' = named /\ files' = files
    BY <1>1 DEF hist
  <2>3. /\ files'[i] = IF ModeFor(p, i)' THEN 1 ELSE 0
        /\ i \in named' => ModeFor(p, i)' /\ LinksFor(p, i)' > 0
    BY <2>1, <2>2, <1>4, <1>6 DEF DataFor
  <2>4. core'[i].mode = disk'[i].mode /\ core'[i].nlink = disk'[i].nlink /\ core'[i].count = 1
    BY <2>2, <1>7, <1>8
  <2>5. pc'[p] \notin AlonePCs \cup {"made", "itrunc", "oread"}
    BY <1>9 DEF AlonePCs, ReadPCs
  <2>6. disk'[i].mode
    BY <2>2, <1>5
  <2> QED BY <2>3, <2>4, <2>5, <2>6 DEF DataFor
<1>11. Ref(p, i)' /\ ino'[p] = i
  BY <1>0, <1>1, <1>9 DEF Ref, RefPCs
<1>12. Local(p)
  <2>1. \A x \in Ino \ {i} : /\ core'[x] = core[x] /\ disk'[x] = disk[x] /\ files'[x] = files[x]
                             /\ x \in named' => x \in named
    BY <1>1, <1>8 DEF hist
  <2>2. OthersStay(p)
    BY <1>1, <1>9 DEF OthersStay
  <2>3. core'[i].count = core[i].count + 1 - 1
    BY <1>3, <1>7, <1>8
  <2>4. core[i].count > 1 => core'[i].mode = core[i].mode
    BY <1>3
  <2> QED BY <2>1, <2>2, <2>3, <2>4, <1>0, <1>3, <1>10, <1>11, OneStep DEF Touched
<1>13. Types'
  BY <1>1, <1>2, <1>8, <1>9 DEF Types, spb, hist
<1>14. Scanner'
  BY <1>1, <1>9, ScannerStays DEF spb
<1> QED BY <1>12, <1>13, <1>14

LEMMA CloseOK ==
  ASSUME BaseInv, Modes, Names, NEW p \in Proc, Close(p)
  PROVE  Local(p) /\ Types' /\ Scanner'
<1>0. PICK i \in File : i = ino[p]
  BY Mine DEF Close, RefPCs
<1>1. /\ pc[p] = "open" /\ IPut(p, i, core)
      /\ UNCHANGED <<spb, saved, updlock, disk, named, op, blk, hist>>
  BY <1>0 DEF Close
<1>2. Types /\ pc \in [Proc -> PCs] /\ core \in [Ino -> Node]
  BY LoopTypes DEF BaseInv
<1>3. i \in Ino /\ Ref(p, i) /\ core[i] \in Node /\ disk[i] \in DiskNode
  BY <1>0, <1>1, Mine DEF RefPCs
<1>4. DataFor(p, i)
  BY <1>3, DataHere
<1>5. core[i].count >= 1 /\ core[i].count \in Nat
  BY <1>2, <1>3, RefIsCounted DEF BaseInv
<1>6. ValidFor(p, i) /\ core[i].mode
  BY <1>0, <1>1, <1>4, <1>5 DEF DataFor, ValidFor, ReadPCs
<1>7. /\ files[i] = 1 /\ (i \in named => core[i].nlink > 0)
      /\ ~ core[i].upd => disk[i].mode /\ disk[i].nlink = core[i].nlink
  BY <1>4, <1>6 DEF DataFor, ModeFor, LinksFor
<1>8. PutsAway(p, i, core)
  BY <1>1, <1>3, <1>6, <1>7 DEF PutsAway, hist
<1>9. Local(p) /\ core' \in [Ino -> Node] /\ pc' \in [Proc -> PCs] /\ ino' \in [Proc -> Ino]
  BY <1>1, <1>2, <1>8, PutStep DEF Local
<1>10. Types'
  BY <1>1, <1>2, <1>9 DEF Types, spb, hist
<1>11. Scanner'
  <2>1. (\A q \in Proc \ {p} : pc'[q] = pc[q]) /\ pc'[p] \in {"user", "itrunc", "iupdate"}
    BY <1>1, <1>2 DEF IPut, Goto
  <2> QED BY <1>1, <2>1, ScannerStays DEF spb
<1> QED BY <1>9, <1>10, <1>11

LEMMA UnLinkOK ==
  ASSUME BaseInv, Modes, Names, NEW p \in Proc, UnLink(p)
  PROVE  Local(p) /\ Types' /\ Scanner'
<1>0. PICK i \in File : i = ino[p]
  BY Mine DEF UnLink, RefPCs
<1> DEFINE c == [core EXCEPT ![i].nlink = @ - 1, ![i].upd = TRUE]
<1>1. /\ pc[p] = "unlink" /\ IPut(p, i, c)
      /\ named' = named \ {i} /\ op' = [op EXCEPT ![p] = "open"]
      /\ UNCHANGED <<spb, saved, updlock, disk, blk, hist>>
  BY <1>0 DEF UnLink
<1>2. /\ Types /\ pc \in [Proc -> PCs] /\ core \in [Ino -> Node]
      /\ op \in [Proc -> {"alloc", "open", "unlink"}]
  BY LoopTypes DEF BaseInv
<1>3. i \in Ino /\ Ref(p, i) /\ core[i] \in Node
  BY <1>0, <1>1, Mine DEF RefPCs
<1>4. DataFor(p, i)
  BY <1>3, DataHere
<1>5. core[i].count >= 1 /\ core[i].count \in Nat
  BY <1>2, <1>3, RefIsCounted DEF BaseInv
<1>6. ValidFor(p, i) /\ core[i].mode
  BY <1>0, <1>1, <1>4, <1>5 DEF DataFor, ValidFor, ReadPCs
<1>7. files[i] = 1
  BY <1>4, <1>6 DEF DataFor, ModeFor
<1>8. /\ c \in [Ino -> Node] /\ \A x \in Ino \ {i} : c[x] = core[x]
      /\ c[i].upd /\ c[i].mode = core[i].mode /\ c[i].count = core[i].count
  <2>1. c[i] = [[core[i] EXCEPT !.nlink = @ - 1] EXCEPT !.upd = TRUE]
    BY <1>2, <1>3
  <2>2. [[core[i] EXCEPT !.nlink = @ - 1] EXCEPT !.upd = TRUE] \in Node
    <3>1. \A n \in Node : [n EXCEPT !.nlink = @ - 1] \in Node
      BY DEF Node
    <3>2. \A n \in Node : [n EXCEPT !.upd = TRUE] \in Node
      BY DEF Node
    <3> QED BY <1>3, <3>1, <3>2
  <2>3. c[i].upd /\ c[i].mode = core[i].mode /\ c[i].count = core[i].count
    BY <1>3, <2>1 DEF Node
  <2>4. c \in [Ino -> Node] /\ \A x \in Ino \ {i} : c[x] = core[x]
    BY <1>2, <1>3, <2>2
  <2> QED BY <2>3, <2>4
<1> HIDE DEF c
<1>9. PutsAway(p, i, c)
  <2>1. \A q \in Proc \ {p} : op'[q] = op[q]
    BY <1>1, <1>2
  <2> QED BY <1>1, <1>3, <1>6, <1>7, <1>8, <2>1 DEF PutsAway, hist
<1>10. Local(p) /\ core' \in [Ino -> Node] /\ pc' \in [Proc -> PCs] /\ ino' \in [Proc -> Ino]
  BY <1>1, <1>8, <1>9, PutStep DEF Local
<1>11. Types'
  BY <1>1, <1>2, <1>10 DEF Types, spb, hist
<1>12. Scanner'
  <2>1. (\A q \in Proc \ {p} : pc'[q] = pc[q]) /\ pc'[p] \in {"user", "itrunc", "iupdate"}
    BY <1>1, <1>2 DEF IPut, Goto
  <2> QED BY <1>1, <2>1, ScannerStays DEF spb
<1> QED BY <1>10, <1>11, <1>12

LEMMA LookupOK ==
  ASSUME BaseInv, Modes, Names, NEW p \in Proc, NEW o \in {"open", "unlink"}, NEW i \in File,
         Lookup(p, o, i)
  PROVE  Local(p) /\ Types' /\ Scanner'
<1>1. /\ pc[p] = "user" /\ i \in named
      /\ ino' = [ino EXCEPT ![p] = i] /\ op' = [op EXCEPT ![p] = o]
      /\ UNCHANGED <<spb, saved, updlock, disk, named, blk, hist>>
  BY DEF Lookup
<1>2. /\ Types /\ pc \in [Proc -> PCs] /\ core \in [Ino -> Node] /\ ino \in [Proc -> Ino]
      /\ op \in [Proc -> {"alloc", "open", "unlink"}]
  BY LoopTypes DEF BaseInv
<1>3. /\ i \in Ino /\ ~ Ref(p, i) /\ core[i] \in Node /\ core[i].count \in Nat
      /\ pc[p] \notin RefPCs
  BY <1>1, <1>2 DEF File, Ref, Node, RefPCs, AlonePCs, ReadPCs
<1>4. /\ ino' \in [Proc -> Ino] /\ ino'[p] = i /\ \A q \in Proc \ {p} : ino'[q] = ino[q]
      /\ op' \in [Proc -> {"alloc", "open", "unlink"}] /\ \A q \in Proc \ {p} : op'[q] = op[q]
  BY <1>1, <1>2, <1>3
<1>5. CASE IsLoaded(i) /\ core[i].lock /\ Goto(p, "igetSleep") /\ UNCHANGED core
  <2>1. /\ pc' \in [Proc -> PCs] /\ pc'[p] = "igetSleep" /\ \A q \in Proc \ {p} : pc'[q] = pc[q]
    BY <1>2, <1>5 DEF Goto, PCs
  <2>2. Local(p)
    BY <1>1, <1>3, <1>4, <1>5, <2>1, QuietStep DEF hist, OthersStay, RefPCs, AlonePCs, ReadPCs
  <2>3. Types'
    BY <1>1, <1>2, <1>4, <1>5, <2>1 DEF Types, spb, hist
  <2>4. Scanner'
    BY <1>1, <2>1, ScannerStays DEF spb
  <2> QED BY <2>2, <2>3, <2>4
<1>6. CASE /\ IsLoaded(i) /\ ~ core[i].lock
           /\ core' = [core EXCEPT ![i].count = @ + 1, ![i].lock = (o = "unlink")]
           /\ Goto(p, After(o))
  <2>1. /\ pc' \in [Proc -> PCs] /\ pc'[p] \in {"open", "unlink"}
        /\ \A q \in Proc \ {p} : pc'[q] = pc[q]
    BY <1>2, <1>6 DEF Goto, PCs, After
  <2>2. DataFor(p, i)
    BY <1>6, DataHere
  <2>3. core'[i] = [[core[i] EXCEPT !.count = @ + 1] EXCEPT !.lock = (o = "unlink")]
    BY <1>2, <1>3, <1>6
  <2>4. [[core[i] EXCEPT !.count = @ + 1] EXCEPT !.lock = (o = "unlink")] \in Node
    <3>1. \A n \in Node : [n EXCEPT !.count = @ + 1] \in Node
      BY DEF Node
    <3>2. \A n \in Node : [n EXCEPT !.lock = (o = "unlink")] \in Node
      BY DEF Node
    <3> QED BY <1>3, <3>1, <3>2
  <2>5. /\ core'[i].count = core[i].count + 1 /\ core'[i].mode = core[i].mode
        /\ core'[i].nlink = core[i].nlink /\ core'[i].upd = core[i].upd
    BY <1>3, <2>3 DEF Node
  <2>6. core' \in [Ino -> Node] /\ \A x \in Ino \ {i} : core'[x] = core[x]
    BY <1>2, <1>3, <1>6, <2>4
  <2>7. ValidFor(p, i) /\ ValidFor(p, i)' /\ core'[i].count # 0
    BY <1>1, <1>3, <1>6, <2>1, <2>5 DEF ValidFor, IsLoaded, ReadPCs
  <2>8. core[i].mode
    BY <1>1, <2>2, <2>7 DEF DataFor, ModeFor
  <2>9. DataFor(p, i)'
    <3>1. disk' = disk /\ named' = named /\ files' = files
      BY <1>1 DEF hist
    <3>2. ModeFor(p, i)' = ModeFor(p, i) /\ LinksFor(p, i)' = LinksFor(p, i)
      BY <2>5, <2>7 DEF ModeFor, LinksFor
    <3>3. pc'[p] \notin AlonePCs \cup {"made", "itrunc", "oread"}
      BY <2>1 DEF AlonePCs, ReadPCs
    <3> QED BY <2>2, <2>5, <2>7, <2>8, <3>1, <3>2, <3>3 DEF DataFor
  <2>10. Ref(p, i)'
    BY <1>4, <2>1 DEF Ref, RefPCs
  <2>11. Local(p)
    <3>1. \A x \in Ino \ {i} : /\ core'[x] = core[x] /\ disk'[x] = disk[x] /\ files'[x] = files[x]
                               /\ x \in named' => x \in named
      BY <1>1, <2>6 DEF hist
    <3>2. OthersStay(p)
      BY <1>4, <2>1 DEF OthersStay
    <3>3. core'[i].count = core[i].count + 1 - 0
      BY <1>3, <2>5
    <3> QED BY <1>3, <1>4, <1>6, <2>5, <2>9, <2>10, <3>1, <3>2, <3>3, OneStep DEF Touched
  <2>12. Types'
    BY <1>1, <1>2, <1>4, <2>1, <2>6 DEF Types, spb, hist
  <2>13. Scanner'
    BY <1>1, <2>1, ScannerStays DEF spb
  <2> QED BY <2>11, <2>12, <2>13
<1>7. CASE /\ ~ IsLoaded(i)
           /\ core' = [core EXCEPT ![i] = [Absent EXCEPT !.count = 1, !.lock = TRUE]]
           /\ Goto(p, "oread")
  <2>1. /\ pc' \in [Proc -> PCs] /\ pc'[p] = "oread" /\ \A q \in Proc \ {p} : pc'[q] = pc[q]
    BY <1>2, <1>7 DEF Goto, PCs
  <2>2. core[i].count = 0 /\ ~ core[i].lock
    BY <1>3, <1>7 DEF IsLoaded, BaseInv, Free
  <2>3. DataFor(p, i)
    BY <2>2, DataHere
  <2>4. core' \in [Ino -> Node] /\ \A x \in Ino \ {i} : core'[x] = core[x]
    BY <1>2, <1>3, <1>7, NewNode
  <2>5. core'[i].count = 1 /\ core'[i].lock
    BY <1>2, <1>3, <1>7 DEF Absent
  <2>6. /\ ~ ValidFor(p, i) /\ ~ ValidFor(p, i)'
    BY <1>4, <2>1, <2>2 DEF ValidFor, ReadPCs
  <2>7. disk[i].mode
    BY <1>1, <2>3, <2>6 DEF DataFor, ModeFor
  <2>8. DataFor(p, i)'
    <3>1. disk' = disk /\ named' = named /\ files' = files
      BY <1>1 DEF hist
    <3>2. ModeFor(p, i)' = ModeFor(p, i) /\ LinksFor(p, i)' = LinksFor(p, i)
      BY <2>6, <3>1 DEF ModeFor, LinksFor
    <3> QED BY <2>1, <2>3, <2>5, <2>6, <2>7, <3>1, <3>2 DEF DataFor
  <2>9. Ref(p, i)'
    BY <1>4, <2>1 DEF Ref, RefPCs, AlonePCs, ReadPCs
  <2>10. Local(p)
    <3>1. \A x \in Ino \ {i} : /\ core'[x] = core[x] /\ disk'[x] = disk[x] /\ files'[x] = files[x]
                               /\ x \in named' => x \in named
      BY <1>1, <2>4 DEF hist
    <3>2. OthersStay(p)
      BY <1>4, <2>1 DEF OthersStay
    <3>3. core'[i].count = core[i].count + 1 - 0
      BY <2>2, <2>5
    <3> QED BY <1>3, <1>4, <2>2, <2>8, <2>9, <3>1, <3>2, <3>3, OneStep DEF Touched
  <2>11. Types'
    BY <1>1, <1>2, <1>4, <2>1, <2>4 DEF Types, spb, hist
  <2>12. Scanner'
    BY <1>1, <2>1, ScannerStays DEF spb
  <2> QED BY <2>10, <2>11, <2>12
<1> QED BY <1>5, <1>6, <1>7 DEF Lookup

----------------------------------------------------------------------------
(* Update's last part, a crash and the start *)

\* UpdateInodeTable writes inodes that nobody has for himself, so that the disk
\* gets what is in memory and counts.
LEMMA WriteOK ==
  ASSUME BaseInv, Modes, Names, NEW p \in Proc, UpdateInodeTable(p)
  PROVE  BaseInv' /\ Modes' /\ Names'
<1> DEFINE S == {i \in File : IsLoaded(i) /\ ~ core[i].lock /\ core[i].upd}
<1>1. /\ pc[p] = "sync2"
      /\ disk' = [i \in Ino |-> IF i \in S THEN [mode |-> core[i].mode, nlink |-> core[i].nlink]
                                 ELSE disk[i]]
      /\ updlock' = FALSE
      /\ pc' = [pc EXCEPT ![p] = "user"]
      /\ UNCHANGED <<spb, saved, core, named, ino, op, blk, hist>>
  BY DEF UpdateInodeTable, Goto
<1>2. Types /\ pc \in [Proc -> PCs]
  BY LoopTypes DEF BaseInv
<1>3. /\ pc' \in [Proc -> PCs]
      /\ \A q \in Proc : pc[q] # "sync2" => pc'[q] = pc[q]
      /\ \A q \in Proc : pc[q] = "sync2" => pc'[q] \in {"sync2", "user"}
  BY <1>1, <1>2 DEF PCs
<1>4. \A i \in Ino : i \in S => core[i] \in Node /\ [mode |-> core[i].mode, nlink |-> core[i].nlink] \in DiskNode
  BY <1>2 DEF Types, Node, DiskNode
<1>5. /\ disk' \in [Ino -> DiskNode]
      /\ \A i \in Ino : i \notin S => disk'[i] = disk[i]
      /\ \A i \in Ino : i \in S => disk'[i].mode = core[i].mode /\ disk'[i].nlink = core[i].nlink
  BY <1>1, <1>2, <1>4 DEF Types
\* nobody has such an inode for himself
<1>6. ASSUME NEW i \in S, NEW q \in Proc, pc[q] \in AlonePCs PROVE ino[q] # i
  BY <1>6 DEF BaseInv, Alone
<1>7. \A i \in Ino : i \in S => Valid(i)
  BY <1>6 DEF Valid, AlonePCs
<1> HIDE DEF S
<1>8. \A q \in Proc : \A l \in RefPCs : (pc'[q] = l) <=> (pc[q] = l)
  BY <1>3 DEF RefPCs, AlonePCs, ReadPCs
<1>9. ino' = ino /\ core' = core /\ named' = named /\ files' = files
  BY <1>1 DEF hist
<1>10. \A q \in Proc : \A x : Ref(q, x)' <=> Ref(q, x)
  BY <1>8, <1>9 DEF Ref
<1>11. \A x \in Ino : Valid(x)' <=> Valid(x)
  BY <1>8, <1>9 DEF Valid, IsLoaded, RefPCs, AlonePCs
<1>12. BaseInv'
  <2>1. Types'
    BY <1>1, <1>2, <1>3, <1>5 DEF Types, spb, hist
  <2>2. RootIs'
    <3>1. 0 \in Ino /\ 0 \notin S
      BY ConstantsAssumption DEF S, Ino, File
    <3> QED BY <3>1, <1>5, <1>8, <1>9 DEF BaseInv, RootIs, Root
  <2>3. Counted'
    <3>1. \A x \in File : Refs(x)' = Refs(x)
      BY <1>10 DEF Refs
    <3> QED BY <3>1, <1>9 DEF BaseInv, Counted
  <2>4. Alone' /\ Free'
    BY <1>8, <1>9 DEF BaseInv, Alone, Free, RefPCs
  <2>5. Scanner'
    BY <1>1, <1>2 DEF BaseInv, Scanner, spb
  <2> QED BY <2>1, <2>2, <2>3, <2>4, <2>5 DEF BaseInv
<1>13. \A x \in Ino : Mode(x)' = Mode(x) /\ Links(x)' = Links(x)
  BY <1>5, <1>7, <1>9, <1>11 DEF Mode, Links
<1>14. Modes'
  <2>1. \A x \in Ino : Valid(x)' /\ ~ core'[x].upd =>
          (core'[x].mode <=> disk'[x].mode) /\ core'[x].nlink = disk'[x].nlink
    <3> SUFFICES ASSUME NEW x \in Ino, Valid(x)', ~ core'[x].upd
                 PROVE  (core'[x].mode <=> disk'[x].mode) /\ core'[x].nlink = disk'[x].nlink
      OBVIOUS
    <3>1. x \notin S
      BY <1>9 DEF S
    <3> QED BY <3>1, <1>5, <1>9, <1>11 DEF Modes
  <2>2. \A q \in Proc : pc'[q] = "oread" => disk'[ino'[q]].mode
    <3> SUFFICES ASSUME NEW q \in Proc, pc'[q] = "oread" PROVE disk'[ino'[q]].mode
      OBVIOUS
    <3>1. pc[q] = "oread"
      BY <1>3
    <3>2. ino[q] \notin S /\ ino[q] \in Ino
      BY <3>1, <1>2, <1>6 DEF AlonePCs, ReadPCs, Types
    <3> QED BY <3>1, <3>2, <1>5, <1>9 DEF Modes
  <2>3. \A q \in Proc : pc'[q] \in {"made", "open", "unlink", "itrunc"} => core'[ino'[q]].mode
    BY <1>8, <1>9 DEF Modes, RefPCs, AlonePCs
  <2> QED BY <2>1, <2>2, <2>3, <1>9, <1>13 DEF Modes
<1>15. Names'
  <2>1. named \subseteq Ino
    BY <1>2 DEF Types, File
  <2> QED BY <2>1, <1>8, <1>9, <1>13 DEF Names, RefPCs, AlonePCs
<1> QED BY <1>12, <1>14, <1>15

\* The next boot finds the inodes as they are on the disk.
LEMMA CrashOK ==
  ASSUME BaseInv, Modes, Names, Crash
  PROVE  BaseInv' /\ Modes' /\ Names'
<1>1. Types
  BY DEF BaseInv
<1>2. /\ 0 \in Ino /\ 0 \notin File /\ \A i \in File : i \in Ino /\ i # 0
      /\ 0 \in 0 .. Blocks - 1
  BY ConstantsAssumption, BlocksIs DEF Ino, File
<1>3. /\ core' = [i \in Ino |-> IF i = 0 THEN core[0] ELSE Absent] /\ disk' = disk
      /\ named' \in SUBSET {i \in File : disk[i].mode /\ disk[i].nlink > 0}
      /\ files' = [i \in Ino |-> IF disk[i].mode THEN 1 ELSE 0]
      /\ pc' = [q \in Proc |-> "user"] /\ ino' = [q \in Proc |-> 0]
      /\ op' = [q \in Proc |-> "open"] /\ s_ilock' = FALSE
  BY DEF Crash
<1>4. core[0] = Root /\ disk[0].mode /\ disk[0].nlink = 1
  <2>1. core[0] = Root /\ disk[0].mode
    BY DEF BaseInv, RootIs
  <2>2. Valid(0)
    BY <2>1 DEF BaseInv, RootIs, Valid, IsLoaded, Root, RefPCs, AlonePCs
  <2> QED BY <2>1, <2>2, <1>2 DEF Modes, Root
<1>5. core'[0] = Root /\ \A x \in Ino \ {0} : core'[x] = Absent
  BY <1>2, <1>3, <1>4
<1>6. \A q \in Proc : pc'[q] = "user"
  BY <1>3
<1>7. Types'
  <2>1. core' \in [Ino -> Node]
    BY <1>1, <1>2, <1>3, NewNode DEF Types
  <2>2. pc' \in [Proc -> PCs] /\ ino' \in [Proc -> Ino] /\ op' \in [Proc -> {"alloc", "open", "unlink"}]
    BY <1>2, <1>3 DEF PCs
  <2>3. files' \in [Ino -> Nat] /\ named' \subseteq File /\ disk' \in [Ino -> DiskNode]
    BY <1>1, <1>3 DEF Types
  <2>4. /\ s_inode' \in [Entry -> Ino] /\ s_ninode' \in 0 .. MaxFree /\ s_fmod' \in BOOLEAN
        /\ saved' \in [ninode : 0 .. MaxFree, inode : [Entry -> Ino], fmod : BOOLEAN]
    BY <1>1 DEF Types, Crash
  <2>5. crashes' \in 0 .. MaxCrash /\ blk' \in 0 .. Blocks - 1 /\ late' \subseteq File
        /\ s_ilock' \in BOOLEAN /\ updlock' \in BOOLEAN
    <3>1. crashes < MaxCrash /\ crashes' = crashes + 1 /\ MaxCrash \in Nat
      BY ConstantsAssumption DEF Crash
    <3>2. crashes' \in 0 .. MaxCrash
      BY <1>1, <3>1 DEF Types
    <3> QED BY <1>2, <3>2 DEF Crash
  <2> QED BY <2>1, <2>2, <2>3, <2>4, <2>5 DEF Types
<1>8. BaseInv'
  <2>1. RootIs'
    BY <1>3, <1>4, <1>5, <1>6 DEF RootIs, Root, RefPCs, AlonePCs, ReadPCs
  <2>2. Counted'
    <3> SUFFICES ASSUME NEW x \in File PROVE core'[x].count = Cardinality(Refs(x)')
      BY DEF Counted
    <3>1. Refs(x)' = {}
      BY <1>6 DEF Refs, Ref, RefPCs, AlonePCs, ReadPCs
    <3>2. core'[x].count = 0
      BY <1>2, <1>5 DEF Absent
    <3> QED BY <3>1, <3>2, FS_EmptySet
  <2>3. Alone'
    BY <1>6 DEF Alone, AlonePCs, ReadPCs
  <2>4. Free'
    BY <1>5 DEF Free, Absent, Root
  <2>5. Scanner'
    BY <1>3, <1>6 DEF Scanner
  <2> QED BY <1>7, <2>1, <2>2, <2>3, <2>4, <2>5 DEF BaseInv
<1>9. /\ Valid(0)' /\ \A x \in Ino \ {0} : ~ Valid(x)'
  BY <1>2, <1>5, <1>6 DEF Valid, IsLoaded, Absent, Root, ReadPCs
<1>10. /\ Mode(0)' = TRUE
       /\ \A x \in Ino \ {0} : Mode(x)' = disk[x].mode /\ Links(x)' = disk[x].nlink
  BY <1>2, <1>3, <1>5, <1>9 DEF Mode, Links, Root
<1>11. Modes'
  <2>1. \A x \in Ino : files'[x] = IF Mode(x)' THEN 1 ELSE 0
    BY <1>2, <1>3, <1>4, <1>10
  <2>2. \A x \in Ino : Valid(x)' /\ ~ core'[x].upd =>
          (core'[x].mode <=> disk'[x].mode) /\ core'[x].nlink = disk'[x].nlink
    BY <1>3, <1>4, <1>5, <1>9 DEF Root
  <2> QED BY <1>6, <2>1, <2>2 DEF Modes
<1>12. Names'
  <2>1. \A x \in named' : x \in Ino \ {0} /\ disk[x].mode /\ disk[x].nlink > 0
    BY <1>2, <1>3
  <2> QED BY <1>6, <1>10, <2>1 DEF Names
<1> QED BY <1>8, <1>11, <1>12

LEMMA InitOK == Init => BaseInv /\ Modes /\ Names
<1> SUFFICES ASSUME Init PROVE BaseInv /\ Modes /\ Names
  OBVIOUS
<1>1. /\ 0 \in Ino /\ 0 \notin File /\ \A i \in File : i \in Ino /\ i # 0
      /\ 0 \in 0 .. Blocks - 1
  BY ConstantsAssumption, BlocksIs DEF Ino, File
<1>2. core[0] = Root
  <2> DEFINE n == [Absent EXCEPT !.mode = TRUE, !.nlink = 1, !.count = 1]
  <2>1. n \in Node
    <3>1. \A m \in Node : [m EXCEPT !.mode = TRUE] \in Node
      BY DEF Node
    <3>2. \A m \in Node : [m EXCEPT !.nlink = 1] \in Node
      BY DEF Node
    <3>3. \A m \in Node : [m EXCEPT !.count = 1] \in Node
      BY DEF Node
    <3> QED BY <3>1, <3>2, <3>3, NewNode
  <2>2. n.mode = TRUE /\ n.nlink = 1 /\ n.count = 1 /\ n.lock = FALSE /\ n.upd = FALSE
    BY DEF Absent
  <2>3. \A m \in Node : m.mode = TRUE /\ m.nlink = 1 /\ m.count = 1 /\ m.lock = FALSE /\ m.upd = FALSE
           => m = Root
    BY DEF Node, Root
  <2>4. core[0] = n
    BY <1>1 DEF Init
  <2> HIDE DEF n
  <2> QED BY <2>1, <2>2, <2>3, <2>4
<1>3. /\ core = [i \in Ino |-> IF i = 0 THEN core[0] ELSE Absent]
      /\ disk = [i \in Ino |-> [mode |-> i = 0, nlink |-> IF i = 0 THEN 1 ELSE 0]]
      /\ files = [i \in Ino |-> IF i = 0 THEN 1 ELSE 0] /\ named = {}
      /\ pc = [q \in Proc |-> "user"] /\ ino = [q \in Proc |-> 0]
      /\ op = [q \in Proc |-> "open"] /\ s_ilock = FALSE
  <2>1. core = [i \in Ino |-> IF i = 0 THEN core[0] ELSE Absent]
    BY <1>1 DEF Init
  <2> QED BY <2>1 DEF Init
<1>4. \A x \in Ino \ {0} : core[x] = Absent /\ ~ disk[x].mode /\ files[x] = 0
  BY <1>3
<1>5. disk[0].mode /\ disk[0].nlink = 1 /\ files[0] = 1
  BY <1>1, <1>3
<1>6. \A q \in Proc : pc[q] = "user"
  BY <1>3
<1>7. Types
  <2>1. core \in [Ino -> Node]
    <3>1. Root \in Node
      BY DEF Root, Node
    <3> QED BY <1>2, <1>3, <3>1, NewNode
  <2>2. disk \in [Ino -> DiskNode]
    BY <1>3 DEF DiskNode
  <2>3. pc \in [Proc -> PCs] /\ ino \in [Proc -> Ino] /\ op \in [Proc -> {"alloc", "open", "unlink"}]
        /\ files \in [Ino -> Nat]
    BY <1>1, <1>3 DEF PCs
  <2>4. /\ s_inode \in [Entry -> Ino] /\ s_ninode \in 0 .. MaxFree
        /\ s_ilock \in BOOLEAN /\ s_fmod \in BOOLEAN /\ updlock \in BOOLEAN
        /\ saved \in [ninode : 0 .. MaxFree, inode : [Entry -> Ino], fmod : BOOLEAN]
    <3>1. \A k \in Entry : MaxFree - k \in Ino
      BY ConstantsAssumption DEF Entry, Ino
    <3>2. s_inode \in [Entry -> Ino] /\ s_ninode \in 0 .. MaxFree
      BY <3>1, ConstantsAssumption DEF Init
    <3> QED BY <3>2 DEF Init
  <2>5. /\ named \subseteq File /\ late \subseteq File /\ blk \in 0 .. Blocks - 1
        /\ crashes \in 0 .. MaxCrash
    BY <1>1, ConstantsAssumption DEF Init
  <2> QED BY <2>1, <2>2, <2>3, <2>4, <2>5 DEF Types
<1>8. BaseInv
  <2>1. RootIs
    BY <1>2, <1>5, <1>6 DEF RootIs, RefPCs, AlonePCs, ReadPCs
  <2>2. Counted
    <3> SUFFICES ASSUME NEW x \in File PROVE core[x].count = Cardinality(Refs(x))
      BY DEF Counted
    <3>1. Refs(x) = {}
      BY <1>6 DEF Refs, Ref, RefPCs, AlonePCs, ReadPCs
    <3>2. core[x].count = 0
      BY <1>1, <1>4 DEF Absent
    <3> QED BY <3>1, <3>2, FS_EmptySet
  <2>3. Alone
    BY <1>6 DEF Alone, AlonePCs, ReadPCs
  <2>4. Free
    BY <1>2, <1>4 DEF Free, Absent, Root
  <2>5. Scanner
    BY <1>3, <1>6 DEF Scanner
  <2> QED BY <1>7, <2>1, <2>2, <2>3, <2>4, <2>5 DEF BaseInv
<1>9. /\ Valid(0) /\ \A x \in Ino \ {0} : ~ Valid(x)
  BY <1>1, <1>2, <1>4, <1>6 DEF Valid, IsLoaded, Absent, Root, ReadPCs
<1>10. Modes
  <2>1. \A x \in Ino : files[x] = IF Mode(x) THEN 1 ELSE 0
    BY <1>1, <1>2, <1>4, <1>5, <1>9 DEF Mode, Root
  <2>2. \A x \in Ino : Valid(x) /\ ~ core[x].upd =>
          (core[x].mode <=> disk[x].mode) /\ core[x].nlink = disk[x].nlink
    BY <1>2, <1>5, <1>9 DEF Root
  <2> QED BY <1>6, <2>1, <2>2 DEF Modes
<1>11. Names
  BY <1>3, <1>6 DEF Names
<1> QED BY <1>8, <1>10, <1>11

----------------------------------------------------------------------------
(* What is proved without hypotheses *)

LEMMA StepOK ==
  ASSUME BaseInv, Modes, Names, NEW p \in Proc, Step(p), ~ UpdateInodeTable(p)
  PROVE  Local(p) /\ Types' /\ Scanner'
<1>1. CASE IAllocSleep(p)
  BY <1>1, SleepOK
<1>2. CASE IAllocTake(p)
  BY <1>2, TakeOK
<1>3. CASE IAllocSearch(p)
  BY <1>3, SearchOK
<1>4. CASE ScanBlock(p)
  BY <1>4, BlockOK
<1>5. CASE ScanNone(p)
  BY <1>5, NoneOK
<1>6. CASE ScanTake(p)
  BY <1>6, ScanTakeOK
<1>7. CASE IAllocDone(p)
  BY <1>7, CleanOK
<1>8. CASE IAllocAgain(p)
  BY <1>8, AgainOK
<1>9. CASE MakNodeDone(p)
  BY <1>9, MadeOK
<1>10. CASE ITruncDone(p)
  BY <1>10, TruncOK
<1>11. CASE IUpdateDone(p)
  BY <1>11, WrittenOK
<1>12. CASE ReadDone(p)
  BY <1>12, ReadOK
<1>13. CASE Close(p)
  BY <1>13, CloseOK
<1>14. CASE UnLink(p)
  BY <1>14, UnLinkOK
<1>15. CASE Update(p) \/ UpdateSector0(p) \/ UpdateSector1(p)
  BY <1>15, SyncOK
<1>16. CASE \E i \in File : Lookup(p, "open", i) \/ Lookup(p, "unlink", i)
  BY <1>16, LookupOK
<1> QED BY <1>1, <1>2, <1>3, <1>4, <1>5, <1>6, <1>7, <1>8, <1>9, <1>10, <1>11, <1>12,
           <1>13, <1>14, <1>15, <1>16 DEF Step

LEMMA BaseStep == BaseInv /\ Modes /\ Names /\ [Next]_vars => (BaseInv /\ Modes /\ Names)'
<1> SUFFICES ASSUME BaseInv, Modes, Names, [Next]_vars
             PROVE  (BaseInv /\ Modes /\ Names)'
  OBVIOUS
<1>1. CASE UNCHANGED vars
  <2>1. /\ s_inode' = s_inode /\ s_ninode' = s_ninode /\ s_ilock' = s_ilock /\ s_fmod' = s_fmod
        /\ saved' = saved /\ updlock' = updlock /\ core' = core /\ disk' = disk
        /\ named' = named /\ pc' = pc /\ ino' = ino /\ op' = op /\ blk' = blk
        /\ late' = late /\ files' = files /\ crashes' = crashes
    BY <1>1 DEF vars, spb, procs, hist
  <2>2. /\ \A i : Refs(i)' = Refs(i) /\ (Valid(i)' <=> Valid(i))
        /\ \A i : Mode(i)' = Mode(i) /\ Links(i)' = Links(i)
    BY <2>1 DEF Refs, Ref, Valid, IsLoaded, Mode, Links
  <2>3. BaseInv'
    <3>1. Types' /\ RootIs'
      BY <2>1 DEF BaseInv, Types, RootIs, Root
    <3>2. Counted' /\ Alone' /\ Free' /\ Scanner'
      BY <2>1, <2>2 DEF BaseInv, Counted, Alone, Free, Scanner
    <3> QED BY <3>1, <3>2 DEF BaseInv
  <2>4. Modes'
    BY <2>1, <2>2 DEF Modes
  <2>5. Names'
    BY <2>1, <2>2 DEF Names
  <2> QED BY <2>3, <2>4, <2>5
<1>2. CASE Crash
  BY <1>2, CrashOK
<1>3. ASSUME NEW p \in Proc, Step(p) PROVE (BaseInv /\ Modes /\ Names)'
  <2>1. CASE UpdateInodeTable(p)
    BY <2>1, WriteOK
  <2>2. CASE ~ UpdateInodeTable(p)
    <3>1. Local(p) /\ Types' /\ Scanner'
      BY <2>2, <1>3, StepOK
    <3>2. RootIs' /\ Counted' /\ Alone' /\ Free' /\ Modes' /\ Names'
      BY <3>1, LocalStep DEF Local
    <3> QED BY <3>1, <3>2 DEF BaseInv
  <2> QED BY <2>1, <2>2
<1> QED BY <1>1, <1>2, <1>3 DEF Next

LEMMA BaseHolds == Spec => [](BaseInv /\ Modes /\ Names)
<1> QED BY InitOK, BaseStep, PTL DEF Spec

\* Whoever sleeps on s_ilock is woken by a search that is under way: IAlloc
\* sleeps while the list is locked, and the search that unlocks it wakes them
\* all.
THEOREM SearchIsUnderWay == Spec => []SearchWakes
<1>1. BaseInv => SearchWakes
  BY DEF BaseInv, Scanner, SearchWakes
<1> QED BY <1>1, BaseHolds, PTL

\* IAlloc gives an inode to one file at a time and IPut frees it once, across
\* any number of crashes, because IAlloc reads an inode before it takes it.
THEOREM OneFileForAnInode == Spec => []OneFile
<1>1. BaseInv /\ Modes => OneFile
  BY DEF BaseInv, Types, Modes, OneFile
<1> QED BY <1>1, BaseHolds, PTL

\* The variables keep their types; i_count never exceeds the number of
\* processes, since it is the number of references.
THEOREM TypeCorrect == Spec => []TypeOK
<1>1. BaseInv => TypeOK
  <2> SUFFICES ASSUME BaseInv PROVE TypeOK
    OBVIOUS
  <2>0. Types
    BY DEF BaseInv
  <2>1. ASSUME NEW i \in Ino PROVE core[i] \in CoreNode
    <3>1. core[i] \in Node
      BY <2>0 DEF Types
    <3>2. IsFiniteSet(Proc) /\ Cardinality(Proc) \in Nat
      BY ConstantsAssumption, FS_CardinalityType
    <3>3. core[i].count \in 0 .. Cardinality(Proc)
      <4>1. CASE i \in File
        <5>1. Refs(i) \in SUBSET Proc
          BY DEF Refs
        <5>2. Cardinality(Refs(i)) \in Nat /\ Cardinality(Refs(i)) <= Cardinality(Proc)
          BY <3>2, <5>1, FS_Subset, ProcsFinite
        <5> QED BY <3>2, <4>1, <5>2 DEF BaseInv, Counted
      <4>2. CASE i = 0
        <5>1. Cardinality(Proc) # 0
          BY <3>2, ConstantsAssumption, FS_EmptySet
        <5> QED BY <3>2, <4>2, <5>1 DEF BaseInv, RootIs, Root
      <4> QED BY <4>1, <4>2 DEF File
    <3> QED BY <3>1, <3>3 DEF Node, CoreNode
  <2>2. core \in [Ino -> CoreNode]
    BY <2>0, <2>1 DEF Types
  <2> QED BY <2>0, <2>2 DEF Types, TypeOK
<1> QED BY <1>1, BaseHolds, PTL

----------------------------------------------------------------------------
(* The list until the first crash *)

\* a list that the loop of IAlloc finds an inode on
ListOK(arr, n) ==
  /\ \A k \in 0 .. n - 1 : files[arr[k]] = 0
  /\ \A k, m \in 0 .. n - 1 : arr[k] = arr[m] => k = m
  /\ \A q \in Proc : pc[q] = "iread" => \A k \in 0 .. n - 1 : arr[k] # ino[q]

LEMMA SoundList == ASSUME Sound PROVE ListOK(s_inode, s_ninode)
BY DEF Sound, ListOK, Listed

\* an inode that no file has
LEMMA NoFile ==
  ASSUME BaseInv, Modes, NEW i \in Ino, files[i] = 0
  PROVE  ~ Mode(i) /\ (core[i].count = 0 => ~ disk[i].mode)
         /\ (core[i].count # 0 /\ ~ core[i].lock => ~ core[i].mode)
<1>1. ~ Mode(i)
  BY DEF Modes
<1>2. core[i].count # 0 /\ ~ core[i].lock => Valid(i)
  BY DEF BaseInv, Alone, Valid, IsLoaded, AlonePCs
<1> QED BY <1>1, <1>2 DEF Mode, Valid, IsLoaded

\* A step that leaves the list alone.
LEMMA SoundStays ==
  ASSUME Sound, NEW p \in Proc, UNCHANGED <<s_inode, s_ninode>>, s_ninode \in Nat,
         \/ s_ilock' => s_ilock /\ blk' = blk
         \/ s_ninode = 0,
         OthersStay(p), pc'[p] \notin {"wild", "iread"},
         pc'[p] \in FilePCs => op'[p] # "alloc",
         \A q \in Proc \ {p} : pc[q] = "iread" => disk'[ino[q]] = disk[ino[q]],
         \A k \in 0 .. s_ninode - 1 : files'[s_inode[k]] = 0
  PROVE  Sound'
<1>1. \A q \in Proc \ {p} :
        /\ ino'[q] = ino[q] /\ op'[q] = op[q]
        /\ \A l \in FilePCs \cup {"wild", "iread"} : (pc'[q] = l) <=> (pc[q] = l)
  BY DEF OthersStay, FilePCs
<1>2. \A i : Listed(i)' <=> Listed(i)
  BY DEF Listed
<1>3. \A q \in Proc : pc'[q] # "wild"
  BY <1>1 DEF Sound
<1>4. \A q \in Proc : pc'[q] = "iread" => ~ Listed(ino[q])' /\ ~ disk'[ino'[q]].mode
  <2> SUFFICES ASSUME NEW q \in Proc, pc'[q] = "iread"
               PROVE  ~ Listed(ino[q])' /\ ~ disk'[ino'[q]].mode
    OBVIOUS
  <2>1. q # p /\ pc[q] = "iread" /\ ino'[q] = ino[q]
    BY <1>1
  <2> QED BY <2>1 DEF Sound, Listed
<1>5. \A q \in Proc : pc'[q] \in FilePCs => op'[q] # "alloc"
  BY <1>1 DEF Sound
<1>6. \A k \in 0 .. s_ninode' - 1 : s_ilock' => s_inode'[k] \div PerBlock < blk'
  BY DEF Sound
<1>7. \A k, m \in 0 .. s_ninode' - 1 : s_inode'[k] = s_inode'[m] => k = m
  BY DEF Sound
<1> QED BY <1>3, <1>4, <1>5, <1>6, <1>7 DEF Sound

\* The search of a block keeps the list sound.
LEMMA FilledSound ==
  ASSUME BaseInv, Modes, Sound, NEW p \in Proc, pc[p] = "scan"
  PROVE  /\ ListOK(Filled, FilledN)
         /\ \A k \in 0 .. FilledN - 1 : Filled[k] \div PerBlock < blk + 1
<1>0. /\ Types /\ s_ilock /\ s_ninode \in Nat /\ blk \in Nat
      /\ MaxFree \in Nat /\ s_ninode <= MaxFree
  BY BlocksIs, ConstantsAssumption DEF BaseInv, Scanner, Types
<1>1. /\ FilledN \in s_ninode .. MaxFree /\ FilledN \in 0 .. MaxFree
      /\ Filled \in [Entry -> Ino]
      /\ \A k \in 0 .. s_ninode - 1 : Filled[k] = s_inode[k]
      /\ \A k \in s_ninode .. FilledN - 1 : Filled[k] \in Unused(blk)
      /\ \A k, m \in s_ninode .. FilledN - 1 : Filled[k] = Filled[m] => k = m
  BY <1>0, FilledIs
<1>2. \A k \in 0 .. FilledN - 1 : k \in 0 .. s_ninode - 1 \/ k \in s_ninode .. FilledN - 1
  BY <1>0, <1>1
<1>3. \A i \in Unused(blk) : /\ files[i] = 0 /\ i \div PerBlock = blk /\ i \in Ino
                             /\ core[i].count = 0
  BY DEF Unused, Modes, Mode, Valid, IsLoaded
<1>4. \A k \in 0 .. s_ninode - 1 : Filled[k] \div PerBlock < blk /\ files[Filled[k]] = 0
  BY <1>0, <1>1 DEF Sound
<1>5. \A k, m \in 0 .. s_ninode - 1 : Filled[k] = Filled[m] => k = m
  BY <1>0, <1>1 DEF Sound
<1>6. \A q \in Proc : pc[q] = "iread" => \A k \in 0 .. FilledN - 1 : Filled[k] # ino[q]
  <2> SUFFICES ASSUME NEW q \in Proc, pc[q] = "iread", NEW k \in 0 .. FilledN - 1
               PROVE  Filled[k] # ino[q]
    OBVIOUS
  <2>1. core[ino[q]].count = 1
    BY Mine DEF RefPCs, AlonePCs, ReadPCs
  <2>2. CASE k \in 0 .. s_ninode - 1
    BY <1>1, <2>2 DEF Sound, Listed
  <2>3. CASE k \in s_ninode .. FilledN - 1
    BY <1>1, <1>3, <2>1, <2>3
  <2> QED BY <1>2, <2>2, <2>3
<1>7. \A k \in 0 .. FilledN - 1 : files[Filled[k]] = 0
  BY <1>1, <1>2, <1>3, <1>4
<1>8. \A k \in 0 .. FilledN - 1 : Filled[k] \div PerBlock < blk + 1
  <2> TAKE k \in 0 .. FilledN - 1
  <2>1. CASE k \in 0 .. s_ninode - 1
    <3>1. k \in Entry
      BY <1>0, <1>1, <2>1 DEF Entry
    <3>2. Filled[k] \div PerBlock \in Nat
      BY <1>1, <3>1, BlocksIs
    <3> QED BY <1>0, <1>4, <2>1, <3>2
  <2>2. CASE k \in s_ninode .. FilledN - 1
    BY <1>0, <1>1, <1>3, <2>2
  <2> QED BY <1>2, <2>1, <2>2
<1>9. \A k, m \in 0 .. FilledN - 1 : Filled[k] = Filled[m] => k = m
  <2> SUFFICES ASSUME NEW k \in 0 .. FilledN - 1, NEW m \in 0 .. FilledN - 1,
                      Filled[k] = Filled[m]
               PROVE  k = m
    OBVIOUS
  <2>1. CASE k \in 0 .. s_ninode - 1 /\ m \in 0 .. s_ninode - 1
    BY <1>5, <2>1
  <2>2. CASE k \in s_ninode .. FilledN - 1 /\ m \in s_ninode .. FilledN - 1
    BY <1>1, <2>2
  <2>3. \A a \in 0 .. s_ninode - 1, b \in s_ninode .. FilledN - 1 : Filled[a] # Filled[b]
    <3> TAKE a \in 0 .. s_ninode - 1, b \in s_ninode .. FilledN - 1
    <3>1. Filled[a] \div PerBlock < blk /\ Filled[b] \div PerBlock = blk
      BY <1>1, <1>3, <1>4
    <3>2. ~ (blk < blk)
      BY <1>0
    <3> QED BY <3>1, <3>2
  <2> QED BY <1>2, <2>1, <2>2, <2>3
<1> QED BY <1>6, <1>7, <1>8, <1>9 DEF ListOK

\* The loop of IAlloc finds an inode on a sound list, and leaves it sound.
LEMMA TakeSound ==
  ASSUME BaseInv, Modes, Sound, NEW p \in Proc, NEW arr \in [Entry -> Ino],
         NEW n \in 0 .. MaxFree, n > 0, NEW w \in [Proc -> PCs],
         pc[p] \in {"user", "ilock", "scan"},
         ListOK(arr, n), Take(p, arr, n, core, w), Waking(p, w), disk' = disk, s_ilock' = FALSE
  PROVE  Sound'
<1>t. /\ core \in [Ino -> Node] /\ core[0] = Root /\ pc \in [Proc -> PCs] /\ ino \in [Proc -> Ino]
      /\ op \in [Proc -> {"alloc", "open", "unlink"}] /\ n \in Nat /\ MaxFree \in Nat
  BY LoopTypes, ConstantsAssumption DEF BaseInv, RootIs
<1>0. \A k \in 0 .. n - 1 : arr[k] \in Ino /\ ~ PassesOver(core, arr[k])
  <2> TAKE k \in 0 .. n - 1
  <2>1. k \in Entry
    BY <1>t DEF Entry
  <2> QED BY <2>1, NoFile DEF ListOK, PassesOver
<1>1. 0 \in 0 .. n - 1
  BY <1>t
<1>2. /\ s_inode' = arr /\ files' = files
      /\ \E k \in 0 .. n - 1 :
           /\ s_ninode' = k
           /\ ino' = [ino EXCEPT ![p] = arr[k]] /\ op' = [op EXCEPT ![p] = "alloc"]
           /\ Stops(p, core, arr[k], w)
  BY <1>t, <1>0, <1>1, TakeIs
<1>3. PICK k \in 0 .. n - 1 :
        /\ s_ninode' = k
        /\ ino' = [ino EXCEPT ![p] = arr[k]] /\ op' = [op EXCEPT ![p] = "alloc"]
        /\ Stops(p, core, arr[k], w)
  BY <1>2
<1>4. k \in Nat /\ k < n /\ \A m \in 0 .. k - 1 : m \in 0 .. n - 1 /\ m # k
  BY <1>t
<1>5. /\ pc'[p] \in {"igetSleep", "user", "iread"}
      /\ pc'[p] = "iread" => core[arr[k]].count = 0
      /\ \A q \in Proc \ {p} : pc'[q] = w[q]
  BY <1>3 DEF Stops
<1>6. ino'[p] = arr[k] /\ \A q \in Proc \ {p} : ino'[q] = ino[q] /\ op'[q] = op[q]
  BY <1>t, <1>3
<1>7. \A q \in Proc \ {p} : \A l \in FilePCs \cup {"wild", "iread"} : (pc'[q] = l) <=> (pc[q] = l)
  BY <1>5 DEF Waking, FilePCs
<1>8. \A q \in Proc : pc'[q] # "wild"
  BY <1>5, <1>7 DEF Sound
<1>9. \A q \in Proc : pc'[q] = "iread" =>
        (\A m \in 0 .. k - 1 : arr[m] # ino'[q]) /\ ~ disk[ino'[q]].mode
  <2> SUFFICES ASSUME NEW q \in Proc, pc'[q] = "iread"
               PROVE  (\A m \in 0 .. k - 1 : arr[m] # ino'[q]) /\ ~ disk[ino'[q]].mode
    OBVIOUS
  <2>1. CASE q = p
    <3>1. ~ disk[arr[k]].mode
      BY <1>0, <1>5, <2>1, NoFile DEF ListOK
    <3>2. \A m \in 0 .. k - 1 : arr[m] # arr[k]
      BY <1>4 DEF ListOK
    <3> QED BY <1>6, <2>1, <3>1, <3>2
  <2>2. CASE q # p
    <3>1. pc[q] = "iread" /\ ino'[q] = ino[q]
      BY <1>6, <1>7, <2>2
    <3> QED BY <1>4, <3>1 DEF Sound, ListOK
  <2> QED BY <2>1, <2>2
<1>10. \A q \in Proc : pc'[q] \in FilePCs => op'[q] # "alloc"
  BY <1>5, <1>6, <1>7 DEF Sound, FilePCs
<1>11. \A q \in Proc : pc'[q] = "iread" => ~ Listed(ino[q])'
  BY <1>2, <1>3, <1>9 DEF Listed
<1>12. /\ \A m \in 0 .. k - 1 : files[arr[m]] = 0
       /\ \A m, j \in 0 .. k - 1 : arr[m] = arr[j] => m = j
  BY <1>4 DEF ListOK
<1> QED BY <1>2, <1>3, <1>8, <1>9, <1>10, <1>11, <1>12 DEF Sound

\* An inode that another process reads is not touched.
LEMMA ReaderApart ==
  ASSUME BaseInv, NEW p \in Proc, Frame(p), NEW q \in Proc \ {p}, pc[q] = "iread"
  PROVE  disk'[ino[q]] = disk[ino[q]] /\ files'[ino[q]] = files[ino[q]] /\ ~ Touched(p, ino[q])
<1>1. PICK x \in File : x = ino[q] /\ x \in Ino
  BY Mine DEF RefPCs, AlonePCs, ReadPCs
<1>2. ~ Touched(p, x)
  <2> SUFFICES ASSUME Touched(p, x) PROVE FALSE
    OBVIOUS
  <2>1. Ref(p, x) \/ ~ core[x].lock
    BY DEF Touched, Frame
  <2> QED BY <1>1, <2>1, NoOtherReader DEF AlonePCs, ReadPCs
<1>3. ~ Touched(p, ino[q])
  BY <1>1, <1>2 DEF Touched, Ref, Frame, OthersStay
<1> QED BY <1>1, <1>2, <1>3 DEF Frame

LEMMA TruncSound ==
  ASSUME BaseInv, Modes, Names, Sound, NEW p \in Proc, Frame(p), ITruncDone(p)
  PROVE  Sound'
<1>0. PICK i \in File : i = ino[p]
  BY Mine DEF ITruncDone, RefPCs, AlonePCs
<1>1. /\ pc[p] = "itrunc" /\ IFree(i)
      /\ files' = [files EXCEPT ![i] = @ - 1]
      /\ pc' = [pc EXCEPT ![p] = "iupdate"]
      /\ UNCHANGED <<disk, ino, op, blk>>
  BY <1>0 DEF ITruncDone, Goto
<1>2. /\ Types /\ i \in Ino /\ Ref(p, i) /\ core[i].count = 1 /\ MaxFree \in Nat
      /\ s_ninode \in Nat /\ s_ninode <= MaxFree
  BY <1>0, <1>1, Mine, ConstantsAssumption DEF BaseInv, Types, RefPCs, AlonePCs
<1>3. files[i] = 1
  <2>1. DataFor(p, i)
    BY <1>2, DataHere
  <2>2. ValidFor(p, i) /\ core[i].mode
    BY <1>0, <1>1, <1>2, <2>1 DEF ValidFor, ReadPCs, DataFor
  <2> QED BY <2>1, <2>2 DEF DataFor, ModeFor
<1>4. files'[i] = 0 /\ \A x \in Ino \ {i} : files'[x] = files[x]
  BY <1>1, <1>2, <1>3 DEF Types
<1>5. \A k \in 0 .. s_ninode - 1 : s_inode[k] \in Ino /\ s_inode[k] # i /\ files'[s_inode[k]] = 0
  <2> TAKE k \in 0 .. s_ninode - 1
  <2>1. k \in Entry /\ files[s_inode[k]] = 0
    BY <1>2 DEF Entry, Sound
  <2> QED BY <1>2, <1>3, <1>4, <2>1 DEF Types
<1>6. OthersStay(p) /\ pc'[p] = "iupdate" /\ op'[p] # "alloc"
  BY <1>1, <1>2 DEF Frame, Sound, FilePCs, Types
<1>7. CASE s_inode' = s_inode /\ s_ninode' = s_ninode
  <2>1. s_ilock' = s_ilock
    BY <1>1, <1>2, FreeIs
  <2> QED BY <1>1, <1>2, <1>5, <1>6, <1>7, <2>1, SoundStays
<1>8. CASE /\ ~ s_ilock /\ s_ninode \in Entry /\ s_ninode' = s_ninode + 1
           /\ s_inode' = [s_inode EXCEPT ![s_ninode] = i] /\ s_ilock' = s_ilock
  <2> DEFINE n == s_ninode
  <2>1. /\ s_inode'[n] = i
        /\ \A k \in 0 .. n - 1 : s_inode'[k] = s_inode[k]
    <3>1. \A k \in 0 .. n - 1 : k \in Entry /\ k # n
      BY <1>2 DEF Entry
    <3> QED BY <1>2, <1>8, <3>1 DEF Types
  <2>2. \A k \in 0 .. s_ninode' - 1 : k = n \/ k \in 0 .. n - 1
    BY <1>2, <1>8
  <2>3. \A k \in 0 .. s_ninode' - 1 : files'[s_inode'[k]] = 0
    BY <1>4, <1>5, <2>1, <2>2
  <2>4. \A k, m \in 0 .. s_ninode' - 1 : s_inode'[k] = s_inode'[m] => k = m
    BY <1>5, <2>1, <2>2 DEF Sound
  <2>5. \A q \in Proc \ {p} : ino'[q] = ino[q] /\ op'[q] = op[q] /\ pc'[q] = pc[q]
    BY <1>1, <1>2 DEF Types
  <2>6. \A q \in Proc : pc'[q] = "iread" => ~ Listed(ino[q])' /\ ~ disk'[ino'[q]].mode
    <3> SUFFICES ASSUME NEW q \in Proc, pc'[q] = "iread"
                 PROVE  ~ Listed(ino[q])' /\ ~ disk'[ino'[q]].mode
      OBVIOUS
    <3>1. q # p /\ pc[q] = "iread" /\ ino'[q] = ino[q]
      BY <1>1, <1>6, <2>5
    <3>2. ino[q] # i
      BY <1>2, <3>1, ReaderApart DEF Touched
    <3>3. ~ Listed(ino[q]) /\ ~ disk'[ino[q]].mode
      BY <1>1, <3>1 DEF Sound
    <3>4. \A k \in 0 .. s_ninode' - 1 : s_inode'[k] # ino[q]
      BY <2>1, <2>2, <3>2, <3>3 DEF Listed
    <3> QED BY <3>1, <3>3, <3>4 DEF Listed
  <2>7. \A q \in Proc : pc'[q] # "wild"
    BY <1>6, <2>5 DEF Sound
  <2>8. \A q \in Proc : pc'[q] \in FilePCs => op'[q] # "alloc"
    BY <1>6, <2>5 DEF Sound
  <2> QED BY <1>8, <2>3, <2>4, <2>6, <2>7, <2>8 DEF Sound
<1> QED BY <1>1, <1>2, <1>7, <1>8, FreeIs

LEMMA BlockSound ==
  ASSUME BaseInv, Modes, Sound, NEW p \in Proc, ScanBlock(p)
  PROVE  Sound'
<1>1. /\ s_inode' = Filled /\ s_ninode' = FilledN /\ blk' = blk + 1
      /\ UNCHANGED <<disk, pc, ino, op, files>>
  BY DEF ScanBlock, procs, hist
<1>2. /\ ListOK(Filled, FilledN)
      /\ \A k \in 0 .. FilledN - 1 : Filled[k] \div PerBlock < blk + 1
  BY FilledSound DEF ScanBlock
<1>3. \A q \in Proc : pc'[q] = "iread" => ~ Listed(ino[q])'
  BY <1>1, <1>2 DEF ListOK, Listed
<1>4. /\ \A q \in Proc : pc'[q] # "wild"
      /\ \A q \in Proc : pc'[q] = "iread" => ~ disk'[ino'[q]].mode
      /\ \A q \in Proc : pc'[q] \in FilePCs => op'[q] # "alloc"
  BY <1>1 DEF Sound
<1> QED BY <1>1, <1>2, <1>3, <1>4 DEF Sound, ListOK

LEMMA SoundStep ==
  ASSUME BaseInv, Modes, Names, Sound, NEW p \in Proc, Step(p)
  PROVE  Sound'
<1>t. /\ Types /\ s_ninode \in 0 .. MaxFree /\ s_ninode \in Nat /\ s_inode \in [Entry -> Ino]
      /\ core \in [Ino -> Node] /\ pc \in [Proc -> PCs] /\ Woken \in [Proc -> PCs]
      /\ op \in [Proc -> {"alloc", "open", "unlink"}] /\ MaxFree \in Nat
  BY LoopTypes, ConstantsAssumption DEF BaseInv
<1>0. ASSUME ~ UpdateInodeTable(p)
      PROVE  /\ Frame(p) /\ OthersStay(p)
             /\ \A q \in Proc \ {p} : pc[q] = "iread" => disk'[ino[q]] = disk[ino[q]]
  <2>1. Frame(p)
    BY <1>0, StepOK DEF Local
  <2> QED BY <2>1, ReaderApart DEF Frame
<1>s. \A k \in 0 .. s_ninode - 1 : files[s_inode[k]] = 0
  BY DEF Sound
\* the steps that change neither the list nor what files have
<1>1. ASSUME UNCHANGED <<s_inode, s_ninode, files>>, ~ UpdateInodeTable(p),
             (s_ilock' => s_ilock /\ blk' = blk) \/ s_ninode = 0,
             pc'[p] \notin {"wild", "iread"}, pc'[p] \in FilePCs => op'[p] # "alloc"
      PROVE  Sound'
  BY <1>t, <1>0, <1>1, <1>s, SoundStays
<1>2. CASE IAllocSleep(p)
  <2>1. UNCHANGED <<s_inode, s_ninode, s_ilock, blk, files>> /\ pc'[p] = "ilockSleep" /\ pc[p] # "sync2"
    BY <1>t, <1>2 DEF IAllocSleep, Begin, Goto, spb, hist
  <2> QED BY <1>1, <2>1 DEF UpdateInodeTable, FilePCs
<1>3. CASE IAllocSearch(p)
  <2>1. UNCHANGED <<s_inode, s_ninode, files>> /\ pc'[p] = "scan" /\ pc[p] # "sync2" /\ s_ninode = 0
    BY <1>t, <1>3 DEF IAllocSearch, Begin, Goto, hist
  <2> QED BY <1>1, <2>1 DEF UpdateInodeTable, FilePCs
<1>4. CASE ScanBlock(p)
  BY <1>4, BlockSound
<1>5. CASE ScanNone(p)
  <2>1. UNCHANGED <<s_inode, s_ninode, files>> /\ pc'[p] = "user" /\ pc[p] # "sync2" /\ s_ilock' = FALSE
    BY <1>t, <1>5 DEF ScanNone
  <2> QED BY <1>1, <2>1 DEF UpdateInodeTable, FilePCs
<1>6. CASE IAllocTake(p)
  <2>1. /\ pc[p] \in {"user", "ilock"} /\ s_ninode > 0 /\ s_ilock' = FALSE /\ disk' = disk
        /\ Take(p, s_inode, s_ninode, core, pc) /\ Waking(p, pc)
    BY <1>t, <1>6 DEF IAllocTake, Begin, Types, Waking
  <2> QED BY <1>t, <2>1, SoundList, TakeSound
<1>7. CASE ScanTake(p)
  <2>1. /\ pc[p] = "scan" /\ FilledN > 0 /\ s_ilock' = FALSE /\ disk' = disk
        /\ Take(p, Filled, FilledN, core, Woken) /\ Waking(p, Woken)
    BY <1>7 DEF ScanTake, Waking, Woken
  <2>2. Filled \in [Entry -> Ino] /\ FilledN \in 0 .. MaxFree
    BY <1>t, FilledIs
  <2>3. ListOK(Filled, FilledN)
    BY <2>1, FilledSound
  <2> QED BY <1>t, <2>1, <2>2, <2>3, TakeSound
<1>8. CASE IAllocDone(p)
  <2>1. /\ UNCHANGED <<s_inode, s_ninode, s_ilock, blk>> /\ pc'[p] = "made" /\ pc[p] = "iread"
        /\ files' = [files EXCEPT ![ino[p]] = @ + 1]
    BY <1>t, <1>8 DEF IAllocDone, Goto
  <2>2. ~ Listed(ino[p])
    BY <2>1 DEF Sound
  <2>3. \A k \in 0 .. s_ninode - 1 : s_inode[k] \in Ino /\ s_inode[k] # ino[p]
    BY <1>t, <2>2 DEF Listed, Entry
  <2>4. \A k \in 0 .. s_ninode - 1 : files'[s_inode[k]] = 0
    BY <1>t, <1>s, <2>1, <2>3 DEF Types
  <2> QED BY <1>t, <1>0, <2>1, <2>4, SoundStays DEF UpdateInodeTable, FilePCs
<1>9. CASE IAllocAgain(p)
  BY <1>9 DEF IAllocAgain, Sound
<1>10. CASE MakNodeDone(p)
  <2>1. /\ UNCHANGED <<s_inode, s_ninode, s_ilock, blk, files>> /\ pc'[p] = "open" /\ pc[p] # "sync2"
        /\ op'[p] = "open"
    BY <1>t, <1>10 DEF MakNodeDone, Goto, spb, hist
  <2> QED BY <1>1, <2>1 DEF UpdateInodeTable
<1>11. CASE ITruncDone(p)
  <2>1. pc[p] # "sync2"
    BY <1>11 DEF ITruncDone
  <2> QED BY <1>0, <1>11, <2>1, TruncSound DEF UpdateInodeTable
<1>12. CASE IUpdateDone(p)
  <2>1. op[p] # "alloc" /\ pc[p] # "sync2"
    BY <1>12 DEF IUpdateDone, Sound, FilePCs
  <2>2. /\ UNCHANGED <<s_inode, s_ninode, s_ilock, blk, files>> /\ pc'[p] = "user"
    BY <1>t, <1>12, <2>1 DEF IUpdateDone, Goto, spb
  <2> QED BY <1>1, <2>1, <2>2 DEF UpdateInodeTable, FilePCs
<1>13. CASE ReadDone(p)
  <2>1. /\ UNCHANGED <<s_inode, s_ninode, s_ilock, blk, files>> /\ pc'[p] \in {"open", "unlink"}
        /\ pc[p] = "oread" /\ op'[p] = op[p]
    BY <1>t, <1>13 DEF ReadDone, Goto, After, spb, hist
  <2>2. op[p] # "alloc"
    BY <2>1 DEF Sound, FilePCs
  <2> QED BY <1>1, <2>1, <2>2 DEF UpdateInodeTable
<1>14. CASE Close(p)
  <2>1. /\ UNCHANGED <<s_inode, s_ninode, s_ilock, blk, files>>
        /\ pc'[p] \in {"user", "itrunc", "iupdate"} /\ pc[p] = "open" /\ op'[p] = op[p]
    BY <1>t, <1>14 DEF Close, IPut, Goto, spb, hist
  <2>2. op[p] # "alloc"
    BY <2>1 DEF Sound, FilePCs
  <2> QED BY <1>1, <2>1, <2>2 DEF UpdateInodeTable
<1>15. CASE UnLink(p)
  <2>1. /\ UNCHANGED <<s_inode, s_ninode, s_ilock, blk, files>>
        /\ pc'[p] \in {"user", "itrunc", "iupdate"} /\ pc[p] = "unlink" /\ op'[p] = "open"
    BY <1>t, <1>15 DEF UnLink, IPut, Goto, spb, hist
  <2> QED BY <1>1, <2>1 DEF UpdateInodeTable
<1>16. CASE Update(p) \/ UpdateSector0(p) \/ UpdateSector1(p)
  <2>1. /\ UNCHANGED <<s_inode, s_ninode, s_ilock, blk, files>> /\ pc[p] # "sync2"
        /\ pc'[p] \in {"sync0", "sync1", "sync2"}
    BY <1>t, <1>16 DEF Update, UpdateSector0, UpdateSector1, Goto, spb, hist
  <2> QED BY <1>1, <2>1 DEF UpdateInodeTable, FilePCs
<1>17. CASE UpdateInodeTable(p)
  <2>1. /\ UNCHANGED <<s_inode, s_ninode, s_ilock, blk, files, ino, op>>
        /\ pc' = [pc EXCEPT ![p] = "user"]
        /\ disk' = [i \in Ino |->
                      IF i \in {j \in File : IsLoaded(j) /\ ~ core[j].lock /\ core[j].upd}
                      THEN [mode |-> core[i].mode, nlink |-> core[i].nlink] ELSE disk[i]]
    BY <1>17 DEF UpdateInodeTable, Goto, spb, hist
  <2>2. \A q \in Proc : pc[q] = "iread" => disk'[ino[q]] = disk[ino[q]]
    <3> SUFFICES ASSUME NEW q \in Proc, pc[q] = "iread" PROVE disk'[ino[q]] = disk[ino[q]]
      OBVIOUS
    <3>1. ino[q] \in Ino /\ core[ino[q]].lock
      BY Mine DEF RefPCs, AlonePCs, ReadPCs
    <3> QED BY <2>1, <3>1
  <2>3. OthersStay(p) /\ pc'[p] = "user"
    BY <1>t, <2>1 DEF OthersStay
  <2>4. \A k \in 0 .. s_ninode - 1 : files'[s_inode[k]] = 0
    BY <1>s, <2>1
  <2> QED BY <1>t, <2>1, <2>2, <2>3, <2>4, SoundStays DEF FilePCs
<1>18. CASE \E i \in File : Lookup(p, "open", i) \/ Lookup(p, "unlink", i)
  <2>1. /\ UNCHANGED <<s_inode, s_ninode, s_ilock, blk, files>> /\ pc[p] # "sync2"
        /\ pc'[p] \in {"igetSleep", "oread", "open", "unlink"} /\ op'[p] \in {"open", "unlink"}
    BY <1>t, <1>18 DEF Lookup, Goto, After, spb, hist
  <2> QED BY <1>1, <2>1 DEF UpdateInodeTable
<1> QED BY <1>2, <1>3, <1>4, <1>5, <1>6, <1>7, <1>8, <1>9, <1>10, <1>11, <1>12, <1>13,
           <1>14, <1>15, <1>16, <1>17, <1>18 DEF Step

LEMMA InitSound == Init => Sound
<1> SUFFICES ASSUME Init PROVE Sound
  OBVIOUS
<1>1. MaxFree \in Nat /\ MaxFree < NIno /\ NIno \in Nat
  BY ConstantsAssumption
<1>2. /\ s_ninode = MaxFree /\ s_inode = [k \in Entry |-> MaxFree - k] /\ s_ilock = FALSE
      /\ files = [i \in Ino |-> IF i = 0 THEN 1 ELSE 0]
      /\ \A q \in Proc : pc[q] = "user"
  BY DEF Init
<1>3. \A k \in 0 .. s_ninode - 1 : /\ s_inode[k] = MaxFree - k
                                   /\ MaxFree - k \in Ino /\ MaxFree - k # 0
  BY <1>1, <1>2 DEF Entry, Ino
<1>4. \A k \in 0 .. s_ninode - 1 : files[s_inode[k]] = 0
  BY <1>2, <1>3
<1>5. \A k, m \in 0 .. s_ninode - 1 : s_inode[k] = s_inode[m] => k = m
  BY <1>1, <1>2, <1>3
<1> QED BY <1>2, <1>4, <1>5 DEF Sound, FilePCs

LEMMA Inductive == Spec => []IndInv
<1>1. Init => IndInv
  BY InitOK, InitSound DEF IndInv, FileInv
<1>2. IndInv /\ [Next]_vars => IndInv'
  <2> SUFFICES ASSUME IndInv, [Next]_vars PROVE IndInv'
    OBVIOUS
  <2>1. (BaseInv /\ Modes /\ Names)'
    BY BaseStep DEF IndInv, FileInv
  <2>2. ASSUME crashes' = 0 PROVE Sound'
    <3>1. crashes \in Nat
      BY ConstantsAssumption DEF IndInv, BaseInv, Types
    <3>2. CASE Crash
      BY <2>2, <3>1, <3>2 DEF Crash
    <3>3. ASSUME NEW p \in Proc, Step(p) PROVE Sound'
      <4>1. crashes' = crashes
        BY <3>3 DEF Step, IAllocSleep, IAllocTake, IAllocSearch, ScanBlock, ScanNone, ScanTake,
             IAllocDone, IAllocAgain, MakNodeDone, ITruncDone, IUpdateDone, ReadDone, Close, UnLink,
             Update, UpdateSector0, UpdateSector1, UpdateInodeTable, Lookup, hist
      <4>2. Sound
        BY <2>2, <4>1 DEF IndInv, FileInv
      <4> QED BY <3>3, <4>2, SoundStep DEF IndInv, FileInv
    <3>4. CASE UNCHANGED vars
      <4>1. /\ s_inode' = s_inode /\ s_ninode' = s_ninode /\ s_ilock' = s_ilock /\ blk' = blk
            /\ disk' = disk /\ pc' = pc /\ ino' = ino /\ op' = op /\ files' = files
            /\ crashes' = crashes
        BY <3>4 DEF vars, spb, procs, hist
      <4>2. Sound
        BY <2>2, <4>1 DEF IndInv, FileInv
      <4>3. \A i : Listed(i)' <=> Listed(i)
        BY <4>1 DEF Listed
      <4>4. \A q \in Proc : pc'[q] = "iread" => ~ Listed(ino[q])'
        BY <4>1, <4>2 DEF Listed, Sound
      <4> QED BY <4>1, <4>2, <4>4 DEF Sound
    <3> QED BY <3>2, <3>3, <3>4 DEF Next
  <2> QED BY <2>1, <2>2 DEF IndInv, FileInv
<1> QED BY <1>1, <1>2, PTL DEF Spec

\* Until the first crash the list names each inode once and none that a file
\* has, and the loop of IAlloc finds an inode on it: IFree keeps off a list
\* that is locked, and the search keeps off an inode that is in memory.
THEOREM ListIsSound == Spec => []ListSound
<1>1. IndInv => ListSound
  BY DEF IndInv, FileInv, Sound, ListSound
<1> QED BY <1>1, Inductive, PTL

----------------------------------------------------------------------------
(* ENOSPC *)

\* With an entry for every process there is room for one that has no inode.
LEMMA RoomIs ==
  ASSUME TableHasRoom, NEW p \in Proc, NEW c,
         \A x \in File : c[x].count # 0 => \E q \in Proc \ {p} : Ref(q, x)
  PROVE  Room(c)
<1> DEFINE L == {x \in File : c[x].count # 0}
           Others == Proc \ {p}
           f == [x \in L |-> CHOOSE q \in Others : Ref(q, x)]
<1>1. /\ IsFiniteSet(Others) /\ Cardinality(Others) = Cardinality(Proc) - 1
      /\ Cardinality(Proc) \in Nat
  BY ConstantsAssumption, FS_RemoveElement, FS_CardinalityType
<1>2. \A x \in L : f[x] \in Others /\ Ref(f[x], x)
  OBVIOUS
<1> HIDE DEF f
<1>3. f \in [L -> Others]
  <2>1. f = [x \in L |-> f[x]]
    BY DEF f
  <2> QED BY <1>2, <2>1
<1>4. \A x, y \in L : f[x] = f[y] => x = y
  BY <1>2 DEF Ref
<1>5. f \in Injection(L, Others)
  BY <1>3, <1>4 DEF Injection, IsInjective
<1>6. IsFiniteSet(L) /\ Cardinality(L) <= Cardinality(Others)
  BY <1>1, <1>5, FS_Injection
<1>7. Cardinality(L) \in Nat
  BY <1>6, FS_CardinalityType
<1> HIDE DEF L
<1>8. Cardinality(L) < NINODE
  BY <1>1, <1>6, <1>7, ConstantsAssumption DEF TableHasRoom
<1> QED BY <1>8 DEF Room, L

\* What the search has found and nobody has taken is on the list.
Owed(i) == ~ disk[i].mode /\ ~ IsLoaded(i) /\ i \notin late

\* the numbers that the loop drops are in memory afterwards
LEMMA TakeDrops ==
  ASSUME BaseInv, TableHasRoom, NEW p \in Proc, NEW arr \in [Entry -> Ino],
         NEW n \in 0 .. MaxFree, NEW c \in [Ino -> Node], c[0] = Root, NEW w,
         Take(p, arr, n, c, w),
         \A x \in File : c[x].count # 0 => \E q \in Proc \ {p} : Ref(q, x),
         \A x \in Ino : c[x].lock => c[x].count # 0,
         NEW k \in 0 .. n - 1, core'[arr[k]].count = 0
  PROVE  k \in 0 .. s_ninode' - 1 /\ s_inode' = arr
<1>1. /\ s_inode' = arr
      /\ \/ /\ core' = c
            /\ \A m \in 0 .. n - 1 : PassesOver(c, arr[m])
         \/ \E j \in 0 .. n - 1 :
              /\ s_ninode' = j /\ arr[j] \in File
              /\ \A m \in 0 .. n - 1 : m > j => PassesOver(c, arr[m])
              /\ Stops(p, c, arr[j], w)
  <2>1. /\ s_inode' = arr /\ files' = files
        /\ \/ /\ s_ninode' = 0 /\ core' = c /\ pc' = [w EXCEPT ![p] = "wild"]
              /\ ino' = ino /\ op' = op
              /\ \A m \in 0 .. n - 1 : PassesOver(c, arr[m])
           \/ \E j \in 0 .. n - 1 :
                /\ j \in Entry /\ s_ninode' = j /\ arr[j] \in File
                /\ \A m \in 0 .. n - 1 : m > j => PassesOver(c, arr[m])
                /\ ino' = [ino EXCEPT ![p] = arr[j]] /\ op' = [op EXCEPT ![p] = "alloc"]
                /\ ~ PassesOver(c, arr[j])
                /\ Stops(p, c, arr[j], w)
    BY TakeIs, Zenon
  <2>2. CASE \E j \in 0 .. n - 1 :
                /\ j \in Entry /\ s_ninode' = j /\ arr[j] \in File
                /\ \A m \in 0 .. n - 1 : m > j => PassesOver(c, arr[m])
                /\ ino' = [ino EXCEPT ![p] = arr[j]] /\ op' = [op EXCEPT ![p] = "alloc"]
                /\ ~ PassesOver(c, arr[j])
                /\ Stops(p, c, arr[j], w)
    BY <2>1, <2>2
  <2> QED BY <2>1, <2>2
<1>2. MaxFree \in Nat /\ n \in Nat /\ k \in Entry
  BY ConstantsAssumption DEF Entry
<1>3. arr[k] \in Ino
  BY <1>2
<1>4. CASE core' = c /\ \A m \in 0 .. n - 1 : PassesOver(c, arr[m])
  BY <1>4 DEF PassesOver
<1>5. ASSUME NEW j \in 0 .. n - 1, s_ninode' = j, arr[j] \in File,
             \A m \in 0 .. n - 1 : m > j => PassesOver(c, arr[m]),
             Stops(p, c, arr[j], w)
      PROVE  k \in 0 .. s_ninode' - 1
  <2>1. Room(c)
    BY RoomIs
  <2>2. arr[j] \in Ino
    BY <1>5 DEF File
  <2>3. \/ c[arr[j]].lock /\ core' = c
        \/ core' = [c EXCEPT ![arr[j]] = [Absent EXCEPT !.count = 1, !.lock = TRUE]]
    BY <1>5, <2>1 DEF Stops
  <2>4. core'[arr[j]].count # 0
    <3>1. CASE c[arr[j]].lock /\ core' = c
      BY <2>2, <3>1
    <3>2. CASE core' = [c EXCEPT ![arr[j]] = [Absent EXCEPT !.count = 1, !.lock = TRUE]]
      BY <2>2, <3>2 DEF Absent
    <3> QED BY <2>3, <3>1, <3>2
  <2>5. \A x \in Ino : x # arr[j] => core'[x] = c[x]
    BY <2>3
  <2>6. ~ (k > j)
    <3> SUFFICES ASSUME k > j PROVE FALSE
      OBVIOUS
    <3>1. c[arr[k]].count # 0
      BY <1>5 DEF PassesOver
    <3> QED BY <1>3, <2>4, <2>5, <3>1
  <2>7. k # j
    BY <2>4
  <2> QED BY <1>2, <1>5, <2>6, <2>7
<1> QED BY <1>1, <1>4, <1>5

\* the inodes in memory other than the one of p have the references of others
LEMMA OthersHave ==
  ASSUME BaseInv, NEW p \in Proc, NEW x \in File, core[x].count # 0, ~ Ref(p, x)
  PROVE  \E q \in Proc \ {p} : Ref(q, x)
BY SomeRef DEF BaseInv

\* A step keeps what is owed on the list if it drops nothing that is owed.
LEMMA SearchedStays ==
  ASSUME Searched, s_ilock' => s_ilock, blk' = blk,
         \A i \in Ino : Owed(i)' => Owed(i),
         \A i \in Ino : Owed(i)' /\ Listed(i) => Listed(i)'
  PROVE  Searched'
BY DEF Searched, Owed

\* Only an inode that p puts away can become owed.
LEMMA OwedStays ==
  ASSUME BaseInv, NEW p \in Proc, Frame(p), late \subseteq late',
         \A x \in File : Ref(p, x) /\ ~ Ref(p, x)' /\ core'[x].count = 0 =>
           disk'[x].mode \/ x \in late'
  PROVE  \A i \in Ino : Owed(i)' => Owed(i)
<1> SUFFICES ASSUME NEW i \in Ino, Owed(i)' PROVE Owed(i)
  OBVIOUS
<1>1. ~ disk'[i].mode /\ core'[i].count = 0 /\ i \notin late'
  BY DEF Owed, IsLoaded
<1>2. CASE ~ Touched(p, i)
  BY <1>1, <1>2 DEF Frame, Owed, IsLoaded
<1>3. CASE Touched(p, i)
  <2>1. i \in File
    BY <1>3 DEF Touched, Ref, Frame, BaseInv, RootIs, File
  <2>2. core[i].count \in Nat
    BY DEF BaseInv, Types, Node
  <2>3. Ref(p, i) => core[i].count >= 1
    BY <2>1, RefIsCounted DEF BaseInv
  <2>4. core'[i].count = core[i].count + (IF Ref(p, i)' THEN 1 ELSE 0)
                                       - (IF Ref(p, i) THEN 1 ELSE 0)
    BY <2>1 DEF Frame
  <2>5. ~ Ref(p, i)'
    BY <1>1, <2>2, <2>3, <2>4
  <2>6. Ref(p, i)
    BY <1>3, <2>5 DEF Touched
  <2> QED BY <1>1, <2>1, <2>5, <2>6
<1> QED BY <1>2, <1>3

LEMMA BlockSearched ==
  ASSUME BaseInv, Searched, NEW p \in Proc, ScanBlock(p)
  PROVE  Searched'
<1>1. /\ s_inode' = Filled /\ s_ninode' = FilledN /\ blk' = blk + 1 /\ ~ Last
      /\ UNCHANGED <<disk, core, late>>
  BY DEF ScanBlock, hist
<1>2. Types /\ s_ilock /\ s_ninode \in Nat /\ blk \in Nat /\ MaxFree \in Nat
  BY BlocksIs, ConstantsAssumption DEF BaseInv, Scanner, Types, ScanBlock
<1>3. /\ FilledN \in s_ninode .. MaxFree
      /\ \A k \in 0 .. s_ninode - 1 : Filled[k] = s_inode[k]
      /\ FilledN < MaxFree => \A i \in Unused(blk) : \E k \in s_ninode .. FilledN - 1 : Filled[k] = i
  BY <1>2, FilledIs
<1>4. FilledN < MaxFree
  BY <1>1, <1>2, <1>3 DEF Last
<1>5. ASSUME NEW i \in Ino, i \div PerBlock < blk + 1, Owed(i)
      PROVE  \E k \in 0 .. FilledN - 1 : Filled[k] = i
  <2>1. i \div PerBlock \in Nat
    BY BlocksIs
  <2>2. CASE i \div PerBlock < blk
    <3>1. PICK k \in 0 .. s_ninode - 1 : s_inode[k] = i
      BY <1>2, <1>5, <2>2 DEF Searched, Owed, Listed
    <3>2. k \in 0 .. FilledN - 1
      BY <1>2, <1>3
    <3> QED BY <1>3, <3>1, <3>2
  <2>3. CASE i \div PerBlock = blk
    <3>1. i \in Unused(blk)
      BY <1>5, <2>3 DEF Unused, Owed
    <3>2. PICK k \in s_ninode .. FilledN - 1 : Filled[k] = i
      BY <1>3, <1>4, <3>1
    <3>3. k \in 0 .. FilledN - 1
      BY <1>2, <1>3
    <3> QED BY <3>2, <3>3
  <2> QED BY <1>2, <1>5, <2>1, <2>2, <2>3
<1> QED BY <1>1, <1>5 DEF Searched, Owed, Listed, IsLoaded

\* The loop of IAlloc within IPut, while the disk is searched.
LEMMA LoopSearched ==
  ASSUME BaseInv, Searched, TableHasRoom, NEW p \in Proc, NEW i \in File, Ref(p, i),
         core[i].count = 1,
         Take(p, s_inode, s_ninode, [core EXCEPT ![i] = Absent], pc),
         s_ilock' = s_ilock, blk' = blk, late \subseteq late',
         \A x \in Ino \ {i} : disk'[x] = disk[x], disk'[i].mode \/ i \in late' \/ ~ s_ilock
  PROVE  Searched'
<1> DEFINE c == [core EXCEPT ![i] = Absent]
<1>0. Take(p, s_inode, s_ninode, c, pc)
  OBVIOUS
<1>1. /\ core \in [Ino -> Node] /\ s_inode \in [Entry -> Ino] /\ s_ninode \in 0 .. MaxFree
      /\ i \in Ino /\ 0 \in Ino /\ i # 0 /\ pc \in [Proc -> PCs]
  BY LoopTypes, ConstantsAssumption DEF BaseInv, File, Ino
<1>2. c \in [Ino -> Node] /\ c[i] = Absent /\ \A x \in Ino \ {i} : c[x] = core[x]
  BY <1>1, NewNode
<1> HIDE DEF c
<1>3. c[0] = Root
  BY <1>1, <1>2 DEF BaseInv, RootIs
<1>4. \A x \in File : c[x].count # 0 => \E q \in Proc \ {p} : Ref(q, x)
  <2> SUFFICES ASSUME NEW x \in File, c[x].count # 0 PROVE \E q \in Proc \ {p} : Ref(q, x)
    OBVIOUS
  <2>1. x # i /\ x \in Ino
    BY <1>2 DEF Absent, File
  <2>2. ~ Ref(p, x)
    BY <2>1 DEF Ref
  <2> QED BY <1>2, <2>1, <2>2, OthersHave
<1>5. \A x \in Ino : c[x].lock => c[x].count # 0
  BY <1>2 DEF Absent, BaseInv, Free
<1>6. \A k \in 0 .. s_ninode - 1 : core'[s_inode[k]].count = 0 => k \in 0 .. s_ninode' - 1 /\ s_inode' = s_inode
  BY <1>0, <1>1, <1>2, <1>3, <1>4, <1>5, TakeDrops
<1>7. \A x \in Ino : core'[x].count = 0 => c[x].count = 0
  <2>1. \/ core' = c
        \/ \E j \in 0 .. s_ninode - 1 :
             c[s_inode[j]].count = 0 /\ core' = [c EXCEPT ![s_inode[j]] = [Absent EXCEPT !.count = 1, !.lock = TRUE]]
    BY <1>0 DEF Take
  <2> QED BY <1>2, <2>1
<1>8. ASSUME s_ilock, NEW x \in Ino, Owed(x)' PROVE Owed(x)
  <2>1. x # i
    BY <1>8 DEF Owed
  <2> QED BY <1>2, <1>7, <1>8, <2>1 DEF Owed, IsLoaded
<1>9. ASSUME NEW x \in Ino, Owed(x)', Listed(x) PROVE Listed(x)'
  <2>1. PICK k \in 0 .. s_ninode - 1 : s_inode[k] = x
    BY <1>9 DEF Listed
  <2>2. core'[x].count = 0
    BY <1>9 DEF Owed, IsLoaded
  <2> QED BY <1>6, <2>1, <2>2 DEF Listed
<1> QED BY <1>8, <1>9 DEF Searched, Owed

LEMMA SearchedStep ==
  ASSUME BaseInv, Modes, Names, Searched, TableHasRoom, NEW p \in Proc, Step(p)
  PROVE  Searched'
<1>t. /\ Types /\ pc \in [Proc -> PCs] /\ core \in [Ino -> Node] /\ ino \in [Proc -> Ino]
  BY LoopTypes DEF BaseInv
<1>0. ASSUME s_ilock' = FALSE PROVE Searched'
  BY <1>0 DEF Searched
\* the steps that leave the list alone
<1>1. ASSUME UNCHANGED <<s_inode, s_ninode, s_ilock, blk, late>>, pc[p] # "sync2",
             \A x \in File : Ref(p, x) /\ ~ Ref(p, x)' /\ core'[x].count = 0 => disk'[x].mode
      PROVE  Searched'
  <2>1. Frame(p)
    BY <1>1, StepOK DEF Local, UpdateInodeTable
  <2>2. \A i \in Ino : Owed(i)' => Owed(i)
    BY <1>1, <2>1, OwedStays
  <2> QED BY <1>1, <2>2, SearchedStays DEF Listed
<1>2. ASSUME UNCHANGED <<s_inode, s_ninode, s_ilock, blk, late>>, pc[p] # "sync2",
             pc[p] \notin RefPCs \/ (pc'[p] \in RefPCs /\ ino'[p] = ino[p])
      PROVE  Searched'
  BY <1>1, <1>2 DEF Ref
<1>3. CASE IAllocSleep(p) \/ Update(p) \/ UpdateSector0(p) \/ UpdateSector1(p)
  <2>1. /\ UNCHANGED <<s_inode, s_ninode, s_ilock, blk, late>>
        /\ pc[p] \in {"user", "ilock", "sync0", "sync1"}
    BY <1>3 DEF IAllocSleep, Begin, Update, UpdateSector0, UpdateSector1, spb, hist
  <2> QED BY <1>2, <2>1 DEF RefPCs, AlonePCs, ReadPCs
<1>4. CASE IAllocTake(p)
  <2>1. s_ilock' = FALSE
    BY <1>t, <1>4 DEF IAllocTake, Types
  <2> QED BY <1>0, <2>1
<1>5. CASE IAllocSearch(p)
  <2>1. blk' = 0
    BY <1>5 DEF IAllocSearch
  <2>2. \A i \in Ino : ~ (i \div PerBlock < 0)
    BY BlocksIs
  <2> QED BY <2>1, <2>2 DEF Searched
<1>6. CASE ScanBlock(p)
  BY <1>6, BlockSearched
<1>7. CASE ScanNone(p) \/ ScanTake(p)
  BY <1>0, <1>7 DEF ScanNone, ScanTake
<1>8. CASE IAllocDone(p)
  <2>1. /\ UNCHANGED <<s_inode, s_ninode, s_ilock, blk, late, ino>>
        /\ pc[p] = "iread" /\ pc'[p] = "made"
    BY <1>t, <1>8 DEF IAllocDone, Goto
  <2> QED BY <1>2, <2>1 DEF RefPCs, AlonePCs
<1>9. CASE IAllocAgain(p)
  <2>0. PICK i \in File : i = ino[p]
    BY <1>9, Mine DEF IAllocAgain, RefPCs, AlonePCs, ReadPCs
  <2>1. /\ Ref(p, i) /\ core[i].count = 1 /\ pc[p] = "iread" /\ disk[i].mode
        /\ UNCHANGED <<disk, blk, late, s_ilock>>
    BY <1>9, <2>0, Mine DEF IAllocAgain, RefPCs, AlonePCs, ReadPCs, spb
  <2>2. CASE Take(p, s_inode, s_ninode, [core EXCEPT ![i] = Absent], pc)
    BY <2>1, <2>2, LoopSearched
  <2>3. CASE UNCHANGED <<s_inode, s_ninode>>
    <3>1. \A x \in File : Ref(p, x) => x = i
      BY <2>0 DEF Ref
    <3> QED BY <1>1, <2>1, <2>3, <3>1
  <2> QED BY <1>9, <2>0, <2>2, <2>3 DEF IAllocAgain, spb
<1>10. CASE MakNodeDone(p)
  <2>1. /\ UNCHANGED <<s_inode, s_ninode, s_ilock, blk, late, ino>>
        /\ pc[p] = "made" /\ pc'[p] = "open"
    BY <1>t, <1>10 DEF MakNodeDone, Goto, spb, hist
  <2> QED BY <1>2, <2>1 DEF RefPCs
<1>11. CASE ITruncDone(p)
  <2>1. /\ UNCHANGED <<blk, late, ino>> /\ IFree(ino[p])
        /\ pc[p] = "itrunc" /\ pc'[p] = "iupdate"
    BY <1>t, <1>11 DEF ITruncDone, Goto
  <2>2. CASE s_ilock
    BY <1>2, <2>1, <2>2 DEF RefPCs, AlonePCs, IFree, spb
  <2>3. CASE ~ s_ilock
    <3>1. ~ s_ilock'
      BY <2>1, <2>3 DEF IFree, spb
    <3> QED BY <3>1 DEF Searched
  <2> QED BY <2>2, <2>3
<1>12. CASE IUpdateDone(p)
  <2>0. PICK i \in File : i = ino[p]
    BY <1>12, Mine DEF IUpdateDone, RefPCs, AlonePCs
  <2>1. /\ Ref(p, i) /\ i \in Ino /\ core[i].count = 1 /\ pc[p] = "iupdate"
        /\ UNCHANGED blk
        /\ disk' = [disk EXCEPT ![i] = [mode |-> core[i].mode, nlink |-> core[i].nlink]]
        /\ late' = IF core[i].mode \/ ~ s_ilock THEN late ELSE late \cup {i}
    BY <1>12, <2>0, Mine DEF IUpdateDone, RefPCs, AlonePCs
  <2>2. /\ \A x \in Ino \ {i} : disk'[x] = disk[x]
        /\ disk'[i].mode \/ i \in late' \/ ~ s_ilock
        /\ late \subseteq late'
    BY <1>t, <2>1 DEF Types
  <2>3. CASE Take(p, s_inode, s_ninode, [core EXCEPT ![i] = Absent], pc) /\ UNCHANGED s_ilock
    BY <2>1, <2>2, <2>3, LoopSearched
  <2>4. CASE UNCHANGED spb
    <3>1. UNCHANGED <<s_inode, s_ninode, s_ilock>>
      BY <2>4 DEF spb
    <3>2. CASE s_ilock
      <4>1. Frame(p)
        BY <2>1, StepOK DEF Local, UpdateInodeTable
      <4>2. \A x \in File : Ref(p, x) => x = i
        BY <2>0 DEF Ref
      <4>3. \A x \in Ino : Owed(x)' => Owed(x)
        BY <2>2, <3>2, <4>1, <4>2, OwedStays
      <4> QED BY <2>1, <3>1, <4>3, SearchedStays DEF Listed
    <3>3. CASE ~ s_ilock
      BY <3>1, <3>3 DEF Searched
    <3> QED BY <3>2, <3>3
  <2> QED BY <1>12, <2>0, <2>3, <2>4 DEF IUpdateDone
<1>13. CASE ReadDone(p)
  <2>1. /\ UNCHANGED <<s_inode, s_ninode, s_ilock, blk, late, ino>>
        /\ pc[p] = "oread" /\ pc'[p] \in {"open", "unlink"}
    BY <1>t, <1>13 DEF ReadDone, Goto, After, spb, hist
  <2> QED BY <1>2, <2>1 DEF RefPCs
<1>14. CASE Close(p) \/ UnLink(p)
  <2>0. PICK i \in File : i = ino[p]
    BY <1>14, Mine DEF Close, UnLink, RefPCs
  <2>1. /\ Ref(p, i) /\ i \in Ino /\ core[i] \in Node /\ pc[p] \in {"open", "unlink"}
        /\ UNCHANGED <<s_inode, s_ninode, s_ilock, blk, late, disk>>
    BY <1>14, <2>0, Mine DEF Close, UnLink, RefPCs, spb, hist
  <2>2. DataFor(p, i)
    BY <2>1, DataHere
  <2>3. core[i].count >= 1 /\ core[i].count \in Nat
    BY <1>t, <2>1, RefIsCounted DEF BaseInv
  <2>4. ValidFor(p, i) /\ core[i].mode /\ (~ core[i].upd => disk[i].mode)
    BY <2>0, <2>1, <2>2, <2>3 DEF DataFor, ValidFor, ReadPCs
  <2>5. core'[i].count = 0 => disk[i].mode
    <3>1. CASE Close(p)
      <4>1. IPut(p, i, core)
        BY <2>0, <3>1 DEF Close
      <4>2. CASE core[i].count > 1 /\ core' = [core EXCEPT ![i].count = @ - 1, ![i].lock = FALSE]
        <5>1. core'[i] = [[core[i] EXCEPT !.count = @ - 1] EXCEPT !.lock = FALSE]
          BY <1>t, <2>1, <4>2
        <5>2. core'[i].count = core[i].count - 1
          BY <2>1, <5>1 DEF Node
        <5> QED BY <2>3, <4>2, <5>2
      <4>3. CASE core[i].count = 1 /\ core' = [core EXCEPT ![i].lock = TRUE]
        <5>1. core'[i] = [core[i] EXCEPT !.lock = TRUE]
          BY <1>t, <2>1, <4>3
        <5> QED BY <2>1, <4>3, <5>1 DEF Node
      <4>4. CASE ~ core[i].upd
        BY <2>4, <4>4
      <4> QED BY <4>1, <4>2, <4>3, <4>4 DEF IPut
    <3>2. CASE UnLink(p)
      <4> DEFINE c == [core EXCEPT ![i].nlink = @ - 1, ![i].upd = TRUE]
      <4>1. IPut(p, i, c)
        BY <2>0, <3>2 DEF UnLink
      <4>2. c[i] = [[core[i] EXCEPT !.nlink = @ - 1] EXCEPT !.upd = TRUE]
        BY <1>t, <2>1
      <4>3. c[i] \in Node /\ c[i].upd
        <5>1. \A n \in Node : [n EXCEPT !.nlink = @ - 1] \in Node
          BY DEF Node
        <5>2. \A n \in Node : [n EXCEPT !.upd = TRUE] \in Node /\ [n EXCEPT !.upd = TRUE].upd
          BY DEF Node
        <5> QED BY <2>1, <4>2, <5>1, <5>2
      <4>4. c \in [Ino -> Node]
        BY <1>t, <2>1, <4>2, <4>3
      <4> HIDE DEF c
      <4>5. CASE c[i].count > 1 /\ core' = [c EXCEPT ![i].count = @ - 1, ![i].lock = FALSE]
        <5>1. core'[i] = [[c[i] EXCEPT !.count = @ - 1] EXCEPT !.lock = FALSE]
          BY <2>1, <4>4, <4>5
        <5>2. core'[i].count = c[i].count - 1
          BY <4>3, <5>1 DEF Node
        <5> QED BY <4>3, <4>5, <5>2 DEF Node
      <4>6. CASE c[i].count = 1 /\ core' = [c EXCEPT ![i].lock = TRUE]
        <5>1. core'[i] = [c[i] EXCEPT !.lock = TRUE]
          BY <2>1, <4>4, <4>6
        <5> QED BY <4>3, <4>6, <5>1 DEF Node
      <4> QED BY <4>1, <4>3, <4>5, <4>6 DEF IPut
    <3> QED BY <1>14, <3>1, <3>2
  <2>6. \A x \in File : Ref(p, x) => x = i
    BY <2>0 DEF Ref
  <2> QED BY <1>1, <2>1, <2>5, <2>6
<1>15. CASE UpdateInodeTable(p)
  <2>1. /\ UNCHANGED <<s_inode, s_ninode, s_ilock, blk, late, core>>
        /\ disk' = [i \in Ino |->
                      IF i \in {j \in File : IsLoaded(j) /\ ~ core[j].lock /\ core[j].upd}
                      THEN [mode |-> core[i].mode, nlink |-> core[i].nlink] ELSE disk[i]]
    BY <1>15 DEF UpdateInodeTable, spb, hist
  <2>2. \A i \in Ino : Owed(i)' => Owed(i)
    BY <2>1 DEF Owed, IsLoaded
  <2> QED BY <2>1, <2>2, SearchedStays DEF Listed
<1>16. CASE \E i \in File : Lookup(p, "open", i) \/ Lookup(p, "unlink", i)
  <2>1. UNCHANGED <<s_inode, s_ninode, s_ilock, blk, late>> /\ pc[p] = "user"
    BY <1>16 DEF Lookup, spb, hist
  <2> QED BY <1>2, <2>1 DEF RefPCs, AlonePCs, ReadPCs
<1> QED BY <1>3, <1>4, <1>5, <1>6, <1>7, <1>8, <1>9, <1>10, <1>11, <1>12, <1>13, <1>14,
           <1>15, <1>16 DEF Step

LEMMA SearchedHolds == TableHasRoom => (Spec => [](BaseInv /\ Modes /\ Names /\ Searched))
<1> SUFFICES ASSUME TableHasRoom PROVE Spec => [](BaseInv /\ Modes /\ Names /\ Searched)
  OBVIOUS
<1>1. Init => BaseInv /\ Modes /\ Names /\ Searched
  <2>1. Init => Searched
    BY DEF Init, Searched
  <2> QED BY <2>1, InitOK
<1>2. BaseInv /\ Modes /\ Names /\ Searched /\ [Next]_vars => (BaseInv /\ Modes /\ Names /\ Searched)'
  <2> SUFFICES ASSUME BaseInv, Modes, Names, Searched, [Next]_vars
               PROVE  (BaseInv /\ Modes /\ Names)' /\ Searched'
    OBVIOUS
  <2>1. (BaseInv /\ Modes /\ Names)'
    BY BaseStep
  <2>2. CASE Crash
    BY <2>1, <2>2 DEF Crash, Searched
  <2>3. ASSUME NEW p \in Proc, Step(p) PROVE Searched'
    BY <2>3, SearchedStep
  <2>4. CASE UNCHANGED vars
    <3>1. /\ s_inode' = s_inode /\ s_ninode' = s_ninode /\ s_ilock' = s_ilock /\ blk' = blk
          /\ disk' = disk /\ core' = core /\ late' = late
      BY <2>4 DEF vars, spb, hist
    <3>2. \A i : (Listed(i)' <=> Listed(i)) /\ (Owed(i)' <=> Owed(i))
      BY <3>1 DEF Listed, Owed, IsLoaded
    <3> QED BY <2>1, <3>1, <3>2, SearchedStays
  <2> QED BY <2>1, <2>2, <2>3, <2>4 DEF Next
<1> QED BY <1>1, <1>2, PTL DEF Spec

\* creat fails with ENOSPC only when every inode is in use, or became free
\* while the disk was being searched: the search of the disk leaves nothing out
\* and GetFreeInode finds an entry.  (With a full inode table IAlloc takes a
\* number off the list and IGet fails.)
THEOREM NoSpaceIsRight == TableHasRoom => (Spec => NoSpaceIsTrue)
<1> SUFFICES ASSUME TableHasRoom PROVE Spec => NoSpaceIsTrue
  OBVIOUS
<1> DEFINE A == \A p \in Proc : pc[p] = "scan" /\ pc'[p] = "user" /\ s_ninode' = 0 /\ crashes' = crashes =>
                  \A i \in Ino : ~ disk[i].mode /\ ~ IsLoaded(i) => i \in late
<1>1. BaseInv /\ Modes /\ Names /\ Searched /\ [Next]_vars => A
  <2> SUFFICES ASSUME BaseInv, Modes, Names, Searched, [Next]_vars,
                      NEW p \in Proc, pc[p] = "scan", pc'[p] = "user", s_ninode' = 0,
                      crashes' = crashes, NEW i \in Ino, Owed(i)
               PROVE  FALSE
    BY DEF Owed
  <2>1. /\ Types /\ s_ilock /\ s_ninode \in Nat /\ MaxFree \in Nat \ {0} /\ blk \in 0 .. Blocks - 1
        /\ crashes \in Nat /\ Woken \in [Proc -> PCs] /\ core \in [Ino -> Node]
    BY LoopTypes, ConstantsAssumption DEF BaseInv, Scanner, Types
  <2>2. ~ Crash /\ ~ UNCHANGED vars
    <3>1. crashes + 1 # crashes
      BY <2>1
    <3> QED BY <3>1 DEF Crash, vars, procs
  <2>3. PICK q \in Proc : Step(q)
    BY <2>2 DEF Next
  <2>4. q = p
    <3> SUFFICES ASSUME q # p PROVE FALSE
      OBVIOUS
    <3>1. CASE UpdateInodeTable(q)
      BY <2>1, <3>1 DEF UpdateInodeTable, Goto, Types
    <3>2. CASE ~ UpdateInodeTable(q)
      BY <2>3, <3>2, StepOK DEF Local, Frame, OthersStay
    <3> QED BY <3>1, <3>2
  <2>5. ScanNone(p) \/ ScanTake(p)
    <3>1. pc' # pc
      OBVIOUS
    <3> QED BY <2>3, <2>4, <3>1 DEF Step, IAllocSleep, IAllocTake, IAllocSearch, Begin, ScanBlock,
             procs, IAllocDone, IAllocAgain, MakNodeDone, ITruncDone, IUpdateDone, ReadDone, Close,
             UnLink, Update, UpdateSector0, UpdateSector1, UpdateInodeTable, Lookup
  <2>6. CASE ScanNone(p)
    <3>1. FilledN = 0 /\ Last
      BY <2>6 DEF ScanNone
    <3>2. /\ FilledN \in s_ninode .. MaxFree
          /\ FilledN < MaxFree => \A j \in Unused(blk) : \E k \in s_ninode .. FilledN - 1 : Filled[k] = j
      BY <2>1, FilledIs
    <3>3. s_ninode = 0 /\ blk = Blocks - 1 /\ Unused(blk) = {}
      BY <2>1, <3>1, <3>2 DEF Last
    <3>4. i \div PerBlock \in 0 .. Blocks - 1 /\ Blocks \in Nat
      BY BlocksIs
    <3>5. i \div PerBlock # blk
      BY <3>3 DEF Unused, Owed
    <3>6. i \div PerBlock < blk
      BY <3>3, <3>4, <3>5
    <3>7. Listed(i)
      BY <2>1, <3>6 DEF Searched, Owed
    <3> QED BY <3>3, <3>7 DEF Listed
  <2>7. CASE ScanTake(p)
    <3>1. Take(p, Filled, FilledN, core, Woken)
      BY <2>7 DEF ScanTake
    <3>2. \A x \in File : ~ Ref(p, x)
      BY DEF Ref, RefPCs, AlonePCs, ReadPCs
    <3>3. Room(core)
      BY <3>2, RoomIs, OthersHave
    <3> QED BY <2>1, <3>1, <3>3 DEF Take
  <2> QED BY <2>5, <2>6, <2>7
<1> QED BY <1>1, SearchedHolds, PTL DEF Spec, NoSpaceIsTrue
=============================================================================
