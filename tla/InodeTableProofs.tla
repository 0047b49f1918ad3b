-------------------------- MODULE InodeTableProofs --------------------------
(***************************************************************************)
(* The safety properties of InodeTable, proved for every finite set of     *)
(* processes, every set of inodes and every size of the table.             *)
(*                                                                         *)
(* The counts and the sleepers of Rdwr are right whatever is called; that  *)
(* an entry stays the inode it was is proved without sync, which locks     *)
(* entries it has no reference to.                                         *)
(***************************************************************************)
EXTENDS InodeTable, FiniteSetTheorems, TLAPS

----------------------------------------------------------------------------
(* The inductive invariants *)

\* the entry that p has a reference to, in its open file or in its call
Ref(p) == IF fd[p] # NoSlot THEN fd[p]
          ELSE IF HasRef(p) THEN slot[p] ELSE NoSlot

\* a process has one reference at most, and where it has none it needs none
Shaped(p) ==
  /\ HasRef(p) \/ pc[p] \in {"iget", "igetSleep"} => fd[p] = NoSlot
  /\ HasRef(p) \/ pc[p] \in {"syncRead", "syncWrite"} => slot[p] # NoSlot
  /\ pc[p] \in {"nflockSleep", "nflock", "rdwr"} => fd[p] # NoSlot

Shape == \A p \in Proc : Shaped(p)

Users(s) == {p \in Proc : Ref(p) = s}
Counted  == \A s \in Slot : count[s] = Cardinality(Users(s))

\* TypeOK without the bound of i_count, which Counted gives
Types ==
  /\ number \in [Slot -> Ino \cup {NoIno}]
  /\ count \in [Slot -> Int]
  /\ flags \in [Slot -> SUBSET Flags]
  /\ node \in [Slot -> Node] /\ disk \in [Ino -> Node] /\ latest \in [Ino -> Node]
  /\ named \subseteq Ino /\ freed \subseteq Ino
  /\ updlock \in BOOLEAN
  /\ pc \in [Proc -> PCs]
  /\ ino \in [Proc -> Ino] /\ op \in [Proc -> AllOps]
  /\ slot \in [Proc -> Slot \cup {NoSlot}] /\ fd \in [Proc -> Slot \cup {NoSlot}]

BaseInv == Types /\ Shape /\ Counted /\ NoLostWakeup

\* inside IPut or IGet with the only reference, and the inode locked
SolePCs == {"iread", "itrunc", "iupdate", "bwrite"}

\* the fields of s are those of its inode: they have been read, and IPut has
\* not taken the fields of another inode for them after a failed read
HasRead(s) ==
  \A p \in Proc : slot[p] = s =>
    pc[p] # "iread" /\ (HardErrors => pc[p] # "itrunc")

\* what an entry in use holds: an inode, with its fields, and what the disk
\* does not have will be written
EntryOK(s) ==
  count[s] # 0 =>
    /\ number[s] \in Ino
    /\ HasRead(s) => node[s] = latest[number[s]]
    /\ "IUPD" \in flags[s] \/ disk[number[s]] = latest[number[s]]

\* what a process knows of the inode it refers to
CallOK(p) ==
  /\ Ref(p) # NoSlot => number[Ref(p)] = ino[p]
  /\ pc[p] \in SolePCs => count[slot[p]] = 1 /\ Locked(slot[p])
  /\ pc[p] = "iread" => "IUPD" \notin flags[slot[p]]
  /\ pc[p] = "bwrite" => disk[ino[p]] = latest[ino[p]]
  /\ pc[p] = "itrunc" /\ ~ HardErrors => ino[p] \notin named
  /\ pc[p] \notin {"sync", "syncRead", "syncWrite"}

\* what the disk holds of an inode that is not in memory; the name counts
FileOK(i) ==
  /\ Loaded(i) = {} => disk[i] = latest[i]
  /\ i \in named => latest[i].nlink > 0

IndInv == /\ BaseInv /\ OneCopy
          /\ \A s \in Slot : EntryOK(s)
          /\ \A p \in Proc : CallOK(p)
          /\ \A i \in Ino : FileOK(i)

----------------------------------------------------------------------------
(* References *)

LEMMA SlotFacts == Slot \subseteq Int /\ NoSlot \notin Slot
<1> QED BY ConstantsAssumption DEF Slot, NoSlot

\* The sets of references are finite.
LEMMA UsersFinite ==
  ASSUME NEW S \in SUBSET Proc
  PROVE  IsFiniteSet(S) /\ Cardinality(S) \in Nat
<1>1. IsFiniteSet(S)
  BY ConstantsAssumption, FS_Subset
<1> QED BY <1>1, FS_CardinalityType

\* An entry that somebody refers to has a count.
LEMMA RefIsCounted ==
  ASSUME Types, Counted, NEW s \in Slot, NEW p \in Proc, Ref(p) = s
  PROVE  count[s] >= 1
<1>1. Users(s) \in SUBSET Proc /\ p \in Users(s)
  BY DEF Users
<1>2. IsFiniteSet(Users(s)) /\ Cardinality(Users(s)) \in Nat
  BY <1>1, UsersFinite
<1>3. Cardinality(Users(s)) # 0
  BY <1>1, <1>2, FS_EmptySet
<1> QED BY <1>2, <1>3 DEF Counted

\* The only reference is the only one.
LEMMA SoleRef ==
  ASSUME Types, Counted, NEW s \in Slot, count[s] = 1,
         NEW p \in Proc, NEW q \in Proc, Ref(p) = s, Ref(q) = s
  PROVE  p = q
<1>1. Users(s) \in SUBSET Proc /\ p \in Users(s) /\ q \in Users(s)
  BY DEF Users
<1>2. IsFiniteSet(Users(s))
  BY <1>1, UsersFinite
<1>3. Cardinality(Users(s)) = 1
  BY DEF Counted
<1>4. PICK x : Users(s) = {x}
  BY <1>2, <1>3, FS_Singleton
<1> QED BY <1>1, <1>4

\* An entry with a count has a reference.
LEMMA SomeRef ==
  ASSUME Types, Counted, NEW s \in Slot, count[s] # 0
  PROVE  \E p \in Proc : Ref(p) = s
<1>1. Cardinality(Users(s)) # 0
  BY DEF Counted
<1>2. Users(s) # {}
  BY <1>1, FS_EmptySet
<1> QED BY <1>2 DEF Users

\* what a step of p does to the other processes: at most it wakes them
Others(p) ==
  \A q \in Proc \ {p} :
    /\ fd'[q] = fd[q] /\ slot'[q] = slot[q]
    /\ pc'[q] = pc[q] \/ (pc[q] = "nflockSleep" /\ pc'[q] = "nflock")

LEMMA OthersKeep ==
  ASSUME NEW p \in Proc, Others(p)
  PROVE  \A q \in Proc \ {p} : Ref(q)' = Ref(q) /\ (Shaped(q) => Shaped(q)')
<1> QED BY DEF Others, Ref, HasRef, Shaped

\* i_count follows the reference of the process that runs.
LEMMA CountStep ==
  ASSUME Types, Counted, NEW p \in Proc, Others(p),
         \A s \in Slot : count'[s] = count[s] + (IF Ref(p)' = s THEN 1 ELSE 0)
                                              - (IF Ref(p) = s THEN 1 ELSE 0)
  PROVE  Counted'
<1> SUFFICES ASSUME NEW s \in Slot
             PROVE  count'[s] = Cardinality(Users(s)')
  BY DEF Counted
<1> DEFINE U == Users(s) \ {p}
<1>1. U \in SUBSET Proc /\ p \notin U
  BY DEF Users
<1>2. IsFiniteSet(U) /\ Cardinality(U) \in Nat
  BY <1>1, UsersFinite
<1>3. Cardinality(U \cup {p}) = Cardinality(U) + 1
  BY <1>1, <1>2, FS_AddElement
<1>4. Users(s) = IF Ref(p) = s THEN U \cup {p} ELSE U
  BY DEF Users
<1>5. Users(s)' = IF Ref(p)' = s THEN U \cup {p} ELSE U
  BY OthersKeep DEF Users
<1>6. count[s] = Cardinality(Users(s))
  BY DEF Counted
<1> HIDE DEF U
<1> QED BY <1>2, <1>3, <1>4, <1>5, <1>6

----------------------------------------------------------------------------
(* The wake-ups of NFlock *)

LEMMA WokenProps ==
  ASSUME Types, NEW p \in Proc, NEW s \in Slot, NEW l \in PCs, pc' = Woken(p, s, l)
  PROVE  /\ pc' \in [Proc -> PCs] /\ pc'[p] = l
         /\ \A q \in Proc \ {p} :
              \/ pc'[q] = pc[q]
              \/ pc[q] = "nflockSleep" /\ fd[q] = s /\ pc'[q] = "nflock"
         /\ \A q \in Proc \ {p} :
              pc[q] = "nflockSleep" /\ fd[q] = s /\ "IWANT" \in flags[s]
                => pc'[q] = "nflock"
<1>1. ASSUME NEW q \in Proc
      PROVE  pc'[q] = IF q = p THEN l
                      ELSE IF pc[q] = "nflockSleep" /\ fd[q] = s /\ "IWANT" \in flags[s]
                           THEN "nflock" ELSE pc[q]
  BY DEF Woken
<1>2. pc' = [q \in Proc |-> pc'[q]]
  BY DEF Woken
<1>3. \A q \in Proc : pc'[q] \in PCs
  BY <1>1 DEF Types, PCs
<1> QED BY <1>1, <1>2, <1>3

\* A step that unlocks s wakes whoever sleeps there.
LEMMA WakeStep ==
  ASSUME BaseInv, NEW p \in Proc, NEW s \in Slot, NEW l \in PCs \ {"nflockSleep"},
         pc' = Woken(p, s, l), \A q \in Proc \ {p} : fd'[q] = fd[q],
         \A t \in Slot \ {s} : flags'[t] = flags[t]
  PROVE  NoLostWakeup'
<1> SUFFICES ASSUME NEW q \in Proc, pc'[q] = "nflockSleep"
             PROVE  {"ILOCK", "IWANT"} \subseteq flags'[fd'[q]]
  BY DEF NoLostWakeup
<1>1. q # p /\ pc[q] = "nflockSleep"
  BY WokenProps DEF BaseInv
<1>2. fd'[q] = fd[q] /\ {"ILOCK", "IWANT"} \subseteq flags[fd[q]]
  BY <1>1 DEF BaseInv, NoLostWakeup
<1>3. fd[q] \in Slot
  BY <1>1 DEF BaseInv, Types, Shape, Shaped
<1>4. fd[q] # s
  BY <1>1, <1>2, WokenProps DEF BaseInv
<1> QED BY <1>2, <1>3, <1>4

\* A step that unlocks nothing leaves the sleepers where they are.
LEMMA SleepStep ==
  ASSUME BaseInv, NEW p \in Proc,
         pc'[p] = "nflockSleep" => {"ILOCK", "IWANT"} \subseteq flags'[fd'[p]],
         \A q \in Proc \ {p} : pc'[q] = pc[q] /\ fd'[q] = fd[q],
         \A t \in Slot : count[t] # 0 /\ {"ILOCK", "IWANT"} \subseteq flags[t]
                        => {"ILOCK", "IWANT"} \subseteq flags'[t]
  PROVE  NoLostWakeup'
<1> SUFFICES ASSUME NEW q \in Proc \ {p}, pc'[q] = "nflockSleep"
             PROVE  {"ILOCK", "IWANT"} \subseteq flags'[fd'[q]]
  BY DEF NoLostWakeup
<1>1. /\ pc[q] = "nflockSleep" /\ fd'[q] = fd[q]
      /\ {"ILOCK", "IWANT"} \subseteq flags[fd[q]]
  BY DEF BaseInv, NoLostWakeup
<1>2. fd[q] \in Slot /\ Ref(q) = fd[q]
  BY <1>1 DEF BaseInv, Types, Shape, Shaped, Ref
<1>3. count[fd[q]] # 0
  BY <1>2, RefIsCounted DEF BaseInv
<1> QED BY <1>1, <1>2, <1>3

----------------------------------------------------------------------------
(* The steps, for the counts and the sleepers *)

\* what the other lemmas show of a step, put together
LEMMA BaseStep ==
  ASSUME BaseInv, NEW p \in Proc, Types', Others(p), Shaped(p)', NoLostWakeup',
         \A s \in Slot : count'[s] = count[s] + (IF Ref(p)' = s THEN 1 ELSE 0)
                                              - (IF Ref(p) = s THEN 1 ELSE 0)
  PROVE  BaseInv'
<1>1. Shape'
  BY OthersKeep DEF BaseInv, Shape
<1>2. Counted'
  BY CountStep DEF BaseInv
<1> QED BY <1>1, <1>2 DEF BaseInv

\* i_count keeps its value when the process keeps its reference
LEMMA SameRef ==
  ASSUME BaseInv, NEW p \in Proc, Ref(p)' = Ref(p), UNCHANGED count
  PROVE  \A s \in Slot : count'[s] = count[s] + (IF Ref(p)' = s THEN 1 ELSE 0)
                                               - (IF Ref(p) = s THEN 1 ELSE 0)
<1> SUFFICES ASSUME NEW s \in Slot
             PROVE  count[s] = count[s] + (IF Ref(p) = s THEN 1 ELSE 0)
                                        - (IF Ref(p) = s THEN 1 ELSE 0)
  OBVIOUS
<1>1. count[s] \in Int
  BY DEF BaseInv, Types
<1> QED BY <1>1

\* a reference goes
LEMMA LostRef ==
  ASSUME BaseInv, NEW p \in Proc, NEW s \in Slot, Ref(p) = s, Ref(p)' = NoSlot,
         count' = [count EXCEPT ![s] = @ - 1]
  PROVE  \A t \in Slot : count'[t] = count[t] + (IF Ref(p)' = t THEN 1 ELSE 0)
                                               - (IF Ref(p) = t THEN 1 ELSE 0)
<1> SUFFICES ASSUME NEW t \in Slot
             PROVE  count'[t] = count[t] + (IF Ref(p)' = t THEN 1 ELSE 0)
                                         - (IF Ref(p) = t THEN 1 ELSE 0)
  OBVIOUS
<1>1. /\ count[t] \in Int /\ t # NoSlot
      /\ count'[t] = IF t = s THEN count[t] - 1 ELSE count[t]
  BY SlotFacts DEF BaseInv, Types
<1> QED BY <1>1

\* a reference comes
LEMMA NewRef ==
  ASSUME BaseInv, NEW p \in Proc, NEW s \in Slot, Ref(p) = NoSlot, Ref(p)' = s,
         count' = [count EXCEPT ![s] = @ + 1]
  PROVE  \A t \in Slot : count'[t] = count[t] + (IF Ref(p)' = t THEN 1 ELSE 0)
                                               - (IF Ref(p) = t THEN 1 ELSE 0)
<1> SUFFICES ASSUME NEW t \in Slot
             PROVE  count'[t] = count[t] + (IF Ref(p)' = t THEN 1 ELSE 0)
                                         - (IF Ref(p) = t THEN 1 ELSE 0)
  OBVIOUS
<1>1. /\ count[t] \in Int /\ t # NoSlot
      /\ count'[t] = IF t = s THEN count[t] + 1 ELSE count[t]
  BY SlotFacts DEF BaseInv, Types
<1> QED BY <1>1

\* what IPut does to its caller's reference, at the end of the call
LEMMA GoneBase ==
  ASSUME BaseInv, NEW p \in Proc, NEW s \in Slot, Ref(p) = s,
         count' = [count EXCEPT ![s] = @ - 1],
         slot' = [slot EXCEPT ![p] = NoSlot], fd' = [fd EXCEPT ![p] = NoSlot],
         pc' = Woken(p, s, "user"),
         \E F \in SUBSET Flags : flags' = [flags EXCEPT ![s] = F],
         number' \in [Slot -> Ino \cup {NoIno}],
         UNCHANGED <<node, disk, named, freed, updlock, ino, op, latest>>
  PROVE  BaseInv'
<1>1. "user" \in PCs \ {"nflockSleep"}
  BY DEF PCs
<1>2. /\ pc' \in [Proc -> PCs] /\ pc'[p] = "user"
      /\ \A q \in Proc \ {p} :
           pc'[q] = pc[q] \/ (pc[q] = "nflockSleep" /\ pc'[q] = "nflock")
  BY <1>1, WokenProps DEF BaseInv
<1>3. Types'
  <2>1. flags' \in [Slot -> SUBSET Flags] /\ count' \in [Slot -> Int]
    BY DEF BaseInv, Types
  <2>2. /\ slot' \in [Proc -> Slot \cup {NoSlot}]
        /\ fd' \in [Proc -> Slot \cup {NoSlot}]
    BY DEF BaseInv, Types
  <2> QED BY <1>2, <2>1, <2>2 DEF BaseInv, Types
<1>4. Others(p) /\ fd'[p] = NoSlot /\ slot'[p] = NoSlot
  BY <1>2 DEF BaseInv, Types, Others
<1>5. Shaped(p)' /\ Ref(p)' = NoSlot
  BY <1>2, <1>4 DEF Shaped, HasRef, Ref
<1>6. NoLostWakeup'
  <2>1. \A t \in Slot \ {s} : flags'[t] = flags[t]
    BY DEF BaseInv, Types
  <2>2. \A q \in Proc \ {p} : fd'[q] = fd[q]
    BY <1>4 DEF Others
  <2> QED BY <1>1, <2>1, <2>2, WakeStep
<1>7. \A t \in Slot : count'[t] = count[t] + (IF Ref(p)' = t THEN 1 ELSE 0)
                                           - (IF Ref(p) = t THEN 1 ELSE 0)
  BY <1>5, LostRef
<1> QED BY <1>3, <1>4, <1>5, <1>6, <1>7, BaseStep

\* IPut of a call, or of Close
LEMMA IPutBase ==
  ASSUME BaseInv, NEW p \in Proc, NEW s \in Slot, Ref(p) = s, IPut(p, s),
         pc[p] \in {"iread", "got", "unlinked", "user"},
         fd' = [fd EXCEPT ![p] = NoSlot],
         UNCHANGED <<node, disk, named, freed, updlock, ino, op, latest>>
  PROVE  BaseInv'
<1>1. CASE IPutShared(p, s) \/ (IPutLast(p, s) /\ Release(p, s))
  <2>1. /\ count' = [count EXCEPT ![s] = @ - 1]
        /\ slot' = [slot EXCEPT ![p] = NoSlot]
        /\ pc' = Woken(p, s, "user")
    BY <1>1 DEF IPutShared, Release, Prele
  <2>2. \E F \in SUBSET Flags : flags' = [flags EXCEPT ![s] = F]
    BY <1>1 DEF IPutShared, Release, Prele, BaseInv, Types
  <2>3. number' \in [Slot -> Ino \cup {NoIno}]
    BY <1>1 DEF IPutShared, Release, BaseInv, Types
  <2> QED BY <2>1, <2>2, <2>3, GoneBase
<1>2. CASE /\ flags' = [flags EXCEPT ![s] = @ \cup {"ILOCK"}]
           /\ slot' = [slot EXCEPT ![p] = s]
           /\ Goto(p, "itrunc") \/ Goto(p, "iupdate")
           /\ UNCHANGED <<number, count>>
  <2>1. /\ pc' \in [Proc -> PCs] /\ pc'[p] \in {"itrunc", "iupdate"}
        /\ \A q \in Proc \ {p} : pc'[q] = pc[q]
    BY <1>2 DEF Goto, PCs, BaseInv, Types
  <2>2. Types'
    BY <1>2, <2>1 DEF BaseInv, Types, Flags
  <2>3. Others(p) /\ fd'[p] = NoSlot /\ slot'[p] = s
    BY <1>2, <2>1 DEF BaseInv, Types, Others
  <2>4. Shaped(p)' /\ Ref(p)' = s
    BY <2>1, <2>3, SlotFacts DEF Shaped, HasRef, Ref
  <2>5. NoLostWakeup'
    <3>1. \A t \in Slot : flags[t] \subseteq flags'[t]
      BY <1>2 DEF BaseInv, Types
    <3>2. \A q \in Proc \ {p} : fd'[q] = fd[q]
      BY <2>3 DEF Others
    <3> QED BY <2>1, <3>1, <3>2, SleepStep
  <2>6. \A t \in Slot : count'[t] = count[t] + (IF Ref(p)' = t THEN 1 ELSE 0)
                                             - (IF Ref(p) = t THEN 1 ELSE 0)
    BY <1>2, <2>4, SameRef
  <2> QED BY <2>2, <2>3, <2>4, <2>5, <2>6, BaseStep
<1> QED BY <1>1, <1>2 DEF IPut, IPutLast

\* IPut from inside a call
LEMMA CallPutBase ==
  ASSUME BaseInv, NEW p \in Proc, pc[p] \in {"iread", "got", "unlinked"},
         IPut(p, slot[p]),
         UNCHANGED <<node, disk, named, freed, updlock, ino, op, fd, latest>>
  PROVE  BaseInv'
<1>1. fd[p] = NoSlot /\ slot[p] \in Slot /\ Ref(p) = slot[p]
  BY DEF BaseInv, Types, Shape, Shaped, HasRef, Ref
<1>2. fd' = [fd EXCEPT ![p] = NoSlot]
  BY <1>1 DEF BaseInv, Types
<1> QED BY <1>1, <1>2, IPutBase

\* steps that leave pc, flags and references of the others alone, and the
\* reference of p
LEMMA QuietBase ==
  ASSUME BaseInv, NEW p \in Proc, NEW l \in PCs, Goto(p, l),
         Types', Shaped(p)', Ref(p)' = Ref(p), UNCHANGED <<count, fd>>,
         \A q \in Proc \ {p} : slot'[q] = slot[q],
         l = "nflockSleep" => {"ILOCK", "IWANT"} \subseteq flags'[fd[p]],
         \A t \in Slot : flags[t] \subseteq flags'[t]
  PROVE  BaseInv'
<1>1. pc'[p] = l /\ \A q \in Proc \ {p} : pc'[q] = pc[q]
  BY DEF Goto, BaseInv, Types
<1>2. Others(p)
  BY <1>1 DEF Others
<1>3. NoLostWakeup'
  BY <1>1, SleepStep
<1>4. \A t \in Slot : count'[t] = count[t] + (IF Ref(p)' = t THEN 1 ELSE 0)
                                           - (IF Ref(p) = t THEN 1 ELSE 0)
  BY SameRef
<1> QED BY <1>2, <1>3, <1>4, BaseStep

\* steps that unlock s
LEMMA PreleBase ==
  ASSUME BaseInv, NEW p \in Proc, NEW s \in Slot, NEW l \in PCs \ {"nflockSleep"},
         pc' = Woken(p, s, l), \E F \in SUBSET Flags : flags' = [flags EXCEPT ![s] = F],
         Types', Shaped(p)', Ref(p)' = Ref(p), UNCHANGED count,
         \A q \in Proc \ {p} : slot'[q] = slot[q] /\ fd'[q] = fd[q]
  PROVE  BaseInv'
<1>1. \A t \in Slot \ {s} : flags'[t] = flags[t]
  BY DEF BaseInv, Types
<1>2. Others(p)
  BY WokenProps DEF Others, BaseInv
<1>3. NoLostWakeup'
  BY <1>1, WakeStep
<1>4. \A t \in Slot : count'[t] = count[t] + (IF Ref(p)' = t THEN 1 ELSE 0)
                                           - (IF Ref(p) = t THEN 1 ELSE 0)
  BY SameRef
<1> QED BY <1>2, <1>3, <1>4, BaseStep

\* a write and an unlink, in the fields of an inode
LEMMA NodeSteps ==
  ASSUME NEW n \in Node
  PROVE  /\ n.writes < MaxWrites => [n EXCEPT !.writes = @ + 1] \in Node
         /\ [n EXCEPT !.nlink = @ - 1] \in Node
<1>1. n.writes \in 0 .. MaxWrites /\ n.nlink \in Int /\ n.alloc \in BOOLEAN
  BY DEF Node
<1>2. n.writes < MaxWrites => n.writes + 1 \in 0 .. MaxWrites
  BY <1>1, ConstantsAssumption
<1> QED BY <1>1, <1>2 DEF Node

\* Every step keeps the counts and the sleepers right.
LEMMA BaseNext ==
  ASSUME BaseInv, NEW p \in Proc, Step(p) \/ Call(p)
  PROVE  BaseInv'
<1>0. /\ Types /\ Shaped(p)
      /\ HasRef(p) => slot[p] \in Slot /\ fd[p] = NoSlot /\ Ref(p) = slot[p]
      /\ pc[p] \in {"nflockSleep", "nflock", "rdwr"} => fd[p] \in Slot
      /\ fd[p] # NoSlot => fd[p] \in Slot /\ Ref(p) = fd[p]
  BY DEF BaseInv, Shape, Shaped, Types, Ref
<1> USE DEF PCs, AllOps
<1>1. CASE ITruncDone(p)
  <2>1. [alloc |-> FALSE, nlink |-> 1, writes |-> 0] \in Node
    BY ConstantsAssumption DEF Node
  <2>2. HasRef(p) /\ UNCHANGED <<count, fd, slot>> /\ Goto(p, "iupdate")
    BY <1>1 DEF ITruncDone, HasRef
  <2>3. Types'
    BY <1>0, <1>1, <2>1, <2>2 DEF ITruncDone, Goto, Types, Flags
  <2>4. Shaped(p)' /\ Ref(p)' = Ref(p)
    BY <1>0, <2>2 DEF Goto, Types, Shaped, HasRef, Ref
  <2>5. \A t \in Slot : flags[t] \subseteq flags'[t]
    BY <1>0, <1>1 DEF ITruncDone, Types
  <2> QED BY <2>2, <2>3, <2>4, <2>5, QuietBase
<1>2. ASSUME NEW l \in {"bwrite", "syncWrite"},
             \E k \in {"iupdate", "syncRead"} :
               IUpdate(p, k, l) /\ (k = "iupdate" <=> l = "bwrite")
      PROVE  BaseInv'
  <2>1. /\ UNCHANGED <<count, fd, slot, flags>> /\ Goto(p, l) /\ l \in PCs
        /\ l # "nflockSleep"
        /\ \/ pc[p] = "iupdate" /\ l = "bwrite"
           \/ pc[p] = "syncRead" /\ l = "syncWrite"
    BY <1>2 DEF IUpdate, tabVars
  <2>2. slot[p] \in Slot
    BY <1>0, <2>1 DEF Shaped, HasRef, Types
  <2>3. Types'
    BY <1>0, <1>2, <2>1, <2>2 DEF IUpdate, tabVars, Goto, Types
  <2>4. Shaped(p)' /\ Ref(p)' = Ref(p)
    BY <1>0, <2>1 DEF Goto, Types, Shaped, HasRef, Ref
  <2> QED BY <2>1, <2>3, <2>4, QuietBase
<1>3. CASE IPutDone(p)
  <2>1. HasRef(p) /\ Release(p, slot[p])
        /\ UNCHANGED <<node, disk, named, freed, updlock, ino, op, fd, latest>>
    BY <1>3 DEF IPutDone, HasRef
  <2>2. fd' = [fd EXCEPT ![p] = NoSlot]
    BY <1>0, <2>1 DEF Types
  <2>3. flags' = [flags EXCEPT ![slot[p]] = {}] /\ {} \in SUBSET Flags
    BY <2>1 DEF Release
  <2>4. number' \in [Slot -> Ino \cup {NoIno}]
    BY <1>0, <2>1 DEF Release, Types
  <2> QED BY <1>0, <2>1, <2>2, <2>3, <2>4, GoneBase DEF Release
<1>4. CASE IGetSleep(p)
  <2>1. /\ pc[p] = "iget" /\ UNCHANGED <<count, fd, slot>> /\ Goto(p, "igetSleep")
        /\ \E s \in Slot : flags' = [flags EXCEPT ![s] = @ \cup {"IWANT"}]
    BY <1>4 DEF IGetSleep, Loaded
  <2>0. flags' \in [Slot -> SUBSET Flags]
    BY <1>0, <2>1 DEF Types, Flags
  <2>2. Types'
    BY <1>0, <1>4, <2>0, <2>1 DEF IGetSleep, Goto, Types
  <2>3. Shaped(p)' /\ Ref(p)' = Ref(p)
    BY <1>0, <2>1 DEF Goto, Types, Shaped, HasRef, Ref
  <2>4. \A t \in Slot : flags[t] \subseteq flags'[t]
    BY <1>0, <2>1 DEF Types
  <2> QED BY <2>1, <2>2, <2>3, <2>4, QuietBase
<1>5. ASSUME NEW s \in Slot, pc[p] = "iget", fd' = fd,
             count' = [count EXCEPT ![s] = @ + 1], slot' = [slot EXCEPT ![p] = s],
             Goto(p, "got") \/ Goto(p, "iread"), Types',
             \A t \in Slot : count[t] # 0 => flags[t] \subseteq flags'[t]
      PROVE  BaseInv'
  <2>1. /\ pc'[p] \in {"got", "iread"} /\ \A q \in Proc \ {p} : pc'[q] = pc[q]
        /\ slot'[p] = s /\ \A q \in Proc \ {p} : slot'[q] = slot[q]
        /\ fd[p] = NoSlot
    BY <1>0, <1>5 DEF Goto, Types, Shaped
  <2>2. Others(p)
    BY <1>5, <2>1 DEF Others
  <2>3. Shaped(p)' /\ Ref(p)' = s /\ Ref(p) = NoSlot
    BY <1>5, <2>1, SlotFacts DEF Shaped, HasRef, Ref
  <2>4. NoLostWakeup'
    BY <1>5, <2>1, SleepStep
  <2>5. \A t \in Slot : count'[t] = count[t] + (IF Ref(p)' = t THEN 1 ELSE 0)
                                             - (IF Ref(p) = t THEN 1 ELSE 0)
    BY <1>5, <2>3, NewRef
  <2> QED BY <1>5, <2>2, <2>3, <2>4, <2>5, BaseStep
<1>6. CASE IGetLoaded(p)
  <2>1. PICK s \in Slot :
          /\ count' = [count EXCEPT ![s] = @ + 1]
          /\ flags' = [flags EXCEPT ![s] = @ \cup {"ILOCK"}]
          /\ slot' = [slot EXCEPT ![p] = s]
    BY <1>6 DEF IGetLoaded, Loaded
  <2>2. Types'
    BY <1>0, <1>6, <2>1 DEF IGetLoaded, Goto, Types, Flags
  <2>3. \A t \in Slot : flags[t] \subseteq flags'[t]
    BY <1>0, <2>1 DEF Types
  <2> QED BY <1>5, <1>6, <2>1, <2>2, <2>3 DEF IGetLoaded
<1>7. CASE IGetNew(p)
  <2>1. PICK s \in Slot :
          /\ count[s] = 0
          /\ number' = [number EXCEPT ![s] = ino[p]]
          /\ count' = [count EXCEPT ![s] = @ + 1]
          /\ flags' = [flags EXCEPT ![s] = {"ILOCK"}]
          /\ slot' = [slot EXCEPT ![p] = s]
    BY <1>7 DEF IGetNew, Free
  <2>2. Types'
    BY <1>0, <1>7, <2>1 DEF IGetNew, Goto, Types, Flags
  <2>3. \A t \in Slot : count[t] # 0 => flags[t] \subseteq flags'[t]
    BY <1>0, <2>1 DEF Types
  <2> QED BY <1>5, <1>7, <2>1, <2>2, <2>3 DEF IGetNew
<1>8. CASE IGetFull(p)
  <2>1. PICK l \in {"panic", "user"} : Goto(p, l)
    BY <1>8 DEF IGetFull
  <2>2. UNCHANGED <<count, fd, slot, flags>> /\ pc[p] = "iget"
    BY <1>8 DEF IGetFull, tabVars
  <2>3. Types'
    BY <1>0, <1>8, <2>1 DEF IGetFull, tabVars, Goto, Types
  <2>4. Shaped(p)' /\ Ref(p)' = Ref(p)
    BY <1>0, <2>1, <2>2 DEF Goto, Types, Shaped, HasRef, Ref
  <2> QED BY <2>1, <2>2, <2>3, <2>4, QuietBase
<1>9. CASE IGetRead(p)
  <2>1. /\ UNCHANGED <<count, fd, slot, flags>> /\ pc[p] = "iread" /\ HasRef(p)
        /\ Goto(p, "got")
    BY <1>9 DEF IGetRead, HasRef
  <2>2. Types'
    BY <1>0, <1>9, <2>1 DEF IGetRead, Goto, Types
  <2>3. Shaped(p)' /\ Ref(p)' = Ref(p)
    BY <1>0, <2>1 DEF Goto, Types, Shaped, HasRef, Ref
  <2> QED BY <2>1, <2>2, <2>3, QuietBase
<1>10. CASE IGetError(p) \/ Open1Fail(p) \/ UnLinkPut(p)
  BY <1>10, CallPutBase DEF IGetError, Open1Fail, UnLinkPut
<1>11. CASE Open1(p)
  <2>1. /\ HasRef(p) /\ pc' = Woken(p, slot[p], "user") /\ UNCHANGED count
        /\ fd' = [fd EXCEPT ![p] = slot[p]] /\ slot' = [slot EXCEPT ![p] = NoSlot]
    BY <1>11 DEF Open1, Prele, HasRef
  <2>2. /\ pc' \in [Proc -> PCs] /\ pc'[p] = "user"
    BY <1>0, <2>1, WokenProps
  <2>3. Types'
    BY <1>0, <1>11, <2>1, <2>2 DEF Open1, Prele, Types
  <2>4. Shaped(p)' /\ Ref(p)' = Ref(p)
    BY <1>0, <2>1, <2>2, SlotFacts DEF Types, Shaped, HasRef, Ref
  <2>5. \E F \in SUBSET Flags : flags' = [flags EXCEPT ![slot[p]] = F]
    BY <1>0, <1>11, <2>1 DEF Open1, Prele, Types
  <2>6. \A q \in Proc \ {p} : slot'[q] = slot[q] /\ fd'[q] = fd[q]
    BY <1>0, <2>1 DEF Types
  <2> QED BY <1>0, <2>1, <2>3, <2>4, <2>5, <2>6, PreleBase
<1>12. CASE Close(p)
  <2>1. fd[p] \in Slot /\ Ref(p) = fd[p]
    BY <1>0, <1>12 DEF Close
  <2> QED BY <1>12, <2>1, IPutBase DEF Close
<1>13. CASE NFlockSleep(p)
  <2>1. /\ fd[p] \in Slot /\ "ILOCK" \in flags[fd[p]]
        /\ flags' = [flags EXCEPT ![fd[p]] = @ \cup {"IWANT"}]
        /\ UNCHANGED <<count, fd, slot>> /\ Goto(p, "nflockSleep")
        /\ pc[p] \in {"user", "nflock"}
    BY <1>0, <1>13 DEF NFlockSleep, NFlockCall, Locked
  <2>2. Types'
    BY <1>0, <1>13, <2>1 DEF NFlockSleep, Goto, Types, Flags
  <2>3. Shaped(p)' /\ Ref(p)' = Ref(p)
    BY <1>0, <2>1, SlotFacts DEF Goto, Types, Shaped, HasRef, Ref
  <2>4. /\ \A t \in Slot : flags[t] \subseteq flags'[t]
        /\ {"ILOCK", "IWANT"} \subseteq flags'[fd[p]]
    BY <1>0, <2>1 DEF Types
  <2> QED BY <2>1, <2>2, <2>3, <2>4, QuietBase
<1>14. CASE NFlock(p)
  <2>1. /\ fd[p] \in Slot
        /\ flags' = [flags EXCEPT ![fd[p]] = @ \cup {"ILOCK", "IUPD"}]
        /\ UNCHANGED <<count, fd, slot>> /\ Goto(p, "rdwr")
        /\ pc[p] \in {"user", "nflock"}
    BY <1>0, <1>14 DEF NFlock, NFlockCall
  <2>2. Types'
    BY <1>0, <1>14, <2>1 DEF NFlock, Goto, Types, Flags
  <2>3. Shaped(p)' /\ Ref(p)' = Ref(p)
    BY <1>0, <2>1, SlotFacts DEF Goto, Types, Shaped, HasRef, Ref
  <2>4. \A t \in Slot : flags[t] \subseteq flags'[t]
    BY <1>0, <2>1 DEF Types
  <2> QED BY <2>1, <2>2, <2>3, <2>4, QuietBase
<1>15. CASE ReadDone(p) \/ WriteDone(p)
  <2>1. /\ fd[p] \in Slot /\ pc[p] = "rdwr" /\ pc' = Woken(p, fd[p], "user")
        /\ UNCHANGED <<count, fd, slot>>
    BY <1>0, <1>15 DEF ReadDone, WriteDone, Prele
  <2>2. /\ pc' \in [Proc -> PCs] /\ pc'[p] = "user"
    BY <1>0, <2>1, WokenProps
  <2>3. Types'
    <3>1. CASE ReadDone(p)
      BY <1>0, <2>1, <2>2, <3>1 DEF ReadDone, Prele, Types
    <3>2. CASE WriteDone(p)
      <4>1. [node[fd[p]] EXCEPT !.writes = @ + 1] \in Node
        BY <1>0, <2>1, <3>2, NodeSteps DEF WriteDone, Types
      <4> QED BY <1>0, <2>1, <2>2, <3>2, <4>1 DEF WriteDone, Types, Flags
    <3> QED BY <1>15, <3>1, <3>2
  <2>4. Shaped(p)' /\ Ref(p)' = Ref(p)
    BY <1>0, <2>1, <2>2, SlotFacts DEF Types, Shaped, HasRef, Ref
  <2>5. \E F \in SUBSET Flags : flags' = [flags EXCEPT ![fd[p]] = F]
    BY <1>0, <1>15, <2>1 DEF ReadDone, WriteDone, Prele, Types, Flags
  <2> QED BY <2>1, <2>3, <2>4, <2>5, PreleBase
<1>16. CASE UnLink(p)
  <2>1. /\ HasRef(p) /\ UNCHANGED <<count, fd, slot>> /\ Goto(p, "unlinked")
        /\ flags' = [flags EXCEPT ![slot[p]] = @ \cup {"IUPD"}]
    BY <1>16 DEF UnLink, HasRef
  <2>2. [node[slot[p]] EXCEPT !.nlink = @ - 1] \in Node
    BY <1>0, <2>1, NodeSteps DEF Types
  <2>3. Types'
    BY <1>0, <1>16, <2>1, <2>2 DEF UnLink, Goto, Types, Flags
  <2>4. Shaped(p)' /\ Ref(p)' = Ref(p)
    BY <1>0, <2>1 DEF Goto, Types, Shaped, HasRef, Ref
  <2>5. \A t \in Slot : flags[t] \subseteq flags'[t]
    BY <1>0, <2>1 DEF Types
  <2> QED BY <2>1, <2>3, <2>4, <2>5, QuietBase
<1>17. ASSUME NEW o \in AllOps, NEW i \in Ino, Lookup(p, o, i) PROVE BaseInv'
  <2>1. /\ pc[p] = "user" /\ fd[p] = NoSlot /\ Goto(p, "iget")
        /\ UNCHANGED <<count, fd, slot, flags>>
    BY <1>17 DEF Lookup, tabVars
  <2>2. Types'
    BY <1>0, <1>17, <2>1 DEF Lookup, tabVars, Goto, Types
  <2>3. Shaped(p)' /\ Ref(p)' = Ref(p)
    BY <1>0, <2>1 DEF Goto, Types, Shaped, HasRef, Ref
  <2> QED BY <2>1, <2>2, <2>3, QuietBase
<1>18. CASE Sync(p) \/ SyncEnd(p)
  <2>1. PICK l \in {"sync", "user"} : Goto(p, l)
    BY <1>18 DEF Sync, SyncEnd
  <2>2. /\ pc[p] \in {"user", "sync"} /\ slot' = [slot EXCEPT ![p] = NoSlot]
        /\ UNCHANGED <<count, fd, flags>>
    BY <1>18 DEF Sync, SyncEnd, tabVars
  <2>3. Types'
    BY <1>0, <1>18, <2>1 DEF Sync, SyncEnd, tabVars, Goto, Types
  <2>4. Shaped(p)' /\ Ref(p)' = Ref(p)
    BY <1>0, <2>1, <2>2 DEF Goto, Types, Shaped, HasRef, Ref
  <2>5. \A q \in Proc \ {p} : slot'[q] = slot[q]
    BY <1>0, <2>2 DEF Types
  <2> QED BY <2>1, <2>2, <2>3, <2>4, <2>5, QuietBase
<1>19. CASE SyncLock(p)
  <2>1. PICK s \in Slot : /\ slot' = [slot EXCEPT ![p] = s]
                          /\ flags' = [flags EXCEPT ![s] = @ \cup {"ILOCK"}]
    BY <1>19 DEF SyncLock, Unsaved
  <2>2. /\ pc[p] = "sync" /\ Goto(p, "syncRead") /\ UNCHANGED <<count, fd>>
    BY <1>19 DEF SyncLock
  <2>3. Types'
    BY <1>0, <1>19, <2>1, <2>2 DEF SyncLock, Goto, Types, Flags
  <2>4. Shaped(p)' /\ Ref(p)' = Ref(p)
    BY <1>0, <2>1, <2>2, SlotFacts DEF Goto, Types, Shaped, HasRef, Ref
  <2>5. \A q \in Proc \ {p} : slot'[q] = slot[q]
    BY <1>0, <2>1 DEF Types
  <2>6. \A t \in Slot : flags[t] \subseteq flags'[t]
    BY <1>0, <2>1 DEF Types
  <2> QED BY <2>2, <2>3, <2>4, <2>5, <2>6, QuietBase
<1>20. CASE SyncUnlock(p)
  <2>1. /\ slot[p] \in Slot /\ pc[p] = "syncWrite" /\ pc' = Woken(p, slot[p], "sync")
        /\ UNCHANGED <<count, fd, slot>>
    BY <1>0, <1>20 DEF SyncUnlock, Prele, Shaped, Types
  <2>2. /\ pc' \in [Proc -> PCs] /\ pc'[p] = "sync"
    BY <1>0, <2>1, WokenProps
  <2>3. Types'
    BY <1>0, <1>20, <2>1, <2>2 DEF SyncUnlock, Prele, Types
  <2>4. Shaped(p)' /\ Ref(p)' = Ref(p)
    BY <1>0, <2>1, <2>2 DEF Types, Shaped, HasRef, Ref
  <2>5. \E F \in SUBSET Flags : flags' = [flags EXCEPT ![slot[p]] = F]
    BY <1>0, <1>20, <2>1 DEF SyncUnlock, Prele, Types
  <2> QED BY <2>1, <2>3, <2>4, <2>5, PreleBase
<1>21. IPutUpdate(p) \/ SyncUpdate(p) => BaseInv'
  BY <1>2 DEF IPutUpdate, SyncUpdate
<1>22. \A i \in Ino : Lookup(p, "open", i) \/ Lookup(p, "unlink", i) => BaseInv'
  BY <1>17
<1>23. CASE Step(p)
  BY <1>1, <1>3, <1>4, <1>6, <1>7, <1>8, <1>9, <1>10, <1>11, <1>13, <1>14, <1>15,
     <1>16, <1>19, <1>18, <1>20, <1>21, <1>23 DEF Step
<1>24. CASE Call(p)
  BY <1>12, <1>13, <1>14, <1>18, <1>22, <1>24 DEF Call
<1> QED BY <1>23, <1>24

----------------------------------------------------------------------------
(* The steps, for the identity and the fields of the inodes *)

\* steps that change no inode and no entry: at most flags are set, and ino
\* of a process without a reference
LEMMA QuietInd ==
  ASSUME IndInv, BaseInv', NEW p \in Proc, Others(p),
         \A q \in Proc \ {p} : ino'[q] = ino[q] /\ pc'[q] = pc[q],
         UNCHANGED <<number, count, node, disk, latest, named, fd, slot>>,
         \A s \in Slot : flags[s] \subseteq flags'[s],
         \A q \in Proc : pc[q] = "iread" /\ "IUPD" \in flags'[slot[q]]
                        => "IUPD" \in flags[slot[q]],
         pc[p] \notin SolePCs, pc'[p] \notin SolePCs,
         pc'[p] \notin {"sync", "syncRead", "syncWrite"}, Ref(p)' = Ref(p),
         Ref(p) = NoSlot \/ ino'[p] = ino[p]
  PROVE  IndInv'
<1>1. OneCopy'
  BY DEF IndInv, OneCopy
<1>2. ASSUME NEW s \in Slot PROVE EntryOK(s)'
  <2>1. HasRead(s)' <=> HasRead(s)
    BY DEF HasRead, SolePCs
  <2> QED BY <2>1 DEF IndInv, EntryOK
<1>3. ASSUME NEW q \in Proc PROVE CallOK(q)'
  <2>1. CASE q = p
    BY <2>1 DEF IndInv, CallOK, SolePCs
  <2>2. CASE q # p
    <3>1. Ref(q)' = Ref(q) /\ CallOK(q) /\ pc'[q] = pc[q] /\ ino'[q] = ino[q]
      BY <2>2, OthersKeep DEF IndInv
    <3>2. pc[q] \in SolePCs => slot[q] \in Slot
      BY DEF IndInv, BaseInv, Shape, Shaped, HasRef, SolePCs, Types
    <3> QED BY <3>1, <3>2 DEF CallOK, Locked
  <2> QED BY <2>1, <2>2
<1>4. ASSUME NEW i \in Ino PROVE FileOK(i)'
  BY DEF IndInv, FileOK, Loaded
<1> QED BY <1>1, <1>2, <1>3, <1>4 DEF IndInv

\* nobody else is inside IPut or IGet with s
Alone(p, s) == \A q \in Proc \ {p} : pc[q] \in SolePCs => slot[q] # s

LEMMA ReadHere ==
  ASSUME NEW p \in Proc, NEW s \in Slot, Others(p), Alone(p, s)
  PROVE  /\ HasRead(s) <=>
              (slot[p] = s => pc[p] # "iread" /\ (HardErrors => pc[p] # "itrunc"))
         /\ HasRead(s)' <=>
              (slot'[p] = s => pc'[p] # "iread" /\ (HardErrors => pc'[p] # "itrunc"))
<1>1. \A q \in Proc \ {p} : slot[q] = s => pc[q] \notin SolePCs
  BY DEF Alone
<1>2. \A q \in Proc \ {p} : slot'[q] = s => pc'[q] \notin SolePCs
  BY <1>1 DEF Others, SolePCs
<1>3. \A q \in Proc \ {p} : slot[q] = s => pc[q] # "iread" /\ pc[q] # "itrunc"
  BY <1>1 DEF SolePCs
<1>4. \A q \in Proc \ {p} : slot'[q] = s => pc'[q] # "iread" /\ pc'[q] # "itrunc"
  BY <1>2 DEF SolePCs
<1>5. HasRead(s) <=> (slot[p] = s => pc[p] # "iread" /\ (HardErrors => pc[p] # "itrunc"))
  BY <1>3 DEF HasRead
<1>6. HasRead(s)' <=> (slot'[p] = s => pc'[p] # "iread" /\ (HardErrors => pc'[p] # "itrunc"))
  BY <1>4 DEF HasRead
<1> QED BY <1>5, <1>6

\* steps of p on one entry, of the inode that p looked up: what they have to
\* establish is about that entry, that process and that inode
LEMMA StepAt ==
  ASSUME IndInv, BaseInv', NEW p \in Proc, Others(p), ino' = ino,
         NEW s \in Slot, Alone(p, s),
         \A t \in Slot \ {s} : /\ number'[t] = number[t] /\ count'[t] = count[t]
                               /\ flags'[t] = flags[t] /\ node'[t] = node[t]
                               /\ count[t] # 0 => number[t] # ino[p],
         \A i \in Ino \ {ino[p]} : disk'[i] = disk[i] /\ latest'[i] = latest[i],
         named' \subseteq named,
         count[s] = 0 \/ number[s] = ino[p],
         count'[s] = 0 \/ number'[s] = ino[p],
         slot'[p] \in {s, NoSlot, slot[p]}, pc[p] \in SolePCs => slot[p] = s,
         EntryOK(s)', CallOK(p)', FileOK(ino[p])'
  PROVE  IndInv'
<1>0. ino[p] \in Ino /\ s \in Slot /\ NoSlot \notin Slot
  BY SlotFacts DEF IndInv, BaseInv, Types
<1>1. OneCopy'
  <2> SUFFICES ASSUME NEW t \in Slot, NEW u \in Slot, number'[t] = number'[u],
                      number'[t] # NoIno, count'[t] # 0, count'[u] # 0, t # u
               PROVE  FALSE
    BY DEF OneCopy
  <2>1. CASE t = s
    BY <2>1
  <2>2. CASE u = s
    BY <2>2
  <2>3. CASE t # s /\ u # s
    BY <2>3 DEF IndInv, OneCopy
  <2> QED BY <2>1, <2>2, <2>3
<1>2. ASSUME NEW t \in Slot \ {s}, count'[t] # 0 PROVE EntryOK(t)'
  <2>1. EntryOK(t) /\ number[t] \in Ino \ {ino[p]} /\ count[t] # 0
    BY <1>2 DEF IndInv, EntryOK
  <2>2. HasRead(t)' => HasRead(t)
    <3>1. slot[p] = t => pc[p] \notin SolePCs
      BY <1>2
    <3>2. \A q \in Proc \ {p} : slot[q] = t /\ pc[q] \in SolePCs =>
            slot'[q] = t /\ pc'[q] = pc[q]
      BY DEF Others, SolePCs
    <3> QED BY <3>1, <3>2 DEF HasRead, SolePCs
  <2>3. /\ disk'[number[t]] = disk[number[t]] /\ latest'[number[t]] = latest[number[t]]
        /\ number'[t] = number[t] /\ node'[t] = node[t] /\ flags'[t] = flags[t]
    BY <2>1
  <2> QED BY <2>1, <2>2, <2>3 DEF EntryOK
<1>3. ASSUME NEW q \in Proc \ {p} PROVE CallOK(q)'
  <2>1. /\ Ref(q)' = Ref(q) /\ CallOK(q) /\ slot'[q] = slot[q] /\ ino[q] \in Ino
        /\ pc'[q] = pc[q] \/ (pc[q] = "nflockSleep" /\ pc'[q] = "nflock")
    BY OthersKeep DEF IndInv, Others, BaseInv, Types
  <2>2. Ref(q) # NoSlot => number'[Ref(q)] = ino[q]
    <3> SUFFICES ASSUME Ref(q) # NoSlot PROVE number'[Ref(q)] = ino[q]
      OBVIOUS
    <3>1. number[Ref(q)] = ino[q] /\ Ref(q) \in Slot
      BY <2>1 DEF CallOK, IndInv, BaseInv, Types, Ref
    <3>2. Ref(q) = s => count[s] # 0 /\ count'[s] # 0
      <4>1. Ref(q) = s => count[s] >= 1
        BY RefIsCounted DEF IndInv, BaseInv
      <4>2. ASSUME Ref(q)' = s PROVE count'[s] # 0
        <5>1. Users(s)' \in SUBSET Proc /\ q \in Users(s)'
          BY <4>2 DEF Users
        <5>2. Cardinality(Users(s)') # 0
          BY <5>1, UsersFinite, FS_EmptySet
        <5> QED BY <5>2 DEF BaseInv, Counted
      <4> QED BY <2>1, <4>1, <4>2
    <3> QED BY <3>1, <3>2
  <2>3. ASSUME pc[q] \in SolePCs
        PROVE  /\ slot[q] \in Slot \ {s} /\ ino[q] # ino[p]
               /\ number[slot[q]] = ino[q] /\ count[slot[q]] = 1
               /\ Locked(slot[q]) /\ Ref(q) = slot[q]
    <3>1. slot[q] \in Slot /\ slot[q] # s /\ Ref(q) = slot[q]
      BY <2>3 DEF Alone, IndInv, BaseInv, Shape, Shaped, HasRef, SolePCs, Types, Ref
    <3>2. count[slot[q]] = 1 /\ Locked(slot[q]) /\ number[slot[q]] = ino[q]
      BY <1>0, <2>1, <2>3, <3>1 DEF CallOK
    <3> QED BY <3>1, <3>2
  <2>4. pc'[q] \in SolePCs => pc[q] \in SolePCs /\ pc'[q] = pc[q]
    BY <2>1 DEF SolePCs
  <2> QED BY <2>1, <2>2, <2>3, <2>4 DEF CallOK, Locked, SolePCs
<1>4. ASSUME NEW i \in Ino \ {ino[p]} PROVE FileOK(i)'
  <2>1. FileOK(i) /\ disk'[i] = disk[i] /\ latest'[i] = latest[i]
    BY DEF IndInv
  <2>2. Loaded(i)' = {} => Loaded(i) = {}
    BY DEF Loaded
  <2> QED BY <2>1, <2>2 DEF FileOK
<1>5. \A t \in Slot \ {s} : EntryOK(t)'
  BY <1>2 DEF EntryOK
<1> QED BY <1>1, <1>3, <1>4, <1>5 DEF IndInv

\* An entry that p refers to is the one of the inode p looked up, and no
\* other process is inside IPut or IGet with it.
LEMMA HeldAlone ==
  ASSUME IndInv, NEW p \in Proc, NEW s \in Slot, Ref(p) = s
  PROVE  /\ Alone(p, s) /\ number[s] = ino[p] /\ ino[p] \in Ino
         /\ count[s] \in Int /\ count[s] >= 1
         /\ \A t \in Slot \ {s} : count[t] # 0 => number[t] # ino[p]
         /\ EntryOK(s) /\ CallOK(p) /\ FileOK(ino[p])
<1>1. Alone(p, s)
  <2> SUFFICES ASSUME NEW q \in Proc \ {p}, pc[q] \in SolePCs, slot[q] = s
               PROVE  FALSE
    BY DEF Alone
  <2>1. Ref(q) = s /\ count[s] = 1
    BY DEF IndInv, BaseInv, Shape, Shaped, HasRef, SolePCs, Ref, CallOK
  <2> QED BY <2>1, SoleRef DEF IndInv, BaseInv
<1>2. number[s] = ino[p] /\ ino[p] \in Ino /\ s # NoSlot
  BY SlotFacts DEF IndInv, CallOK, BaseInv, Types
<1>3. count[s] \in Int /\ count[s] >= 1
  BY RefIsCounted DEF IndInv, BaseInv, Types
<1>4. \A t \in Slot \ {s} : count[t] # 0 => number[t] # ino[p]
  BY <1>2, <1>3, ConstantsAssumption DEF IndInv, OneCopy
<1> QED BY <1>1, <1>2, <1>3, <1>4 DEF IndInv

\* IPut of the last reference, when what the disk needs is written
LEMMA ReleaseInd ==
  ASSUME IndInv, BaseInv', NEW p \in Proc, NEW s \in Slot, Ref(p) = s, count[s] = 1,
         pc[p] \in SolePCs => slot[p] = s,
         Release(p, s), fd' = [fd EXCEPT ![p] = NoSlot],
         UNCHANGED <<node, disk, named, freed, updlock, ino, op, latest>>,
         disk[ino[p]] = latest[ino[p]]
  PROVE  IndInv'
<1> USE HeldAlone
<1>0. /\ Types /\ "user" \in PCs /\ pc' = Woken(p, s, "user")
      /\ slot' = [slot EXCEPT ![p] = NoSlot]
      /\ number' = [number EXCEPT ![s] = NoIno]
      /\ count' = [count EXCEPT ![s] = @ - 1]
      /\ flags' = [flags EXCEPT ![s] = {}]
  BY DEF IndInv, BaseInv, PCs, Release
<1>1. pc'[p] = "user" /\ Others(p) /\ fd'[p] = NoSlot /\ slot'[p] = NoSlot
  <2>1. /\ pc'[p] = "user"
        /\ \A q \in Proc \ {p} :
             pc'[q] = pc[q] \/ (pc[q] = "nflockSleep" /\ pc'[q] = "nflock")
    BY <1>0, WokenProps
  <2> QED BY <1>0, <2>1 DEF Types, Others
<1>2. /\ \A t \in Slot \ {s} : /\ number'[t] = number[t] /\ count'[t] = count[t]
                               /\ flags'[t] = flags[t] /\ node'[t] = node[t]
      /\ count'[s] = 0
  BY <1>0 DEF Types
<1>3. EntryOK(s)'
  BY <1>2 DEF EntryOK
<1>4. CallOK(p)'
  BY <1>1 DEF CallOK, Ref, HasRef, SolePCs
<1>5. FileOK(ino[p])'
  BY DEF FileOK
<1> QED BY <1>1, <1>2, <1>3, <1>4, <1>5, StepAt

\* IPut of a call, or of Close
LEMMA IPutInd ==
  ASSUME IndInv, BaseInv', NEW p \in Proc, NEW s \in Slot, Ref(p) = s, IPut(p, s),
         pc[p] \in {"iread", "got", "unlinked", "user"},
         pc[p] = "iread" => HardErrors /\ slot[p] = s,
         fd' = [fd EXCEPT ![p] = NoSlot],
         UNCHANGED <<node, disk, named, freed, updlock, ino, op, latest>>
  PROVE  IndInv'
<1> USE HeldAlone
<1>0. Types /\ "user" \in PCs /\ fd'[p] = NoSlot /\ \A q \in Proc \ {p} : fd'[q] = fd[q]
  BY DEF IndInv, BaseInv, Types, PCs
<1>1. pc[p] \in SolePCs => pc[p] = "iread" /\ slot[p] = s
  BY DEF SolePCs
<1>2. CASE IPutShared(p, s)
  <2>0. /\ count[s] > 1 /\ count' = [count EXCEPT ![s] = @ - 1]
        /\ flags' = [flags EXCEPT ![s] = @ \ {"ILOCK", "IWANT"}]
        /\ pc' = Woken(p, s, "user") /\ slot' = [slot EXCEPT ![p] = NoSlot]
        /\ UNCHANGED number
    BY <1>2 DEF IPutShared, Prele
  <2>1. /\ pc'[p] = "user" /\ slot'[p] = NoSlot /\ Others(p)
    <3>1. /\ pc'[p] = "user"
          /\ \A q \in Proc \ {p} :
               pc'[q] = pc[q] \/ (pc[q] = "nflockSleep" /\ pc'[q] = "nflock")
      BY <1>0, <2>0, WokenProps
    <3> QED BY <1>0, <2>0, <3>1 DEF Types, Others
  <2>2. /\ \A t \in Slot \ {s} : /\ number'[t] = number[t] /\ count'[t] = count[t]
                                 /\ flags'[t] = flags[t] /\ node'[t] = node[t]
        /\ "IUPD" \in flags[s] <=> "IUPD" \in flags'[s]
        /\ count'[s] = count[s] - 1
    BY <1>0, <2>0 DEF Types
  <2>3. pc[p] \notin SolePCs
    BY <1>1, <2>0 DEF CallOK, SolePCs
  <2>4. EntryOK(s)'
    <3>1. HasRead(s)
      BY <2>1, <2>3, ReadHere DEF SolePCs
    <3> QED BY <2>0, <2>2, <3>1 DEF EntryOK
  <2>5. CallOK(p)'
    BY <1>0, <2>1 DEF CallOK, Ref, HasRef, SolePCs
  <2>6. FileOK(ino[p])'
    <3>1. s \in Loaded(ino[p])'
      BY <2>0, <2>2 DEF Loaded
    <3> QED BY <3>1 DEF FileOK
  <2> QED BY <2>0, <2>1, <2>2, <2>3, <2>4, <2>5, <2>6, StepAt
<1>3. CASE count[s] = 1 /\ "IUPD" \notin flags[s] /\ Release(p, s)
  <2>1. disk[ino[p]] = latest[ino[p]]
    BY <1>3 DEF EntryOK
  <2> QED BY <1>1, <1>3, <2>1, ReleaseInd
<1>4. CASE /\ count[s] = 1
           /\ flags' = [flags EXCEPT ![s] = @ \cup {"ILOCK"}]
           /\ slot' = [slot EXCEPT ![p] = s]
           /\ \/ Goto(p, "itrunc") /\ node[s].nlink <= 0
              \/ Goto(p, "iupdate") /\ "IUPD" \in flags[s]
           /\ UNCHANGED <<number, count>>
  <2>1. /\ pc'[p] \in {"itrunc", "iupdate"} /\ slot'[p] = s /\ Others(p)
        /\ pc'[p] = "itrunc" => node[s].nlink <= 0
        /\ pc'[p] = "iupdate" => "IUPD" \in flags[s]
    BY <1>0, <1>4 DEF Goto, Types, Others
  <2>2. /\ \A t \in Slot \ {s} : /\ number'[t] = number[t] /\ count'[t] = count[t]
                                 /\ flags'[t] = flags[t] /\ node'[t] = node[t]
        /\ "IUPD" \in flags[s] <=> "IUPD" \in flags'[s]
        /\ "ILOCK" \in flags'[s]
    BY <1>0, <1>4 DEF Types
  <2>3. HasRead(s)' => HasRead(s)
    <3>1. CASE pc[p] = "iread"
      <4>1. "IUPD" \notin flags[s]
        BY <3>1 DEF CallOK
      <4>2. pc'[p] = "itrunc" /\ HardErrors
        BY <2>1, <3>1, <4>1
      <4> QED BY <2>1, <4>2, ReadHere
    <3>2. CASE pc[p] # "iread"
      BY <2>1, <3>2, ReadHere
    <3> QED BY <3>1, <3>2
  <2>4. EntryOK(s)'
    BY <1>4, <2>2, <2>3 DEF EntryOK
  <2>5. CallOK(p)'
    <3>1. ASSUME pc'[p] = "itrunc", ~ HardErrors PROVE ino[p] \notin named
      <4>1. HasRead(s)
        BY <2>1, <3>1, ReadHere
      <4>2. node[s] = latest[ino[p]]
        BY <1>4, <4>1 DEF EntryOK
      <4>3. latest[ino[p]].nlink \in Int /\ latest[ino[p]].nlink <= 0
        BY <1>0, <2>1, <3>1, <4>2 DEF Types, Node
      <4> QED BY <4>3 DEF FileOK
    <3>2. Ref(p)' = s
      BY <1>0, <2>1 DEF Ref, HasRef
    <3> QED BY <1>4, <2>1, <2>2, <3>1, <3>2 DEF CallOK, Locked
  <2>6. FileOK(ino[p])'
    BY <1>4 DEF FileOK, Loaded
  <2> QED BY <1>1, <1>4, <2>1, <2>2, <2>4, <2>5, <2>6, StepAt
<1> QED BY <1>2, <1>3, <1>4 DEF IPut, IPutLast

\* Every step but those of sync keeps the entries what they are.
LEMMA SharedNext ==
  ASSUME "sync" \notin Ops, IndInv, NEW p \in Proc, Step(p) \/ Call(p)
  PROVE  IndInv'
<1> USE DEF PCs
<1>0. /\ Types /\ BaseInv' /\ Shaped(p) /\ CallOK(p) /\ ino[p] \in Ino
      /\ HasRef(p) => slot[p] \in Slot /\ fd[p] = NoSlot /\ Ref(p) = slot[p]
      /\ pc[p] \in {"nflockSleep", "nflock", "rdwr"} => fd[p] \in Slot
      /\ fd[p] # NoSlot => fd[p] \in Slot /\ Ref(p) = fd[p]
  BY BaseNext DEF IndInv, BaseInv, Shape, Shaped, Types, Ref
<1>1. CASE ITruncDone(p)
  <2> DEFINE s == slot[p]
             n == [alloc |-> FALSE, nlink |-> 1, writes |-> 0]
  <2>0. /\ s \in Slot /\ Ref(p) = s /\ count[s] = 1 /\ Locked(s)
        /\ pc[p] = "itrunc" /\ Goto(p, "iupdate")
    BY <1>0, <1>1 DEF ITruncDone, HasRef, CallOK, SolePCs
  <2>1. /\ Alone(p, s) /\ number[s] = ino[p]
        /\ \A t \in Slot \ {s} : count[t] # 0 => number[t] # ino[p]
    BY <2>0, HeldAlone
  <2>2. /\ node' = [node EXCEPT ![s] = n] /\ latest' = [latest EXCEPT ![ino[p]] = n]
        /\ flags' = [flags EXCEPT ![s] = @ \cup {"IUPD"}]
        /\ UNCHANGED <<number, count, disk, named, ino, slot, fd>>
    BY <1>0, <1>1, <2>1 DEF ITruncDone
  <2>3. pc'[p] = "iupdate" /\ Others(p)
    BY <1>0, <2>0, <2>2 DEF Goto, Types, Others
  <2>4. /\ \A t \in Slot \ {s} : flags'[t] = flags[t] /\ node'[t] = node[t]
        /\ \A i \in Ino \ {ino[p]} : latest'[i] = latest[i]
        /\ node'[s] = n /\ latest'[ino[p]] = n /\ n.nlink = 1
        /\ {"IUPD", "ILOCK"} \subseteq flags'[s]
    BY <1>0, <2>0, <2>2 DEF Types, Locked
  <2> HIDE DEF n
  <2>5. EntryOK(s)'
    BY <1>0, <2>0, <2>1, <2>2, <2>4 DEF EntryOK
  <2>6. CallOK(p)'
    BY <1>0, <2>0, <2>1, <2>2, <2>3, <2>4 DEF CallOK, Ref, HasRef, Locked
  <2>7. FileOK(ino[p])'
    <3>1. s \in Loaded(ino[p])'
      BY <2>0, <2>1, <2>2 DEF Loaded
    <3> QED BY <2>2, <2>4, <3>1 DEF FileOK
  <2> QED BY <1>0, <2>0, <2>1, <2>2, <2>3, <2>4, <2>5, <2>6, <2>7, StepAt
<1>2. CASE IPutUpdate(p)
  <2> DEFINE s == slot[p]
  <2>0. /\ s \in Slot /\ Ref(p) = s /\ count[s] = 1 /\ Locked(s)
        /\ pc[p] = "iupdate" /\ Goto(p, "bwrite")
        /\ UNCHANGED <<number, count, flags, node, named, ino, slot, fd, latest>>
    BY <1>0, <1>2 DEF IPutUpdate, IUpdate, HasRef, CallOK, SolePCs, tabVars
  <2>1. /\ Alone(p, s) /\ number[s] = ino[p] /\ EntryOK(s) /\ FileOK(ino[p])
        /\ \A t \in Slot \ {s} : count[t] # 0 => number[t] # ino[p]
    BY <2>0, HeldAlone
  <2>2. disk' = [disk EXCEPT ![ino[p]] = node[s]]
    BY <1>0, <1>2, <2>1 DEF IPutUpdate, IUpdate
  <2>3. pc'[p] = "bwrite" /\ Others(p)
    BY <1>0, <2>0 DEF Goto, Types, Others
  <2>4. /\ \A i \in Ino \ {ino[p]} : disk'[i] = disk[i]
        /\ disk'[ino[p]] = node[s]
    BY <1>0, <2>2 DEF Types
  <2>5. node[s] = latest[ino[p]]
    <3>1. HasRead(s)
      BY <2>0, <2>1, <2>3, ReadHere
    <3> QED BY <2>0, <2>1, <3>1 DEF EntryOK
  <2>6. EntryOK(s)'
    BY <1>0, <2>0, <2>1, <2>4, <2>5 DEF EntryOK
  <2>7. CallOK(p)' /\ FileOK(ino[p])'
    BY <1>0, <2>0, <2>1, <2>3, <2>4, <2>5 DEF CallOK, FileOK, Ref, HasRef, Locked
  <2> QED BY <1>0, <2>0, <2>1, <2>3, <2>4, <2>6, <2>7, StepAt
<1>3. CASE IPutDone(p)
  <2>1. /\ slot[p] \in Slot /\ Ref(p) = slot[p] /\ count[slot[p]] = 1
        /\ disk[ino[p]] = latest[ino[p]] /\ fd' = [fd EXCEPT ![p] = NoSlot]
    BY <1>0, <1>3 DEF IPutDone, HasRef, CallOK, SolePCs, Types
  <2> QED BY <1>0, <1>3, <2>1, ReleaseInd DEF IPutDone
<1>4. CASE IGetLoaded(p)
  <2>1. PICK s \in Slot :
          /\ number[s] = ino[p] /\ count[s] # 0 /\ ~ Locked(s)
          /\ count' = [count EXCEPT ![s] = @ + 1]
          /\ flags' = [flags EXCEPT ![s] = @ \cup {"ILOCK"}]
          /\ slot' = [slot EXCEPT ![p] = s]
    BY <1>4 DEF IGetLoaded, Loaded
  <2>2. /\ pc[p] = "iget" /\ Goto(p, "got") /\ fd[p] = NoSlot
        /\ UNCHANGED <<number, node, disk, named, ino, fd, latest>>
    BY <1>0, <1>4 DEF IGetLoaded, Shaped
  <2>3. /\ Alone(p, s) /\ EntryOK(s) /\ FileOK(ino[p]) /\ count[s] + 1 # 0
        /\ \A t \in Slot \ {s} : count[t] # 0 => number[t] # ino[p]
    <3>1. Alone(p, s)
      BY <2>1 DEF IndInv, CallOK, Alone
    <3>2. PICK q \in Proc : Ref(q) = s
      BY <2>1, SomeRef DEF IndInv, BaseInv
    <3> QED BY <1>0, <2>1, <3>1, <3>2, HeldAlone DEF IndInv
  <2>4. pc'[p] = "got" /\ slot'[p] = s /\ Others(p)
    BY <1>0, <2>1, <2>2 DEF Goto, Types, Others
  <2>5. /\ \A t \in Slot \ {s} : flags'[t] = flags[t] /\ count'[t] = count[t]
        /\ count'[s] # 0
        /\ "IUPD" \in flags'[s] <=> "IUPD" \in flags[s]
    BY <1>0, <2>1, <2>3 DEF Types
  <2>6. EntryOK(s)'
    <3>1. HasRead(s)
      BY <2>2, <2>3, <2>4, ReadHere
    <3> QED BY <1>0, <2>1, <2>2, <2>3, <2>5, <3>1 DEF EntryOK
  <2>7. CallOK(p)' /\ FileOK(ino[p])'
    <3>1. s \in Loaded(ino[p])'
      BY <2>1, <2>2, <2>5 DEF Loaded
    <3> QED BY <1>0, <2>1, <2>2, <2>3, <2>4, <3>1
        DEF CallOK, FileOK, Ref, HasRef, SolePCs
  <2> QED BY <1>0, <2>1, <2>2, <2>3, <2>4, <2>5, <2>6, <2>7, StepAt DEF SolePCs
<1>5. CASE IGetNew(p)
  <2>1. PICK s \in Slot :
          /\ count[s] = 0
          /\ number' = [number EXCEPT ![s] = ino[p]]
          /\ count' = [count EXCEPT ![s] = @ + 1]
          /\ flags' = [flags EXCEPT ![s] = {"ILOCK"}]
          /\ slot' = [slot EXCEPT ![p] = s]
    BY <1>5 DEF IGetNew, Free
  <2>2. /\ pc[p] = "iget" /\ Goto(p, "iread") /\ fd[p] = NoSlot /\ Loaded(ino[p]) = {}
        /\ UNCHANGED <<node, disk, named, ino, fd, latest>>
    BY <1>0, <1>5 DEF IGetNew, Shaped
  <2>3. /\ Alone(p, s) /\ disk[ino[p]] = latest[ino[p]]
        /\ ino[p] \in named => latest[ino[p]].nlink > 0
        /\ \A t \in Slot : count[t] # 0 => number[t] # ino[p]
    BY <1>0, <2>1, <2>2 DEF IndInv, CallOK, Alone, FileOK, Loaded
  <2>4. pc'[p] = "iread" /\ slot'[p] = s /\ Others(p)
    BY <1>0, <2>1, <2>2 DEF Goto, Types, Others
  <2>5. /\ \A t \in Slot \ {s} : /\ flags'[t] = flags[t] /\ count'[t] = count[t]
                                 /\ number'[t] = number[t]
        /\ count'[s] = 1 /\ flags'[s] = {"ILOCK"} /\ number'[s] = ino[p]
    BY <1>0, <2>1 DEF Types
  <2>6. EntryOK(s)'
    <3>1. ~ HasRead(s)'
      BY <2>3, <2>4, ReadHere
    <3> QED BY <1>0, <2>2, <2>3, <2>5, <3>1 DEF EntryOK
  <2>7. CallOK(p)' /\ FileOK(ino[p])'
    BY <1>0, <2>2, <2>3, <2>4, <2>5 DEF CallOK, FileOK, Ref, HasRef, Locked
  <2> QED BY <1>0, <2>1, <2>2, <2>3, <2>4, <2>5, <2>6, <2>7, StepAt DEF SolePCs
<1>6. CASE IGetRead(p)
  <2> DEFINE s == slot[p]
  <2>0. /\ s \in Slot /\ Ref(p) = s /\ count[s] = 1 /\ "IUPD" \notin flags[s]
        /\ pc[p] = "iread" /\ Goto(p, "got")
        /\ node' = [node EXCEPT ![s] = disk[ino[p]]]
        /\ UNCHANGED <<number, count, flags, disk, named, ino, slot, fd, latest>>
    BY <1>0, <1>6 DEF IGetRead, HasRef, CallOK, SolePCs
  <2>1. /\ Alone(p, s) /\ number[s] = ino[p] /\ EntryOK(s) /\ FileOK(ino[p])
        /\ \A t \in Slot \ {s} : count[t] # 0 => number[t] # ino[p]
    BY <2>0, HeldAlone
  <2>2. disk[ino[p]] = latest[ino[p]]
    BY <2>0, <2>1 DEF EntryOK
  <2>3. pc'[p] = "got" /\ Others(p)
    BY <1>0, <2>0 DEF Goto, Types, Others
  <2>4. /\ \A t \in Slot \ {s} : node'[t] = node[t]
        /\ node'[s] = disk[ino[p]]
    BY <1>0, <2>0 DEF Types
  <2>5. EntryOK(s)'
    BY <1>0, <2>0, <2>1, <2>2, <2>4 DEF EntryOK
  <2>6. CallOK(p)' /\ FileOK(ino[p])'
    BY <1>0, <2>0, <2>1, <2>2, <2>3 DEF CallOK, FileOK, Loaded, Ref, HasRef, SolePCs
  <2> QED BY <1>0, <2>0, <2>1, <2>3, <2>4, <2>5, <2>6, StepAt
<1>7. CASE IGetError(p) \/ Open1Fail(p) \/ UnLinkPut(p)
  <2>1. /\ pc[p] \in {"iread", "got", "unlinked"} /\ IPut(p, slot[p])
        /\ pc[p] = "iread" => HardErrors
        /\ UNCHANGED <<node, disk, named, freed, updlock, ino, op, fd, latest>>
    BY <1>7 DEF IGetError, Open1Fail, UnLinkPut
  <2>2. slot[p] \in Slot /\ Ref(p) = slot[p] /\ fd' = [fd EXCEPT ![p] = NoSlot]
    BY <1>0, <2>1 DEF HasRef, Types
  <2> QED BY <1>0, <2>1, <2>2, IPutInd
<1>8. CASE Close(p)
  <2>1. fd[p] \in Slot /\ Ref(p) = fd[p]
    BY <1>0, <1>8 DEF Close
  <2> QED BY <1>0, <1>8, <2>1, IPutInd DEF Close
<1>9. ASSUME NEW s \in Slot, Ref(p) = s, pc[p] \in {"got", "rdwr"}, Prele(p, s, "user"),
             slot'[p] \in {slot[p], NoSlot}, Ref(p)' = s, Others(p),
             UNCHANGED <<number, count, node, disk, named, ino, latest>>
      PROVE  IndInv'
  <2>1. /\ Alone(p, s) /\ number[s] = ino[p] /\ EntryOK(s) /\ FileOK(ino[p])
        /\ \A t \in Slot \ {s} : count[t] # 0 => number[t] # ino[p]
    BY <1>9, HeldAlone
  <2>2. /\ pc'[p] = "user" /\ pc[p] \notin SolePCs
        /\ \A t \in Slot \ {s} : flags'[t] = flags[t]
        /\ "IUPD" \in flags'[s] <=> "IUPD" \in flags[s]
    BY <1>0, <1>9 DEF Prele, Woken, Types, SolePCs
  <2>3. EntryOK(s)'
    <3>1. HasRead(s)
      BY <1>9, <2>1, <2>2, ReadHere DEF SolePCs
    <3> QED BY <1>9, <2>1, <2>2, <3>1 DEF EntryOK
  <2>4. CallOK(p)' /\ FileOK(ino[p])'
    BY <1>9, <2>1, <2>2 DEF CallOK, FileOK, Loaded, SolePCs
  <2> QED BY <1>0, <1>9, <2>1, <2>2, <2>3, <2>4, StepAt
<1>10. CASE Open1(p)
  <2>1. /\ HasRef(p) /\ Prele(p, slot[p], "user") /\ pc[p] = "got"
        /\ fd' = [fd EXCEPT ![p] = slot[p]] /\ slot' = [slot EXCEPT ![p] = NoSlot]
        /\ UNCHANGED <<number, count, node, disk, named, ino, latest>>
    BY <1>10 DEF Open1, HasRef
  <2>2. Others(p)
    BY <1>0, <2>1, WokenProps DEF Prele, Types, Others
  <2>3. slot'[p] = NoSlot /\ Ref(p)' = slot[p]
    BY <1>0, <2>1, SlotFacts DEF Types, Ref
  <2> QED BY <1>0, <1>9, <2>1, <2>2, <2>3
<1>11. CASE ReadDone(p)
  <2>1. /\ fd[p] \in Slot /\ Ref(p) = fd[p] /\ Ref(p)' = fd[p] /\ pc[p] = "rdwr"
        /\ Prele(p, fd[p], "user")
        /\ UNCHANGED <<number, count, node, disk, named, ino, slot, fd, latest>>
    BY <1>0, <1>11, SlotFacts DEF ReadDone, Ref
  <2>2. Others(p)
    BY <1>0, <2>1, WokenProps DEF Prele, Others
  <2> QED BY <1>9, <2>1, <2>2
<1>12. ASSUME NEW s \in Slot, Ref(p) = s, Ref(p)' = s, pc[p] \in {"got", "rdwr"},
              pc'[p] \in {"user", "unlinked"}, Others(p), NEW n \in Node,
              n.nlink = node[s].nlink \/ ino[p] \notin named',
              node' = [node EXCEPT ![s] = n], latest' = [latest EXCEPT ![ino[p]] = n],
              "IUPD" \in flags'[s], \A t \in Slot \ {s} : flags'[t] = flags[t],
              named' \subseteq named,
              UNCHANGED <<number, count, disk, ino, slot>>
       PROVE  IndInv'
  <2>1. /\ Alone(p, s) /\ number[s] = ino[p] /\ EntryOK(s) /\ FileOK(ino[p])
        /\ \A t \in Slot \ {s} : count[t] # 0 => number[t] # ino[p]
        /\ count[s] # 0
    BY <1>12, HeldAlone
  <2>2. /\ \A t \in Slot \ {s} : node'[t] = node[t]
        /\ \A i \in Ino \ {ino[p]} : latest'[i] = latest[i]
        /\ node'[s] = n /\ latest'[ino[p]] = n
    BY <1>0, <1>12 DEF Types
  <2>3. node[s] = latest[ino[p]]
    <3>1. HasRead(s)
      BY <1>12, <2>1, ReadHere
    <3> QED BY <2>1, <3>1 DEF EntryOK
  <2>4. EntryOK(s)'
    BY <1>0, <1>12, <2>1, <2>2 DEF EntryOK
  <2>5. CallOK(p)'
    BY <1>12, <2>1 DEF CallOK, SolePCs
  <2>6. FileOK(ino[p])'
    <3>1. s \in Loaded(ino[p])'
      BY <1>12, <2>1 DEF Loaded
    <3> QED BY <1>12, <2>1, <2>2, <2>3, <3>1 DEF FileOK
  <2> QED BY <1>0, <1>12, <2>1, <2>2, <2>4, <2>5, <2>6, StepAt DEF SolePCs
<1>13. CASE WriteDone(p)
  <2> DEFINE n == [node[fd[p]] EXCEPT !.writes = @ + 1]
  <2>1. /\ fd[p] \in Slot /\ Ref(p) = fd[p] /\ Ref(p)' = fd[p] /\ pc[p] = "rdwr"
        /\ pc' = Woken(p, fd[p], "user")
        /\ node' = [node EXCEPT ![fd[p]] = n] /\ latest' = [latest EXCEPT ![ino[p]] = n]
        /\ flags' = [flags EXCEPT ![fd[p]] = (@ \ {"ILOCK", "IWANT"}) \cup {"IUPD"}]
        /\ UNCHANGED <<number, count, disk, named, ino, slot, fd>>
    BY <1>0, <1>13, SlotFacts DEF WriteDone, Ref
  <2>2. n \in Node /\ n.nlink = node[fd[p]].nlink
    BY <1>0, <1>13, <2>1, NodeSteps DEF WriteDone, Types, Node
  <2>3. pc'[p] = "user" /\ Others(p)
    BY <1>0, <2>1, WokenProps DEF Others
  <2>4. "IUPD" \in flags'[fd[p]] /\ \A t \in Slot \ {fd[p]} : flags'[t] = flags[t]
    BY <1>0, <2>1 DEF Types
  <2> HIDE DEF n
  <2> QED BY <1>12, <2>1, <2>2, <2>3, <2>4
<1>14. CASE UnLink(p)
  <2> DEFINE n == [node[slot[p]] EXCEPT !.nlink = @ - 1]
  <2>1. /\ HasRef(p) /\ pc[p] = "got" /\ Goto(p, "unlinked")
        /\ node' = [node EXCEPT ![slot[p]] = n]
        /\ latest' = [latest EXCEPT ![ino[p]] = n]
        /\ flags' = [flags EXCEPT ![slot[p]] = @ \cup {"IUPD"}]
        /\ named' = named \ {ino[p]}
        /\ UNCHANGED <<number, count, disk, ino, slot, fd>>
    BY <1>14 DEF UnLink, HasRef
  <2>2. n \in Node
    BY <1>0, <2>1, NodeSteps DEF Types
  <2>3. pc'[p] = "unlinked" /\ Others(p) /\ Ref(p)' = slot[p]
    BY <1>0, <2>1 DEF Goto, Types, Others, Ref, HasRef
  <2>4. "IUPD" \in flags'[slot[p]] /\ \A t \in Slot \ {slot[p]} : flags'[t] = flags[t]
    BY <1>0, <2>1 DEF Types
  <2> HIDE DEF n
  <2> QED BY <1>0, <1>12, <2>1, <2>2, <2>3, <2>4
<1>15. CASE \/ IGetSleep(p) \/ IGetFull(p) \/ NFlockSleep(p) \/ NFlock(p)
            \/ \E i \in Ino : Lookup(p, "open", i) \/ Lookup(p, "unlink", i)
  <2>1. UNCHANGED <<number, count, node, disk, latest, named, fd, slot>>
    BY <1>15 DEF IGetSleep, IGetFull, NFlockSleep, NFlock, Lookup, tabVars
  <2>2. /\ pc[p] \in {"iget", "user", "nflock"}
        /\ \E l \in {"igetSleep", "panic", "user", "nflockSleep", "rdwr", "iget"} :
             Goto(p, l)
    BY <1>15 DEF IGetSleep, IGetFull, NFlockSleep, NFlock, NFlockCall, Lookup
  <2>3. /\ pc'[p] \in {"igetSleep", "panic", "user", "nflockSleep", "rdwr", "iget"}
        /\ \A q \in Proc \ {p} : pc'[q] = pc[q]
    BY <1>0, <2>2 DEF Goto, Types
  <2>4. /\ Others(p) /\ Ref(p)' = Ref(p)
        /\ pc[p] \notin SolePCs /\ pc'[p] \notin SolePCs
        /\ pc'[p] \notin {"sync", "syncRead", "syncWrite"}
    BY <2>1, <2>2, <2>3 DEF Others, Ref, HasRef, SolePCs
  <2>5. /\ \A q \in Proc \ {p} : ino'[q] = ino[q]
        /\ Ref(p) = NoSlot \/ ino'[p] = ino[p]
    <3>1. CASE UNCHANGED ino
      BY <3>1
    <3>2. CASE \E i \in Ino : Lookup(p, "open", i) \/ Lookup(p, "unlink", i)
      BY <1>0, <3>2 DEF Lookup, Types, Ref, HasRef
    <3> QED BY <1>15, <3>1, <3>2 DEF IGetSleep, IGetFull, NFlockSleep, NFlock
  <2>6. /\ \A t \in Slot : flags[t] \subseteq flags'[t]
        /\ \A t \in Slot : "IUPD" \in flags'[t] /\ "IUPD" \notin flags[t] => fd[p] = t
    <3>1. CASE UNCHANGED flags
      BY <3>1
    <3>2. CASE IGetSleep(p)
      <4>1. PICK s \in Slot : flags' = [flags EXCEPT ![s] = @ \cup {"IWANT"}]
        BY <3>2 DEF IGetSleep, Loaded
      <4> QED BY <1>0, <4>1 DEF Types
    <3>3. CASE NFlockSleep(p)
      BY <1>0, <3>3 DEF NFlockSleep, Types
    <3>4. CASE NFlock(p)
      BY <1>0, <3>4 DEF NFlock, Types
    <3> QED BY <1>15, <3>1, <3>2, <3>3, <3>4 DEF IGetFull, Lookup, tabVars
  <2>7. ASSUME NEW q \in Proc, pc[q] = "iread", "IUPD" \in flags'[slot[q]]
        PROVE  "IUPD" \in flags[slot[q]]
    <3>1. slot[q] \in Slot /\ q # p
      BY <2>2, <2>7 DEF IndInv, BaseInv, Shape, Shaped, HasRef, Types
    <3>2. fd[p] # slot[q]
      <4> SUFFICES ASSUME fd[p] = slot[q] PROVE FALSE
        OBVIOUS
      <4>1. Ref(p) = slot[q]
        BY <3>1, SlotFacts DEF Ref
      <4>2. Alone(p, slot[q])
        BY <3>1, <4>1, HeldAlone
      <4> QED BY <2>7, <3>1, <4>2 DEF Alone, SolePCs
    <3> QED BY <2>6, <2>7, <3>1, <3>2
  <2> QED BY <1>0, <2>1, <2>3, <2>4, <2>5, <2>6, <2>7, QuietInd
<1>16. /\ ~ SyncLock(p) /\ ~ SyncUpdate(p) /\ ~ SyncUnlock(p) /\ ~ SyncEnd(p)
       /\ ~ Sync(p)
  BY <1>0 DEF SyncLock, SyncUpdate, IUpdate, SyncUnlock, SyncEnd, Sync, CallOK
<1>17. CASE Step(p)
  BY <1>1, <1>2, <1>3, <1>4, <1>5, <1>6, <1>7, <1>10, <1>11, <1>13, <1>14, <1>15,
     <1>16, <1>17 DEF Step
<1>18. CASE Call(p)
  BY <1>8, <1>15, <1>16, <1>18 DEF Call
<1> QED BY <1>17, <1>18

----------------------------------------------------------------------------
(* The theorems *)

\* an empty table
LEMMA InitInd == ASSUME Init PROVE IndInv
<1>0. ino \in [Proc -> Ino]
  <2>1. (CHOOSE i \in Ino : TRUE) \in Ino
    BY ConstantsAssumption
  <2> QED BY <2>1 DEF Init
<1>1. Types
  <2>1. /\ [alloc |-> FALSE, nlink |-> 0, writes |-> 0] \in Node
        /\ [alloc |-> TRUE, nlink |-> 1, writes |-> 0] \in Node
    BY ConstantsAssumption DEF Node
  <2>2. node \in [Slot -> Node] /\ disk \in [Ino -> Node] /\ latest \in [Ino -> Node]
    BY <2>1 DEF Init
  <2>3. /\ flags \in [Slot -> SUBSET Flags] /\ updlock \in BOOLEAN
        /\ named \subseteq Ino /\ freed \subseteq Ino
    <3>1. {} \in SUBSET Flags
      OBVIOUS
    <3> QED BY <3>1 DEF Init
  <2>4. /\ pc \in [Proc -> PCs] /\ op \in [Proc -> AllOps]
        /\ slot \in [Proc -> Slot \cup {NoSlot}] /\ fd \in [Proc -> Slot \cup {NoSlot}]
    BY DEF Init, PCs, AllOps
  <2>5. number \in [Slot -> Ino \cup {NoIno}] /\ count \in [Slot -> Int]
    BY DEF Init
  <2> QED BY <1>0, <2>2, <2>3, <2>4, <2>5 DEF Types
<1>2. \A p \in Proc : pc[p] = "user" /\ Ref(p) = NoSlot /\ fd[p] = NoSlot
  BY DEF Init, Ref, HasRef
<1>3. Shape /\ NoLostWakeup
  BY <1>2 DEF Shape, Shaped, HasRef, NoLostWakeup
<1>4. Counted
  <2>1. \A s \in Slot : Users(s) = {}
    BY <1>2, SlotFacts DEF Users
  <2> QED BY <2>1, FS_EmptySet DEF Counted, Init
<1>5. OneCopy /\ \A s \in Slot : EntryOK(s)
  BY DEF Init, OneCopy, EntryOK
<1>6. \A p \in Proc : CallOK(p)
  BY <1>2 DEF CallOK, SolePCs
<1>7. \A i \in Ino : FileOK(i)
  <2>1. disk = latest /\ disk = [i \in Ino |-> [alloc |-> TRUE, nlink |-> 1, writes |-> 0]]
    BY DEF Init
  <2> QED BY <2>1 DEF FileOK
<1> QED BY <1>1, <1>3, <1>4, <1>5, <1>6, <1>7 DEF IndInv, BaseInv

LEMMA BaseInductive == Spec => []BaseInv
<1>1. Init => BaseInv
  BY InitInd DEF IndInv
<1>2. BaseInv /\ [Next]_vars => BaseInv'
  <2> SUFFICES ASSUME BaseInv, [Next]_vars PROVE BaseInv'
    OBVIOUS
  <2>1. CASE UNCHANGED vars
    <3>1. UNCHANGED <<number, count, flags, node, disk, named, freed, updlock,
                      pc, ino, op, slot, fd, latest>>
      BY <2>1 DEF vars, tabVars, procVars
    <3> QED BY <3>1 DEF BaseInv, Types, Shape, Shaped, Counted, Users, Ref, HasRef,
                        NoLostWakeup
  <2>2. CASE Next
    BY <2>2, BaseNext DEF Next
  <2> QED BY <2>1, <2>2
<1> QED BY <1>1, <1>2, PTL DEF Spec

LEMMA Inductive == ASSUME "sync" \notin Ops PROVE Spec => []IndInv
<1>1. Init => IndInv
  BY InitInd
<1>2. IndInv /\ [Next]_vars => IndInv'
  <2> SUFFICES ASSUME IndInv, [Next]_vars PROVE IndInv'
    OBVIOUS
  <2>1. CASE UNCHANGED vars
    <3>1. UNCHANGED <<number, count, flags, node, disk, named, freed, updlock,
                      pc, ino, op, slot, fd, latest>>
      BY <2>1 DEF vars, tabVars, procVars
    <3>2. BaseInv'
      BY <3>1 DEF IndInv, BaseInv, Types, Shape, Shaped, Counted, Users, Ref, HasRef,
                  NoLostWakeup
    <3>3. OneCopy' /\ \A s \in Slot : EntryOK(s)'
      BY <3>1 DEF IndInv, OneCopy, EntryOK, HasRead
    <3>4. \A p \in Proc : CallOK(p)'
      BY <3>1 DEF IndInv, CallOK, Ref, HasRef, Locked
    <3>5. \A i \in Ino : FileOK(i)'
      BY <3>1 DEF IndInv, FileOK, Loaded
    <3> QED BY <3>2, <3>3, <3>4, <3>5 DEF IndInv
  <2>2. CASE Next
    BY <2>2, SharedNext DEF Next
  <2> QED BY <2>1, <2>2
<1> QED BY <1>1, <1>2, PTL DEF Spec

\* i_count is the number of open files and calls that refer to the entry:
\* IGet, IPut, Open1 and Close lose none and count none twice.
THEOREM CountsAreReferences == Spec => []RefCount
<1>1. BaseInv => RefCount
  <2> SUFFICES ASSUME BaseInv, NEW s \in Slot
               PROVE  count[s] = Cardinality({p \in Proc : fd[p] = s})
                               + Cardinality({p \in Proc : HasRef(p) /\ slot[p] = s})
    BY DEF RefCount
  <2> DEFINE F == {p \in Proc : fd[p] = s}
             C == {p \in Proc : HasRef(p) /\ slot[p] = s}
  <2>1. IsFiniteSet(F) /\ IsFiniteSet(C) /\ Cardinality(F) \in Nat /\ Cardinality(C) \in Nat
    BY UsersFinite
  <2>2. F \cap C = {}
    BY SlotFacts DEF BaseInv, Shape, Shaped
  <2>3. F \cup C = Users(s)
    BY SlotFacts DEF BaseInv, Shape, Shaped, Users, Ref
  <2>4. Cardinality(F \cap C) = 0
    BY <2>2, FS_EmptySet
  <2>5. Cardinality(F \cup C) = Cardinality(F) + Cardinality(C) - Cardinality(F \cap C)
    BY <2>1, FS_Union
  <2>6. count[s] = Cardinality(F \cup C)
    BY <2>3 DEF BaseInv, Counted
  <2> HIDE DEF F, C
  <2>7. count[s] = Cardinality(F) + Cardinality(C)
    BY <2>1, <2>4, <2>5, <2>6
  <2> QED BY <2>7 DEF F, C
<1> QED BY <1>1, BaseInductive, PTL

\* Type correctness of the table; i_count is at most the number of processes.
THEOREM TypeCorrect == Spec => []TypeOK
<1>1. BaseInv => TypeOK
  <2> SUFFICES ASSUME BaseInv PROVE TypeOK
    OBVIOUS
  <2>1. ASSUME NEW s \in Slot PROVE count[s] \in 0 .. Cardinality(Proc)
    <3>1. Users(s) \in SUBSET Proc
      BY DEF Users
    <3>2. Cardinality(Users(s)) \in Nat /\ Cardinality(Proc) \in Nat
      BY <3>1, UsersFinite
    <3>3. Cardinality(Users(s)) <= Cardinality(Proc)
      BY <3>1, ConstantsAssumption, FS_Subset
    <3> QED BY <3>2, <3>3 DEF BaseInv, Counted
  <2>2. count \in [Slot -> 0 .. Cardinality(Proc)]
    BY <2>1 DEF BaseInv, Types
  <2> QED BY <2>2 DEF BaseInv, Types, TypeOK
<1> QED BY <1>1, BaseInductive, PTL

\* Prele and NFrele wake whoever sleeps in NFlock, IPut and sync included.
THEOREM NobodySleepsForEver == Spec => []NoLostWakeup
<1>1. BaseInv => NoLostWakeup
  BY DEF BaseInv
<1> QED BY <1>1, BaseInductive, PTL

\* IGet never makes a second copy of an inode, without sync.
THEOREM OneCopyOfAnInode == ASSUME "sync" \notin Ops PROVE Spec => []OneCopy
<1>1. IndInv => OneCopy
  BY DEF IndInv
<1> QED BY <1>1, Inductive, PTL

\* An open file, or an inode that a call has got, stays the one it was.
THEOREM OpenFilesStay == ASSUME "sync" \notin Ops PROVE Spec => []KeepsIdentity
<1>1. IndInv => KeepsIdentity
  <2> SUFFICES ASSUME IndInv, NEW p \in Proc
               PROVE  /\ fd[p] # NoSlot => number[fd[p]] = ino[p]
                      /\ HasRef(p) => number[slot[p]] = ino[p]
    BY DEF KeepsIdentity
  <2>1. CallOK(p) /\ Shaped(p)
    BY DEF IndInv, BaseInv, Shape
  <2> QED BY <2>1 DEF CallOK, Shaped, Ref
<1> QED BY <1>1, Inductive, PTL

\* What IPut drops from memory, the disk has.
THEOREM ChangesReachTheDisk == ASSUME "sync" \notin Ops PROVE Spec => []NoLostUpdate
<1>1. IndInv => NoLostUpdate
  BY DEF IndInv, FileOK, NoLostUpdate
<1> QED BY <1>1, Inductive, PTL

\* IPut frees a file only after UnLink has taken its name, when reads of
\* inodes do not fail.
THEOREM NamedFilesAreKept ==
  ASSUME "sync" \notin Ops, HardErrors = FALSE PROVE Spec => FreedIsUnnamed
<1>1. IndInv /\ [Next]_vars => [\A i \in freed' \ freed : i \notin named]_vars
  <2> SUFFICES ASSUME IndInv, NEW p \in Proc, Step(p) \/ Call(p), NEW i \in freed' \ freed
               PROVE  i \notin named
    BY DEF Next
  <2>1. CASE ITruncDone(p)
    <3>1. pc[p] = "itrunc" /\ freed' = freed \cup ({number[slot[p]]} \cap Ino)
      BY <2>1 DEF ITruncDone
    <3>2. /\ CallOK(p) /\ Ref(p) = slot[p] /\ slot[p] \in Slot
      BY <3>1 DEF IndInv, BaseInv, Shape, Shaped, HasRef, Ref, Types
    <3>3. i = ino[p]
      BY <3>1, <3>2, SlotFacts DEF CallOK
    <3> QED BY <3>1, <3>2, <3>3 DEF CallOK
  <2>2. CASE freed' = freed
    BY <2>2
  <2> QED BY <2>1, <2>2
      DEF Step, Call, IPutUpdate, IUpdate, IPutDone, IGetSleep, IGetLoaded, IGetFull,
          IGetNew, IGetRead, IGetError, Open1, Open1Fail, UnLink, UnLinkPut,
          NFlockSleep, NFlock, ReadDone, WriteDone, SyncLock, SyncUpdate, SyncUnlock,
          SyncEnd, Lookup, Close, Sync
<1> QED BY <1>1, Inductive, PTL DEF Spec, FreedIsUnnamed
=============================================================================
