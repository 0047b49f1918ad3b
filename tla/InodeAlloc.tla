---------------------------- MODULE InodeAlloc ----------------------------
(***************************************************************************)
(* The free inodes of a file system: FileSystem::IAlloc and IFree with the *)
(* list s_inode of the superblock, its two-sector copy by Update and       *)
(* LoadSuperBlock (fs/FileSystem.cpp), and what creat, open, close and     *)
(* unlink do to the mode of an inode in memory and on the disk             *)
(* (fs/FileManager.cpp, IGet and IPut of fs/OpenFileManager.cpp).          *)
(*                                                                         *)
(* A crash loses the memory; the next boot loads the superblock that was   *)
(* last written, which may name inodes that are in use by now.             *)
(*                                                                         *)
(* An action runs from one sleep to the next.  Files are in the root       *)
(* directory, whose inode (number 0) is always in memory.  InodeTable has  *)
(* the entries, waits and transfer errors that are left out here: an inode *)
(* in memory is found by its number, and UpdateInodeTable is one step.     *)
(***************************************************************************)
EXTENDS Naturals, Integers, FiniteSets, Sequences, FiniteSetsExt

CONSTANTS
  Proc,      \* processes; each has at most one file open
  NIno,      \* inodes on the disk
  PerBlock,  \* INODE_NUMBER_PER_SECTOR
  MaxFree,   \* entries of s_inode (100)
  Split,     \* entries of s_inode in the first sector of the superblock (24)
  NINODE,    \* entries of the inode table, the root's not counted
  MaxCrash   \* bound: crashes

ASSUME ConstantsAssumption ==
  /\ {NIno, PerBlock, MaxFree, NINODE} \subseteq Nat \ {0}
  /\ MaxFree < NIno
  /\ Split \in 0 .. MaxFree /\ MaxCrash \in Nat
  /\ IsFiniteSet(Proc) /\ Proc # {}   \* of the NPROC entries one is always used

Ino    == 0 .. NIno - 1
File   == Ino \ {0}
Entry  == 0 .. MaxFree - 1
Blocks == (NIno + PerBlock - 1) \div PerBlock    \* s_isize
PCs    == {"user", "ilockSleep", "ilock", "scan", "igetSleep", "iread", "made",
           "oread", "open", "unlink", "itrunc", "iupdate", "sync0", "sync1",
           "sync2", "wild"}

VARIABLES
  s_inode, s_ninode, s_ilock, s_fmod,   \* the superblock in memory
  saved,    \* the superblock on the disk
  updlock,  \* updlock of FileSystem::Update
  core,     \* the inodes in memory; i_count = 0 where there is none
  disk,     \* the inodes on the disk
  named,    \* the inodes that a directory entry names
  pc, ino,  \* where each process is, and the inode of its call or open file
  op,       \* what the inode is got for: "alloc", "open" or "unlink"
  blk,      \* the block that the search of the disk reads
  late,     \* history: inodes that became free while the disk is searched
  files,    \* history: how many files have the inode
  crashes

spb   == <<s_inode, s_ninode, s_ilock, s_fmod>>
procs == <<pc, ino, op>>
hist  == <<late, files, crashes>>
vars  == <<spb, saved, updlock, core, disk, named, procs, blk, hist>>

\* i_mode # 0 and i_nlink; in memory also i_count, ILOCK, and IUPD or IACC
DiskNode == [mode : BOOLEAN, nlink : Int]
CoreNode == [mode : BOOLEAN, nlink : Int, count : 0 .. Cardinality(Proc),
             lock : BOOLEAN, upd : BOOLEAN]
Absent   == [mode |-> FALSE, nlink |-> 0, count |-> 0, lock |-> FALSE, upd |-> FALSE]

Goto(p, l) == pc' = [pc EXCEPT ![p] = l]

\* InodeTable::IsLoaded
IsLoaded(i) == core[i].count # 0

\* GetFreeInode finds an entry
Room(c) == Cardinality({i \in File : c[i].count # 0}) < NINODE

\* ICopy: the inode as IGet brings it in, locked
FromDisk(i) == [mode |-> disk[i].mode, nlink |-> disk[i].nlink, count |-> 1,
                lock |-> TRUE, upd |-> FALSE]

----------------------------------------------------------------------------
(* FileSystem::IAlloc *)

\* mutant: an inode is taken from the list without a look at its mode
TakeAny(p, arr, n, c, w) ==
  LET i == arr[n - 1] IN
  /\ n > 0 /\ c[i].count = 0 /\ Room(c)
  /\ s_inode' = arr /\ s_ninode' = n - 1
  /\ ino' = [ino EXCEPT ![p] = i]
  /\ core' = [c EXCEPT ![i] = [FromDisk(i) EXCEPT !.mode = TRUE, !.nlink = 1, !.upd = TRUE]]
  /\ files' = [files EXCEPT ![i] = @ + 1]
  /\ UNCHANGED op
  /\ pc' = [w EXCEPT ![p] = "made"]

\* The loop from the top of the list down, with arr, n and c for s_inode,
\* s_ninode, the inodes in memory and pc.  An open file is got and put at once;
\* the loop never looks whether the list is empty.  For the first other
\* number IGet sleeps on its lock (for ever: nobody wakes that address),
\* finds no entry, or reads the inode.
Take(p, arr, n, c, w) ==
  LET InUse(k) == c[arr[k]].count # 0 /\ ~ c[arr[k]].lock /\ c[arr[k]].mode
      Left     == {k \in 0 .. n - 1 : ~ InUse(k)}
  IN
  /\ s_inode' = arr
  /\ UNCHANGED files
  /\ \/ /\ Left = {}
        /\ s_ninode' = 0 /\ core' = c
        /\ pc' = [w EXCEPT ![p] = "wild"] /\ UNCHANGED <<ino, op>>
     \/ \E k \in Left :
          LET i == arr[k] IN
          /\ k = Max(Left)
          /\ s_ninode' = k
          /\ ino' = [ino EXCEPT ![p] = i] /\ op' = [op EXCEPT ![p] = "alloc"]
          /\ \/ /\ c[i].lock
                /\ core' = c /\ pc' = [w EXCEPT ![p] = "igetSleep"]
             \/ /\ c[i].count = 0 /\ ~ Room(c)
                /\ core' = c /\ pc' = [w EXCEPT ![p] = "user"]
             \/ /\ c[i].count = 0 /\ Room(c)
                /\ core' = [c EXCEPT ![i] = [Absent EXCEPT !.count = 1, !.lock = TRUE]]
                /\ pc' = [w EXCEPT ![p] = "iread"]

\* creat of a new name, or back from the sleep on s_ilock
Begin(p) == pc[p] \in {"user", "ilock"}

IAllocSleep(p) ==
  /\ Begin(p) /\ s_ilock
  /\ Goto(p, "ilockSleep")
  /\ UNCHANGED <<spb, saved, updlock, core, disk, named, ino, op, blk, hist>>

IAllocTake(p) ==
  /\ Begin(p) /\ ~ s_ilock /\ s_ninode > 0
  /\ Take(p, s_inode, s_ninode, core, pc)
  /\ UNCHANGED <<s_ilock, s_fmod, saved, updlock, disk, named, blk, late, crashes>>

\* the list is empty: search the disk
IAllocSearch(p) ==
  /\ Begin(p) /\ ~ s_ilock /\ s_ninode = 0
  /\ s_ilock' = TRUE
  /\ blk' = 0
  /\ Goto(p, "scan")
  /\ UNCHANGED <<s_inode, s_ninode, s_fmod, saved, updlock, core, disk, named, ino, op, hist>>

\* mutant: an inode counts as free by its copy on the disk alone
UnusedOnDisk(b) ==
  {i \in Ino : i \div PerBlock = b /\ ~ disk[i].mode}

\* the inodes of block b that the search puts on the list: not in use on the
\* disk, and not in memory, where an inode may not have been written yet
Unused(b) ==
  {i \in Ino : i \div PerBlock = b /\ ~ disk[i].mode /\ ~ IsLoaded(i)}

\* the numbers of Unused(blk) in order, as far as the list has room
Found == LET U == Unused(blk)
             Nth(k) == CHOOSE i \in U : Cardinality({j \in U : j < i}) = k
         IN [k \in 0 .. Min({Cardinality(U), MaxFree - s_ninode}) - 1 |-> Nth(k)]

Filled  == [k \in Entry |-> IF k - s_ninode \in DOMAIN Found THEN Found[k - s_ninode]
                            ELSE s_inode[k]]
FilledN == s_ninode + Cardinality(DOMAIN Found)

\* mutant: the search ends before the last block
LastEarly == FilledN = MaxFree \/ blk + 1 >= Blocks - 1

\* the list is full, or this is the last block
Last == FilledN = MaxFree \/ blk = Blocks - 1

\* Bread of a block of inodes is back
ScanBlock(p) ==
  /\ pc[p] = "scan" /\ ~ Last
  /\ s_inode' = Filled /\ s_ninode' = FilledN
  /\ blk' = blk + 1
  /\ UNCHANGED <<s_ilock, s_fmod, saved, updlock, core, disk, named, procs, hist>>

\* mutant: the processes that wait for s_ilock are not woken
WokenNone == pc

\* WakeUpAll(&s_ilock)
Woken == [q \in Proc |-> IF pc[q] = "ilockSleep" THEN "ilock" ELSE pc[q]]

\* the end of the search: ENOSPC
ScanNone(p) ==
  /\ pc[p] = "scan" /\ Last /\ FilledN = 0
  /\ s_ilock' = FALSE
  /\ pc' = [Woken EXCEPT ![p] = "user"]
  /\ blk' = 0 /\ late' = {}
  /\ UNCHANGED <<s_inode, s_ninode, s_fmod, saved, updlock, core, disk, named, ino, op, files, crashes>>

\* the end of the search: take an inode from the list
ScanTake(p) ==
  /\ pc[p] = "scan" /\ Last /\ FilledN > 0
  /\ s_ilock' = FALSE
  /\ Take(p, Filled, FilledN, core, Woken)
  /\ blk' = 0 /\ late' = {}
  /\ UNCHANGED <<s_fmod, saved, updlock, disk, named, crashes>>

----------------------------------------------------------------------------
(* InodeTable::IPut and FileSystem::IFree *)

\* IPut of i, with c for the inodes in memory.  The last reference locks the
\* inode, frees a file without names, and writes an inode that has changed.
IPut(p, i, c) ==
  \/ /\ c[i].count > 1
     /\ core' = [c EXCEPT ![i].count = @ - 1, ![i].lock = FALSE]
     /\ Goto(p, "user") /\ ino' = [ino EXCEPT ![p] = 0]
  \/ /\ c[i].count = 1 /\ c[i].nlink <= 0
     /\ core' = [c EXCEPT ![i].lock = TRUE]
     /\ Goto(p, "itrunc") /\ UNCHANGED ino
  \/ /\ c[i].count = 1 /\ c[i].nlink > 0 /\ c[i].upd
     /\ core' = [c EXCEPT ![i].lock = TRUE]
     /\ Goto(p, "iupdate") /\ UNCHANGED ino
  \/ /\ c[i].count = 1 /\ c[i].nlink > 0 /\ ~ c[i].upd
     /\ core' = [c EXCEPT ![i] = Absent]
     /\ Goto(p, "user") /\ ino' = [ino EXCEPT ![p] = 0]

\* mutant: the list is changed although it is locked
IFreeAlways(i) ==
  IF s_ninode >= MaxFree
  THEN UNCHANGED spb
  ELSE /\ s_inode' = [s_inode EXCEPT ![s_ninode] = i]
       /\ s_ninode' = s_ninode + 1
       /\ s_fmod' = TRUE
       /\ UNCHANGED s_ilock

\* a locked or full list is left alone: a later search finds the inode
IFree(i) ==
  IF s_ilock \/ s_ninode >= MaxFree
  THEN UNCHANGED spb
  ELSE /\ s_inode' = [s_inode EXCEPT ![s_ninode] = i]
       /\ s_ninode' = s_ninode + 1
       /\ s_fmod' = TRUE
       /\ UNCHANGED s_ilock

\* ITrunc is back; IPut goes on to IUpdate
ITruncDone(p) ==
  LET i == ino[p] IN
  /\ pc[p] = "itrunc"
  /\ core' = [core EXCEPT ![i].mode = FALSE, ![i].nlink = 1, ![i].upd = TRUE]
  /\ IFree(i)
  /\ files' = [files EXCEPT ![i] = @ - 1]
  /\ Goto(p, "iupdate")
  /\ UNCHANGED <<saved, updlock, disk, named, ino, op, blk, late, crashes>>

\* IUpdate has written the inode; IAlloc goes on with its loop
IUpdateDone(p) ==
  LET i == ino[p] IN
  /\ pc[p] = "iupdate"
  /\ disk' = [disk EXCEPT ![i] = [mode |-> core[i].mode, nlink |-> core[i].nlink]]
  /\ late' = IF core[i].mode \/ ~ s_ilock THEN late ELSE late \cup {i}
  /\ \/ /\ op[p] = "alloc"
        /\ Take(p, s_inode, s_ninode, [core EXCEPT ![i] = Absent], pc)
        /\ UNCHANGED <<s_ilock, s_fmod>>
     \/ /\ op[p] # "alloc"
        /\ core' = [core EXCEPT ![i] = Absent]
        /\ Goto(p, "user") /\ ino' = [ino EXCEPT ![p] = 0]
        /\ UNCHANGED <<spb, op, files>>
  /\ UNCHANGED <<saved, updlock, named, blk, crashes>>

----------------------------------------------------------------------------
(* The loop of IAlloc after IGet has read the inode, and MakNode *)

\* Clean, and MakNode sets the mode
IAllocDone(p) ==
  LET i == ino[p] IN
  /\ pc[p] = "iread" /\ ~ disk[i].mode
  /\ core' = [core EXCEPT ![i] = [mode |-> TRUE, nlink |-> 1, count |-> 1,
                                  lock |-> TRUE, upd |-> TRUE]]
  /\ files' = [files EXCEPT ![i] = @ + 1]
  /\ s_fmod' = TRUE
  /\ Goto(p, "made")
  /\ UNCHANGED <<s_inode, s_ninode, s_ilock, saved, updlock, disk, named, ino, op, blk, late, crashes>>

\* the inode is in use: put it and go on, or free it first if it has no names
IAllocAgain(p) ==
  LET i == ino[p] IN
  /\ pc[p] = "iread" /\ disk[i].mode
  /\ \/ /\ disk[i].nlink > 0
        /\ Take(p, s_inode, s_ninode, [core EXCEPT ![i] = Absent], pc)
        /\ UNCHANGED <<s_ilock, s_fmod>>
     \/ /\ disk[i].nlink <= 0
        /\ IPut(p, i, [core EXCEPT ![i] = FromDisk(i)])
        /\ UNCHANGED <<spb, op, files>>
  /\ UNCHANGED <<saved, updlock, disk, named, blk, late, crashes>>

\* WriteDir is back, and Open1 unlocks the inode
MakNodeDone(p) ==
  LET i == ino[p] IN
  /\ pc[p] = "made"
  /\ named' = named \cup {i}
  /\ core' = [core EXCEPT ![i].lock = FALSE]
  /\ op' = [op EXCEPT ![p] = "open"]
  /\ Goto(p, "open")
  /\ UNCHANGED <<spb, saved, updlock, disk, ino, blk, hist>>

----------------------------------------------------------------------------
(* open, close, unlink and sync *)

After(o) == IF o = "open" THEN "open" ELSE "unlink"

\* NameI finds i, and IGet: sleep on the lock, share the inode, or read it.
\* Open1 unlocks the inode, unlink keeps it locked.  (Without room the call
\* fails and changes nothing.)
Lookup(p, o, i) ==
  /\ pc[p] = "user" /\ i \in named
  /\ ino' = [ino EXCEPT ![p] = i] /\ op' = [op EXCEPT ![p] = o]
  /\ \/ /\ IsLoaded(i) /\ core[i].lock
        /\ Goto(p, "igetSleep") /\ UNCHANGED core
     \/ /\ IsLoaded(i) /\ ~ core[i].lock
        /\ core' = [core EXCEPT ![i].count = @ + 1, ![i].lock = (o = "unlink")]
        /\ Goto(p, After(o))
     \/ /\ ~ IsLoaded(i) /\ Room(core)
        /\ core' = [core EXCEPT ![i] = [Absent EXCEPT !.count = 1, !.lock = TRUE]]
        /\ Goto(p, "oread")
  /\ UNCHANGED <<spb, saved, updlock, disk, named, blk, hist>>

\* Bread of IGet is back
ReadDone(p) ==
  LET i == ino[p] IN
  /\ pc[p] = "oread"
  /\ core' = [core EXCEPT ![i] = [FromDisk(i) EXCEPT !.lock = (op[p] = "unlink")]]
  /\ Goto(p, After(op[p]))
  /\ UNCHANGED <<spb, saved, updlock, disk, named, ino, op, blk, hist>>

\* CloseF
Close(p) ==
  /\ pc[p] = "open"
  /\ IPut(p, ino[p], core)
  /\ UNCHANGED <<spb, saved, updlock, disk, named, op, blk, hist>>

\* UnLink: the directory entry is cleared, the link taken off.  (A process
\* that closes the file meanwhile unlocks its inode, and a second unlink of
\* the same name can take the link off twice.)
UnLink(p) ==
  LET i == ino[p] IN
  /\ pc[p] = "unlink"
  /\ named' = named \ {i}
  /\ IPut(p, i, [core EXCEPT ![i].nlink = @ - 1, ![i].upd = TRUE])
  /\ op' = [op EXCEPT ![p] = "open"]
  /\ UNCHANGED <<spb, saved, updlock, disk, blk, hist>>

\* Update: the superblock is copied sector by sector with a sleep for each
\* buffer, unless its list is locked or nothing changed
Update(p) ==
  /\ pc[p] = "user" /\ ~ updlock
  /\ updlock' = TRUE
  /\ \/ /\ s_fmod /\ ~ s_ilock
        /\ s_fmod' = FALSE /\ Goto(p, "sync0")
     \/ /\ ~ s_fmod \/ s_ilock
        /\ Goto(p, "sync2") /\ UNCHANGED s_fmod
  /\ UNCHANGED <<s_inode, s_ninode, s_ilock, saved, core, disk, named, ino, op, blk, hist>>

UpdateSector0(p) ==
  /\ pc[p] = "sync0"
  /\ saved' = [saved EXCEPT !.ninode = s_ninode,
                 !.inode = [k \in Entry |-> IF k < Split THEN s_inode[k] ELSE @[k]]]
  /\ Goto(p, "sync1")
  /\ UNCHANGED <<spb, updlock, core, disk, named, ino, op, blk, hist>>

UpdateSector1(p) ==
  /\ pc[p] = "sync1"
  /\ saved' = [saved EXCEPT !.fmod = s_fmod,
                 !.inode = [k \in Entry |-> IF k < Split THEN @[k] ELSE s_inode[k]]]
  /\ Goto(p, "sync2")
  /\ UNCHANGED <<spb, updlock, core, disk, named, ino, op, blk, hist>>

\* UpdateInodeTable writes the inodes that have changed and are not locked
UpdateInodeTable(p) ==
  LET S == {i \in File : IsLoaded(i) /\ ~ core[i].lock /\ core[i].upd} IN
  /\ pc[p] = "sync2"
  /\ disk' = [i \in Ino |-> IF i \in S THEN [mode |-> core[i].mode, nlink |-> core[i].nlink]
                             ELSE disk[i]]
  /\ updlock' = FALSE
  /\ Goto(p, "user")
  /\ UNCHANGED <<spb, saved, core, named, ino, op, blk, hist>>

----------------------------------------------------------------------------
\* The machine stops and starts again: LoadSuperBlock.  The directory has
\* whatever entries of files with links had been written.
Crash ==
  /\ crashes < MaxCrash
  /\ crashes' = crashes + 1
  /\ s_inode' = saved.inode /\ s_ninode' = saved.ninode
  /\ s_fmod' = saved.fmod /\ s_ilock' = FALSE
  /\ updlock' = FALSE
  /\ core' = [i \in Ino |-> IF i = 0 THEN core[0] ELSE Absent]
  /\ named' \in SUBSET {i \in File : disk[i].mode /\ disk[i].nlink > 0}
  /\ files' = [i \in Ino |-> IF disk[i].mode THEN 1 ELSE 0]
  /\ pc' = [p \in Proc |-> "user"] /\ ino' = [p \in Proc |-> 0]
  /\ op' = [p \in Proc |-> "open"]
  /\ blk' = 0 /\ late' = {}
  /\ UNCHANGED <<saved, disk>>

\* A new file system with the root directory; the list is full.
Init ==
  /\ s_inode = [k \in Entry |-> MaxFree - k] /\ s_ninode = MaxFree
  /\ s_ilock = FALSE /\ s_fmod = FALSE
  /\ saved = [ninode |-> s_ninode, inode |-> s_inode, fmod |-> FALSE]
  /\ updlock = FALSE
  /\ core = [i \in Ino |-> IF i = 0 THEN [Absent EXCEPT !.mode = TRUE, !.nlink = 1, !.count = 1]
                            ELSE Absent]
  /\ disk = [i \in Ino |-> [mode |-> i = 0, nlink |-> IF i = 0 THEN 1 ELSE 0]]
  /\ named = {}
  /\ pc = [p \in Proc |-> "user"] /\ ino = [p \in Proc |-> 0]
  /\ op = [p \in Proc |-> "open"]
  /\ blk = 0 /\ late = {} /\ crashes = 0
  /\ files = [i \in Ino |-> IF i = 0 THEN 1 ELSE 0]

Step(p) ==
  \/ IAllocSleep(p) \/ IAllocTake(p) \/ IAllocSearch(p)
  \/ ScanBlock(p) \/ ScanNone(p) \/ ScanTake(p)
  \/ IAllocDone(p) \/ IAllocAgain(p) \/ MakNodeDone(p)
  \/ ITruncDone(p) \/ IUpdateDone(p) \/ ReadDone(p) \/ Close(p) \/ UnLink(p)
  \/ Update(p) \/ UpdateSector0(p) \/ UpdateSector1(p) \/ UpdateInodeTable(p)
  \/ \E i \in File : Lookup(p, "open", i) \/ Lookup(p, "unlink", i)

\* What follows once IAlloc has read below its list is not modelled.
Next == (\A p \in Proc : pc[p] # "wild") /\ (Crash \/ \E p \in Proc : Step(p))

Spec == Init /\ [][Next]_vars

----------------------------------------------------------------------------
(* Properties *)

TypeOK ==
  /\ s_inode \in [Entry -> Ino] /\ s_ninode \in 0 .. MaxFree
  /\ {s_ilock, s_fmod, updlock} \subseteq BOOLEAN
  /\ saved \in [ninode : 0 .. MaxFree, inode : [Entry -> Ino], fmod : BOOLEAN]
  /\ core \in [Ino -> CoreNode] /\ disk \in [Ino -> DiskNode]
  /\ named \subseteq File /\ late \subseteq File
  /\ pc \in [Proc -> PCs] /\ ino \in [Proc -> Ino]
  /\ op \in [Proc -> {"alloc", "open", "unlink"}]
  /\ blk \in 0 .. Blocks - 1
  /\ files \in [Ino -> Nat] /\ crashes \in 0 .. MaxCrash

\* IAlloc gives an inode to one file at a time, and IPut frees it once, also
\* when the list that the system booted with names inodes in use by now.
OneFile == \A i \in Ino : files[i] \in 0 .. 1

\* Until the first crash the list names an inode once, and none that a file
\* has, so that the loop of IAlloc ends: IFree and the search of the disk do
\* not both put an inode on it.
ListSound ==
  crashes = 0 =>
    /\ \A p \in Proc : pc[p] # "wild"
    /\ \A k \in 0 .. s_ninode - 1 :
         /\ files[s_inode[k]] = 0
         /\ \A m \in 0 .. s_ninode - 1 : s_inode[k] = s_inode[m] => k = m

\* Whoever sleeps on s_ilock is woken by a search that is under way.
SearchWakes ==
  \A p \in Proc : pc[p] = "ilockSleep" => s_ilock /\ \E q \in Proc : pc[q] = "scan"

\* ENOSPC is true: an inode that is free when creat fails with it became
\* free while the disk was being searched.
NoSpaceIsTrue ==
  [][\A p \in Proc : pc[p] = "scan" /\ pc'[p] = "user" /\ s_ninode' = 0 /\ crashes' = crashes =>
       \A i \in Ino : ~ disk[i].mode /\ ~ IsLoaded(i) => i \in late]_vars

\* IAlloc says that its list surely has the number of a usable inode unless
\* the system has none.
ListNotEmpty == \A p \in Proc : pc[p] # "wild"
=============================================================================
