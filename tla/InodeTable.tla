---------------------------- MODULE InodeTable ----------------------------
(***************************************************************************)
(* The inodes in memory: InodeTable::IGet, IPut and UpdateInodeTable       *)
(* (fs/OpenFileManager.cpp), the lock of an inode and its copies to and    *)
(* from the disk (fs/INode.cpp), and the system calls open, close, read,   *)
(* write, unlink and sync as far as they use them (fs/FileManager.cpp,     *)
(* fs/FileSystem.cpp).                                                     *)
(*                                                                         *)
(* The kernel does not preempt a process: an action runs from one sleep to *)
(* the next.  A process sleeps while it waits for a lock or for a buffer   *)
(* (Bread, Bwrite, ITrunc); buffers hold what was last written, as         *)
(* BufferCache shows.  All inodes of an instance are in one disk block.    *)
(***************************************************************************)
EXTENDS Naturals, Integers, FiniteSets

CONSTANTS
  Proc,        \* processes; each has at most one file open
  NINODE,      \* entries of m_Inode (100 in InodeTable)
  Ino,         \* inode numbers of files
  MaxWrites,   \* bound: writes to a file
  Ops,         \* the calls the processes make
  HardErrors,  \* may the read of an inode fail?
  NoIno        \* i_number = -1

Slot    == 1 .. NINODE
NoSlot  == 0
AllOps  == {"open", "close", "rdwr", "unlink", "sync"}
Flags   == {"ILOCK", "IWANT", "IUPD"}     \* IUPD stands for IUPD or IACC
PCs     == {"user", "iget", "igetSleep", "iread", "got", "unlinked",
            "itrunc", "iupdate", "bwrite", "nflockSleep", "nflock", "rdwr",
            "sync", "syncRead", "syncWrite", "panic"}

ASSUME ConstantsAssumption ==
  /\ IsFiniteSet(Proc)       \* the process table has NPROC entries
  /\ NINODE \in Nat \ {0}
  /\ Ino # {}                \* there is at least the root directory
  /\ MaxWrites \in Nat
  /\ Ops \subseteq AllOps
  /\ HardErrors \in BOOLEAN
  /\ NoIno \notin Ino

VARIABLES
  number,   \* i_number of each entry
  count,    \* i_count
  flags,    \* i_flag
  node,     \* the fields that are copied from and to the disk
  disk,     \* the inodes on the disk
  named,    \* the inodes that a directory entry names
  freed,    \* the inodes given to FileSystem::IFree
  updlock,  \* updlock of FileSystem::Update
  pc,       \* where each process is
  ino,      \* the inode number that the process looked up
  op,       \* the call it looked it up for
  slot,     \* pInode of the call
  fd,       \* f_inode of the file the process has open
  latest    \* history: the last value of the fields of each inode

tabVars  == <<number, count, flags, node>>
procVars == <<pc, ino, op, slot, fd>>
vars     == <<tabVars, disk, named, freed, updlock, procVars, latest>>

\* i_mode # 0, i_nlink, and a count of the writes for i_size and i_addr
Node == [alloc : BOOLEAN, nlink : Int, writes : 0 .. MaxWrites]

----------------------------------------------------------------------------
(* The lock *)

Goto(p, l) == pc' = [pc EXCEPT ![p] = l]

Locked(s) == "ILOCK" \in flags[s]

\* pc when p goes on at l and WakeUpAll(pInode) runs if IWANT is set.  Only
\* NFlock sleeps on the address of the inode.
Woken(p, s, l) ==
  [q \in Proc |-> IF q = p THEN l
                  ELSE IF /\ pc[q] = "nflockSleep" /\ fd[q] = s
                          /\ "IWANT" \in flags[s]
                       THEN "nflock" ELSE pc[q]]

\* mutant: the waiting processes are not woken
PreleSilent(p, s, l) ==
  /\ flags' = [flags EXCEPT ![s] = @ \ {"ILOCK", "IWANT"}]
  /\ Goto(p, l)

\* Inode::Prele and Inode::NFrele
Prele(p, s, l) ==
  /\ flags' = [flags EXCEPT ![s] = @ \ {"ILOCK", "IWANT"}]
  /\ pc' = Woken(p, s, l)

----------------------------------------------------------------------------
(* InodeTable::IPut *)

\* the end of IPut for the last reference: the entry becomes free
Release(p, s) ==
  /\ flags' = [flags EXCEPT ![s] = {}]
  /\ number' = [number EXCEPT ![s] = NoIno]
  /\ count' = [count EXCEPT ![s] = @ - 1]
  /\ slot' = [slot EXCEPT ![p] = NoSlot]
  /\ pc' = Woken(p, s, "user")

\* another reference remains: IPut unlocks the inode all the same
IPutShared(p, s) ==
  /\ count[s] > 1
  /\ count' = [count EXCEPT ![s] = @ - 1]
  /\ Prele(p, s, "user")
  /\ slot' = [slot EXCEPT ![p] = NoSlot]
  /\ UNCHANGED number

\* the last reference: lock the inode; free the file if nothing names it;
\* write the inode if it changed.  What IUpdate writes, only sleeps delay.
IPutLast(p, s) ==
  /\ count[s] = 1
  /\ \/ /\ node[s].nlink <= 0
        /\ flags' = [flags EXCEPT ![s] = @ \cup {"ILOCK"}]
        /\ slot' = [slot EXCEPT ![p] = s]
        /\ Goto(p, "itrunc")
        /\ UNCHANGED <<number, count>>
     \/ /\ node[s].nlink > 0 /\ "IUPD" \in flags[s]
        /\ flags' = [flags EXCEPT ![s] = @ \cup {"ILOCK"}]
        /\ slot' = [slot EXCEPT ![p] = s]
        /\ Goto(p, "iupdate")
        /\ UNCHANGED <<number, count>>
     \/ /\ node[s].nlink > 0 /\ "IUPD" \notin flags[s]
        /\ Release(p, s)

\* mutant: IPut drops an inode that has changed without writing it
IPutNoUpdate(p, s) ==
  \/ IPutShared(p, s)
  \/ count[s] = 1 /\ node[s].nlink > 0 /\ Release(p, s)

IPut(p, s) == IPutShared(p, s) \/ IPutLast(p, s)

\* ITrunc is back: the file has no blocks, its inode goes to the free list
ITruncDone(p) ==
  LET s == slot[p] n == [alloc |-> FALSE, nlink |-> 1, writes |-> 0] IN
  /\ pc[p] = "itrunc"
  /\ node' = [node EXCEPT ![s] = n]
  /\ latest' = IF number[s] \in Ino THEN [latest EXCEPT ![number[s]] = n] ELSE latest
  /\ flags' = [flags EXCEPT ![s] = @ \cup {"IUPD"}]
  /\ freed' = freed \cup ({number[s]} \cap Ino)
  /\ Goto(p, "iupdate")
  /\ UNCHANGED <<number, count, disk, named, updlock, ino, op, slot, fd>>

\* Bread of IUpdate is back: the fields go into the buffer.  (An entry whose
\* i_number is -1 by now writes outside the buffer, not to an inode.)
IUpdate(p, from, to) ==
  LET s == slot[p] IN
  /\ pc[p] = from
  /\ disk' = IF number[s] \in Ino THEN [disk EXCEPT ![number[s]] = node[s]] ELSE disk
  /\ Goto(p, to)
  /\ UNCHANGED <<tabVars, named, freed, updlock, ino, op, slot, fd, latest>>

IPutUpdate(p) == IUpdate(p, "iupdate", "bwrite")

\* Bwrite is back
IPutDone(p) ==
  /\ pc[p] = "bwrite"
  /\ Release(p, slot[p])
  /\ UNCHANGED <<node, disk, named, freed, updlock, ino, op, fd, latest>>

----------------------------------------------------------------------------
(* InodeTable::IGet *)

\* mutant: a locked entry is passed over
LoadedUnlocked(i) == {s \in Slot : number[s] = i /\ count[s] # 0 /\ ~ Locked(s)}

\* InodeTable::IsLoaded
Loaded(i) == {s \in Slot : number[s] = i /\ count[s] # 0}

\* mutant: an entry with one reference counts as free
FreeOne == {s \in Slot : count[s] <= 1}

\* InodeTable::GetFreeInode takes the first of them
Free == {s \in Slot : count[s] = 0}

\* IGet sleeps on the address of its own variable, where nobody wakes it
IGetSleep(p) ==
  /\ pc[p] = "iget"
  /\ \E s \in Loaded(ino[p]) :
       /\ Locked(s)
       /\ flags' = [flags EXCEPT ![s] = @ \cup {"IWANT"}]
  /\ Goto(p, "igetSleep")
  /\ UNCHANGED <<number, count, node, disk, named, freed, updlock, ino, op, slot, fd, latest>>

\* the inode is in memory and not locked
IGetLoaded(p) ==
  /\ pc[p] = "iget"
  /\ \E s \in Loaded(ino[p]) :
       /\ ~ Locked(s)
       /\ count' = [count EXCEPT ![s] = @ + 1]
       /\ flags' = [flags EXCEPT ![s] = @ \cup {"ILOCK"}]
       /\ slot' = [slot EXCEPT ![p] = s]
  /\ Goto(p, "got")
  /\ UNCHANGED <<number, node, disk, named, freed, updlock, ino, op, fd, latest>>

\* the table is full: open fails with ENFILE, unlink panics
IGetFull(p) ==
  /\ pc[p] = "iget"
  /\ Loaded(ino[p]) = {} /\ Free = {}
  /\ Goto(p, IF op[p] = "unlink" THEN "panic" ELSE "user")
  /\ UNCHANGED <<tabVars, disk, named, freed, updlock, ino, op, slot, fd, latest>>

\* take the first free entry and read the inode
IGetNew(p) ==
  /\ pc[p] = "iget"
  /\ Loaded(ino[p]) = {}
  /\ \E s \in Free :
       /\ \A t \in Free : s <= t
       /\ number' = [number EXCEPT ![s] = ino[p]]
       /\ count' = [count EXCEPT ![s] = @ + 1]
       /\ flags' = [flags EXCEPT ![s] = {"ILOCK"}]
       /\ slot' = [slot EXCEPT ![p] = s]
  /\ Goto(p, "iread")
  /\ UNCHANGED <<node, disk, named, freed, updlock, ino, op, fd, latest>>

\* ICopy: Bread is back
IGetRead(p) ==
  /\ pc[p] = "iread"
  /\ node' = [node EXCEPT ![slot[p]] = disk[ino[p]]]
  /\ Goto(p, "got")
  /\ UNCHANGED <<number, count, flags, disk, named, freed, updlock, ino, op, slot, fd, latest>>

\* mutant: the entry is not put back
IGetErrorLeak(p) ==
  /\ HardErrors
  /\ pc[p] = "iread"
  /\ slot' = [slot EXCEPT ![p] = NoSlot]
  /\ Goto(p, "user")
  /\ UNCHANGED <<number, count, flags, node, disk, named, freed, updlock, ino, op, fd, latest>>

\* Bread failed: IPut, with the fields the entry had before
IGetError(p) ==
  /\ HardErrors
  /\ pc[p] = "iread"
  /\ IPut(p, slot[p])
  /\ UNCHANGED <<node, disk, named, freed, updlock, ino, op, fd, latest>>

----------------------------------------------------------------------------
(* The system calls *)

\* NameI found the entry of i; it releases the directory before IGet(i)
Lookup(p, o, i) ==
  /\ o \in Ops
  /\ pc[p] = "user" /\ fd[p] = NoSlot
  /\ i \in named
  /\ op' = [op EXCEPT ![p] = o]
  /\ ino' = [ino EXCEPT ![p] = i]
  /\ Goto(p, "iget")
  /\ UNCHANGED <<tabVars, disk, named, freed, updlock, slot, fd, latest>>

\* Open1: unlock the inode and keep the reference in a File
Open1(p) ==
  /\ pc[p] = "got" /\ op[p] = "open"
  /\ Prele(p, slot[p], "user")
  /\ fd' = [fd EXCEPT ![p] = slot[p]]
  /\ slot' = [slot EXCEPT ![p] = NoSlot]
  /\ UNCHANGED <<number, count, node, disk, named, freed, updlock, ino, op, latest>>

\* Open1 without permission, or without a free File
Open1Fail(p) ==
  /\ pc[p] = "got" /\ op[p] = "open"
  /\ IPut(p, slot[p])
  /\ UNCHANGED <<node, disk, named, freed, updlock, ino, op, fd, latest>>

\* Close and CloseF of a File that no other process shares
Close(p) ==
  /\ "close" \in Ops
  /\ pc[p] = "user" /\ fd[p] # NoSlot
  /\ fd' = [fd EXCEPT ![p] = NoSlot]
  /\ IPut(p, fd[p])
  /\ UNCHANGED <<node, disk, named, freed, updlock, ino, op, latest>>

\* Rdwr: NFlock
NFlockCall(p) == "rdwr" \in Ops /\ pc[p] = "user" /\ fd[p] # NoSlot

NFlockSleep(p) ==
  /\ NFlockCall(p) \/ pc[p] = "nflock"
  /\ Locked(fd[p])
  /\ flags' = [flags EXCEPT ![fd[p]] = @ \cup {"IWANT"}]
  /\ Goto(p, "nflockSleep")
  /\ UNCHANGED <<number, count, node, disk, named, freed, updlock, ino, op, slot, fd, latest>>

\* ReadI sets IACC, WriteI IACC and IUPD
NFlock(p) ==
  /\ NFlockCall(p) \/ pc[p] = "nflock"
  /\ ~ Locked(fd[p])
  /\ flags' = [flags EXCEPT ![fd[p]] = @ \cup {"ILOCK", "IUPD"}]
  /\ Goto(p, "rdwr")
  /\ UNCHANGED <<number, count, node, disk, named, freed, updlock, ino, op, slot, fd, latest>>

\* ReadI is back
ReadDone(p) ==
  /\ pc[p] = "rdwr"
  /\ Prele(p, fd[p], "user")
  /\ UNCHANGED <<number, count, node, disk, named, freed, updlock, ino, op, slot, fd, latest>>

\* WriteI is back
WriteDone(p) ==
  LET n == [node[fd[p]] EXCEPT !.writes = @ + 1] IN
  /\ pc[p] = "rdwr"
  /\ node[fd[p]].writes < MaxWrites
  /\ node' = [node EXCEPT ![fd[p]] = n]
  /\ latest' = [latest EXCEPT ![ino[p]] = n]
  /\ flags' = [flags EXCEPT ![fd[p]] = (@ \ {"ILOCK", "IWANT"}) \cup {"IUPD"}]
  /\ pc' = Woken(p, fd[p], "user")
  /\ UNCHANGED <<number, count, disk, named, freed, updlock, ino, op, slot, fd>>

\* mutant: the link is taken off before the entry is cleared
UnLinkFirst(p) ==
  LET s == slot[p] n == [node[s] EXCEPT !.nlink = @ - 1] IN
  /\ pc[p] = "got" /\ op[p] = "unlink"
  /\ node' = [node EXCEPT ![s] = n]
  /\ latest' = [latest EXCEPT ![ino[p]] = n]
  /\ flags' = [flags EXCEPT ![s] = @ \cup {"IUPD"}]
  /\ Goto(p, "unlinked")
  /\ UNCHANGED <<number, count, disk, named, freed, updlock, ino, op, slot, fd>>

\* UnLink: the directory entry is cleared, then the link is taken off
UnLink(p) ==
  LET s == slot[p] n == [node[s] EXCEPT !.nlink = @ - 1] IN
  /\ pc[p] = "got" /\ op[p] = "unlink"
  /\ named' = named \ {ino[p]}
  /\ node' = [node EXCEPT ![s] = n]
  /\ latest' = [latest EXCEPT ![ino[p]] = n]
  /\ flags' = [flags EXCEPT ![s] = @ \cup {"IUPD"}]
  /\ Goto(p, "unlinked")
  /\ UNCHANGED <<number, count, disk, freed, updlock, ino, op, slot, fd>>

\* IPut of the directory is back
UnLinkPut(p) ==
  /\ pc[p] = "unlinked"
  /\ IPut(p, slot[p])
  /\ UNCHANGED <<node, disk, named, freed, updlock, ino, op, fd, latest>>

\* Update: the inode table.  An entry without IUPD or IACC is locked and
\* unlocked at once.
Sync(p) ==
  /\ "sync" \in Ops
  /\ pc[p] = "user" /\ ~ updlock
  /\ updlock' = TRUE
  /\ slot' = [slot EXCEPT ![p] = NoSlot]
  /\ Goto(p, "sync")
  /\ UNCHANGED <<tabVars, disk, named, freed, ino, op, fd, latest>>

Unsaved(from) == {s \in Slot : s > from /\ ~ Locked(s) /\ count[s] # 0 /\ "IUPD" \in flags[s]}

\* UpdateInodeTable locks an entry that it has no reference to
SyncLock(p) ==
  /\ pc[p] = "sync"
  /\ \E s \in Unsaved(slot[p]) :
       /\ \A t \in Unsaved(slot[p]) : s <= t
       /\ slot' = [slot EXCEPT ![p] = s]
       /\ flags' = [flags EXCEPT ![s] = @ \cup {"ILOCK"}]
  /\ Goto(p, "syncRead")
  /\ UNCHANGED <<number, count, node, disk, named, freed, updlock, ino, op, fd, latest>>

SyncUpdate(p) == IUpdate(p, "syncRead", "syncWrite")

SyncUnlock(p) ==
  /\ pc[p] = "syncWrite"
  /\ Prele(p, slot[p], "sync")
  /\ UNCHANGED <<number, count, node, disk, named, freed, updlock, ino, op, slot, fd, latest>>

SyncEnd(p) ==
  /\ pc[p] = "sync" /\ Unsaved(slot[p]) = {}
  /\ updlock' = FALSE
  /\ slot' = [slot EXCEPT ![p] = NoSlot]
  /\ Goto(p, "user")
  /\ UNCHANGED <<tabVars, disk, named, freed, ino, op, fd, latest>>

----------------------------------------------------------------------------
\* The table is empty; each file has one name.
Init ==
  /\ number = [s \in Slot |-> NoIno]
  /\ count = [s \in Slot |-> 0]
  /\ flags = [s \in Slot |-> {}]
  /\ node = [s \in Slot |-> [alloc |-> FALSE, nlink |-> 0, writes |-> 0]]
  /\ disk = [i \in Ino |-> [alloc |-> TRUE, nlink |-> 1, writes |-> 0]]
  /\ latest = disk
  /\ named = Ino
  /\ freed = {}
  /\ updlock = FALSE
  /\ pc = [p \in Proc |-> "user"]
  /\ ino \in [Proc -> {CHOOSE i \in Ino : TRUE}]
  /\ op = [p \in Proc |-> "open"]
  /\ slot = [p \in Proc |-> NoSlot]
  /\ fd = [p \in Proc |-> NoSlot]

\* a step of a process inside a call
Step(p) ==
  \/ ITruncDone(p) \/ IPutUpdate(p) \/ IPutDone(p)
  \/ IGetSleep(p) \/ IGetLoaded(p) \/ IGetFull(p) \/ IGetNew(p) \/ IGetRead(p)
  \/ IGetError(p)
  \/ Open1(p) \/ Open1Fail(p) \/ UnLink(p) \/ UnLinkPut(p)
  \/ pc[p] # "user" /\ (NFlockSleep(p) \/ NFlock(p))
  \/ ReadDone(p) \/ WriteDone(p)
  \/ SyncLock(p) \/ SyncUpdate(p) \/ SyncUnlock(p) \/ SyncEnd(p)

Call(p) ==
  \/ \E i \in Ino : Lookup(p, "open", i) \/ Lookup(p, "unlink", i)
  \/ Close(p)
  \/ pc[p] = "user" /\ (NFlockSleep(p) \/ NFlock(p))
  \/ Sync(p)

\* Utility::Panic never returns
Running == \A p \in Proc : pc[p] # "panic"

Next == Running /\ \E p \in Proc : Step(p) \/ Call(p)

Spec == Init /\ [][Next]_vars

\* Transfers end, and a process that can run gets the processor.
FairSpec == Spec /\ \A p \in Proc : WF_vars(Running /\ Step(p))

----------------------------------------------------------------------------
(* Properties *)

TypeOK ==
  /\ number \in [Slot -> Ino \cup {NoIno}]
  /\ count \in [Slot -> 0 .. Cardinality(Proc)]
  /\ flags \in [Slot -> SUBSET Flags]
  /\ node \in [Slot -> Node] /\ disk \in [Ino -> Node] /\ latest \in [Ino -> Node]
  /\ named \subseteq Ino /\ freed \subseteq Ino
  /\ updlock \in BOOLEAN
  /\ pc \in [Proc -> PCs]
  /\ ino \in [Proc -> Ino] /\ op \in [Proc -> AllOps]
  /\ slot \in [Proc -> Slot \cup {NoSlot}] /\ fd \in [Proc -> Slot \cup {NoSlot}]

\* inside a call, p has a reference to slot[p]
HasRef(p) == pc[p] \in {"iread", "got", "unlinked", "itrunc", "iupdate", "bwrite"}

\* i_count is the number of references: open files, and calls that have got
\* the inode and not put it.  So an entry in use is never taken for free.
RefCount ==
  \A s \in Slot :
    count[s] = Cardinality({p \in Proc : fd[p] = s})
             + Cardinality({p \in Proc : HasRef(p) /\ slot[p] = s})

\* No inode has two entries, although IGet sleeps before it has read it.
OneCopy ==
  \A s, t \in Slot :
    number[s] = number[t] /\ number[s] # NoIno /\ count[s] # 0 /\ count[t] # 0 => s = t

\* An open file stays the file that was opened: its entry is not released
\* and not given to another inode.
KeepsIdentity ==
  \A p \in Proc : /\ fd[p] # NoSlot => number[fd[p]] = ino[p]
                  /\ HasRef(p) => number[slot[p]] = ino[p]

\* No change of an inode is lost: when no entry holds it, the disk has it.
NoLostUpdate ==
  \A i \in Ino : Loaded(i) = {} => disk[i] = latest[i]

\* A process asleep in NFlock has a wake-up to come.
NoLostWakeup ==
  \A p \in Proc : pc[p] = "nflockSleep" => {"ILOCK", "IWANT"} \subseteq flags[fd[p]]

\* IPut frees the blocks and the inode of a file only if no name leads to it.
FreedIsUnnamed == [][\A i \in freed' \ freed : i \notin named]_vars

\* Rdwr promises read and write mutual exclusion on a file, for the whole
\* of each system call.
Exclusive ==
  \A p, q \in Proc : pc[p] = "rdwr" /\ pc[q] = "rdwr" /\ fd[p] = fd[q] => p = q

\* IGet says that it searches the table again after its sleep on a locked
\* inode: whoever sleeps there wakes up once the lock is released.
IGetWakes == \A p \in Proc : pc[p] = "igetSleep" ~> pc[p] # "igetSleep"
=============================================================================
