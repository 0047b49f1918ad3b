---------------------------- MODULE FreeBlocks ----------------------------
(***************************************************************************)
(* The free data blocks of the file system: FileSystem::Alloc,             *)
(* FileSystem::Free and the superblock part of FileSystem::Update          *)
(* (fs/FileSystem.cpp), called by processes that extend and truncate       *)
(* files.                                                                  *)
(*                                                                         *)
(* The superblock in memory holds a stack of free block numbers.  The      *)
(* block at the bottom of a stack is itself free and holds the stack of    *)
(* the next group; the last group has 0 at its bottom.                     *)
(*                                                                         *)
(* Bread, GetBlk and Bwrite may sleep, so each action below runs from one  *)
(* of them (or from the sleep on s_flock) to the next.  What they transfer *)
(* is what BufferCache shows of them: a block reads as it was last         *)
(* written.  Transfers do not fail here.                                   *)
(***************************************************************************)
EXTENDS Naturals, Sequences, FiniteSets

CONSTANTS
  Proc,      \* processes
  Block,     \* the data blocks
  NICFREE,   \* entries of s_free (100 in SuperBlock)
  End,       \* block number 0: the end of the list
  NoTable,   \* the contents of a block that hold no stack
  NoBlk      \* a process that works on no block

ASSUME ConstantsAssumption ==
  /\ NICFREE \in Nat /\ NICFREE >= 2
  /\ End \notin Block
  /\ NoBlk \notin Block
  /\ NoTable \notin Seq(Block \cup {End})

VARIABLES
  free,     \* s_free[0 .. s_nfree-1]: s_nfree is its length
  flock,    \* s_flock
  fmod,     \* s_fmod
  table,    \* the stack that a block of the disk holds
  used,     \* the blocks that belong to files
  saved,    \* s_free and s_nfree of the superblock on the disk
  updlock,  \* updlock of FileSystem::Update
  pc,       \* where each process is
  blk,      \* blkno of Alloc and Free
  wild      \* has s_free[-1] been taken for a block number?

vars == <<free, flock, fmod, table, used, saved, updlock, pc, blk, wild>>

Stack == UNION {[1 .. n -> Block \cup {End}] : n \in 0 .. NICFREE}
PCs   == {"user", "allocWait", "alloc", "refill", "getblk",
          "freeWait", "free", "spill", "link", "update", "inodes"}

Last(s)  == s[Len(s)]
Front(s) == [i \in 1 .. Len(s) - 1 |-> s[i]]

----------------------------------------------------------------------------
Goto(p, l) == pc' = [pc EXCEPT ![p] = l]

\* s_flock = 0; WakeUpAll(&s_flock): p goes on at l, the sleepers try again
Unlock(p, l) ==
  /\ flock' = FALSE
  /\ pc' = [q \in Proc |-> CASE q = p                -> l
                             [] pc[q] = "allocWait"  -> "alloc"
                             [] pc[q] = "freeWait"   -> "free"
                             [] OTHER                -> pc[q]]

(* FileSystem::Alloc *)

InAlloc(p) == pc[p] \in {"user", "alloc"}

\* while (sb->s_flock) Sleep(&sb->s_flock)
AllocSleep(p) ==
  /\ InAlloc(p) /\ flock
  /\ Goto(p, "allocWait")
  /\ UNCHANGED <<free, flock, fmod, table, used, saved, updlock, blk, wild>>

\* a block is popped that is not at the bottom of the stack
AllocPop(p) ==
  /\ InAlloc(p) /\ ~ flock
  /\ Len(free) > 1
  /\ free' = Front(free)
  /\ blk' = [blk EXCEPT ![p] = Last(free)]
  /\ Goto(p, "getblk")
  /\ UNCHANGED <<flock, fmod, table, used, saved, updlock, wild>>

\* mutant: the stack is not locked during the read
AllocBottomOpen(p) ==
  /\ InAlloc(p) /\ ~ flock
  /\ Len(free) = 1 /\ free[1] # End
  /\ free' = << >>
  /\ blk' = [blk EXCEPT ![p] = free[1]]
  /\ Goto(p, "refill")
  /\ UNCHANGED <<flock, fmod, table, used, saved, updlock, wild>>

\* the bottom is popped: lock the stack and read the one the block holds
AllocBottom(p) ==
  /\ InAlloc(p) /\ ~ flock
  /\ Len(free) = 1 /\ free[1] # End
  /\ free' = << >>
  /\ blk' = [blk EXCEPT ![p] = free[1]]
  /\ flock' = TRUE
  /\ Goto(p, "refill")
  /\ UNCHANGED <<fmod, table, used, saved, updlock, wild>>

\* 0 is popped: ENOSPC
AllocFull(p) ==
  /\ InAlloc(p) /\ ~ flock
  /\ free = <<End>>
  /\ free' = << >>
  /\ Goto(p, "user")
  /\ UNCHANGED <<flock, fmod, table, used, saved, updlock, blk, wild>>

\* Alloc with s_nfree = 0 reads s_free[-1], which is s_nfree itself.  The
\* array subscript is out of bounds: the compiled code finds the old value,
\* and returns ENOSPC, or the new one, and goes on with block -1.
AllocUnderflow(p) ==
  /\ InAlloc(p) /\ ~ flock
  /\ free = << >>
  /\ \/ Goto(p, "user") /\ UNCHANGED wild
     \/ wild' = TRUE /\ Goto(p, "refill")
  /\ UNCHANGED <<free, flock, fmod, table, used, saved, updlock, blk>>

\* mutant: Alloc returns without unlocking
AllocRefillLocked(p) ==
  /\ pc[p] = "refill"
  /\ free' = IF table[blk[p]] = NoTable THEN << >> ELSE table[blk[p]]
  /\ Goto(p, "getblk")
  /\ UNCHANGED <<flock, fmod, table, used, saved, updlock, blk, wild>>

\* Bread is back: copy the stack, unlock
AllocRefill(p) ==
  /\ pc[p] = "refill"
  /\ free' = IF table[blk[p]] = NoTable THEN << >> ELSE table[blk[p]]
  /\ Unlock(p, "getblk")
  /\ UNCHANGED <<fmod, table, used, saved, updlock, blk, wild>>

\* mutant: s_fmod is not set
AllocReturnClean(p) ==
  /\ pc[p] = "getblk"
  /\ table' = [table EXCEPT ![blk[p]] = NoTable]
  /\ used' = used \cup {blk[p]}
  /\ blk' = [blk EXCEPT ![p] = NoBlk]
  /\ Goto(p, "user")
  /\ UNCHANGED <<free, flock, fmod, saved, updlock, wild>>

\* GetBlk is back: ClrBuf, s_fmod, return the block
AllocReturn(p) ==
  /\ pc[p] = "getblk"
  /\ table' = [table EXCEPT ![blk[p]] = NoTable]
  /\ used' = used \cup {blk[p]}
  /\ fmod' = TRUE
  /\ blk' = [blk EXCEPT ![p] = NoBlk]
  /\ Goto(p, "user")
  /\ UNCHANGED <<free, flock, saved, updlock, wild>>

(* FileSystem::Free *)

\* p calls Free(b) for a block of a file it truncates, or is woken there
InFreeOf(p, b) == \/ pc[p] = "user" /\ b \in used
                  \/ pc[p] = "free" /\ blk[p] = b

\* s_fmod = 1 at the start of the call
EarlyMod(p) == fmod' = (fmod \/ pc[p] = "user")

FreeSleep(p, b) ==
  /\ InFreeOf(p, b) /\ flock
  /\ EarlyMod(p)
  /\ used' = used \ {b}
  /\ blk' = [blk EXCEPT ![p] = b]
  /\ Goto(p, "freeWait")
  /\ UNCHANGED <<free, flock, table, saved, updlock, wild>>

\* mutant: no end mark under the first free block
FreePushBare(p, b) ==
  /\ InFreeOf(p, b) /\ ~ flock
  /\ Len(free) < NICFREE
  /\ free' = Append(free, b)
  /\ fmod' = TRUE
  /\ used' = used \ {b}
  /\ blk' = [blk EXCEPT ![p] = NoBlk]
  /\ Goto(p, "user")
  /\ UNCHANGED <<flock, table, saved, updlock, wild>>

\* push b; on an empty stack first push the end mark
FreePush(p, b) ==
  /\ InFreeOf(p, b) /\ ~ flock
  /\ Len(free) < NICFREE
  /\ free' = Append(IF free = << >> THEN <<End>> ELSE free, b)
  /\ fmod' = TRUE
  /\ used' = used \ {b}
  /\ blk' = [blk EXCEPT ![p] = NoBlk]
  /\ Goto(p, "user")
  /\ UNCHANGED <<flock, table, saved, updlock, wild>>

\* the stack is full: lock it and get a buffer for b
FreeSpill(p, b) ==
  /\ InFreeOf(p, b) /\ ~ flock
  /\ Len(free) >= NICFREE
  /\ flock' = TRUE
  /\ EarlyMod(p)
  /\ used' = used \ {b}
  /\ blk' = [blk EXCEPT ![p] = b]
  /\ Goto(p, "spill")
  /\ UNCHANGED <<free, table, saved, updlock, wild>>

\* GetBlk is back: the stack moves into b; Bwrite starts
FreeTable(p) ==
  /\ pc[p] = "spill"
  /\ table' = [table EXCEPT ![blk[p]] = free]
  /\ free' = << >>
  /\ Goto(p, "link")
  /\ UNCHANGED <<flock, fmod, used, saved, updlock, blk, wild>>

\* mutant: b is forgotten
FreeLinkForget(p) ==
  /\ pc[p] = "link"
  /\ Unlock(p, "user")
  /\ free' = <<End>>
  /\ fmod' = TRUE
  /\ blk' = [blk EXCEPT ![p] = NoBlk]
  /\ UNCHANGED <<table, used, saved, updlock, wild>>

\* Bwrite is back: unlock, and b becomes the bottom of the new stack
FreeLink(p) ==
  /\ pc[p] = "link"
  /\ Unlock(p, "user")
  /\ free' = Append(free, blk[p])
  /\ fmod' = TRUE
  /\ blk' = [blk EXCEPT ![p] = NoBlk]
  /\ UNCHANGED <<table, used, saved, updlock, wild>>

(* FileSystem::Update *)

\* the superblock is modified and unlocked: clear s_fmod, get a buffer
UpdateStart(p) ==
  /\ pc[p] = "user" /\ ~ updlock
  /\ fmod /\ ~ flock
  /\ updlock' = TRUE
  /\ fmod' = FALSE
  /\ Goto(p, "update")
  /\ UNCHANGED <<free, flock, table, used, saved, blk, wild>>

\* nothing to save, or another process is at work on the stack
UpdateSkip(p) ==
  /\ pc[p] = "user" /\ ~ updlock
  /\ ~ fmod \/ flock
  /\ updlock' = TRUE
  /\ Goto(p, "inodes")
  /\ UNCHANGED <<free, flock, fmod, table, used, saved, blk, wild>>

\* GetBlk is back: copy the superblock and write it
UpdateCopy(p) ==
  /\ pc[p] = "update"
  /\ saved' = free
  /\ Goto(p, "inodes")
  /\ UNCHANGED <<free, flock, fmod, table, used, updlock, blk, wild>>

\* UpdateInodeTable is back: unlock and flush the cache
UpdateEnd(p) ==
  /\ pc[p] = "inodes"
  /\ updlock' = FALSE
  /\ Goto(p, "user")
  /\ UNCHANGED <<free, flock, fmod, table, used, saved, blk, wild>>

----------------------------------------------------------------------------
\* All blocks belong to files, and the superblock has just been saved.
Init ==
  /\ free = <<End>>
  /\ saved = <<End>>
  /\ flock = FALSE /\ fmod = FALSE /\ updlock = FALSE
  /\ table = [b \in Block |-> NoTable]
  /\ used = Block
  /\ pc = [p \in Proc |-> "user"]
  /\ blk = [p \in Proc |-> NoBlk]
  /\ wild = FALSE

\* a step of a process inside a call
Step(p) ==
  \/ AllocSleep(p) \/ AllocPop(p) \/ AllocBottom(p) \/ AllocFull(p)
  \/ AllocUnderflow(p) \/ AllocRefill(p) \/ AllocReturn(p)
  \/ \E b \in Block : FreeSleep(p, b) \/ FreePush(p, b) \/ FreeSpill(p, b)
  \/ FreeTable(p) \/ FreeLink(p)
  \/ UpdateStart(p) \/ UpdateSkip(p) \/ UpdateCopy(p) \/ UpdateEnd(p)

\* Block -1 is read and its contents replace the stack: the model ends there.
Next == ~ wild /\ \E p \in Proc : Step(p)

Spec == Init /\ [][Next]_vars

\* A process inside a call goes on when its transfer ends or it is woken.
FairSpec == /\ Spec
            /\ \A p \in Proc : WF_vars(pc[p] # "user" /\ ~ wild /\ Step(p))

----------------------------------------------------------------------------
(* Properties *)

TypeOK ==
  /\ free \in Stack
  /\ flock \in BOOLEAN /\ fmod \in BOOLEAN /\ updlock \in BOOLEAN
  /\ table \in [Block -> Stack \cup {NoTable}]
  /\ used \subseteq Block
  /\ saved \in Stack
  /\ pc \in [Proc -> PCs]
  /\ blk \in [Proc -> Block \cup {NoBlk}]
  /\ wild \in BOOLEAN

\* the stack in b has been copied and b is about to be cleared
Spent(b) == \E p \in Proc : pc[p] = "getblk" /\ blk[p] = b

\* the stack of the superblock (x = NoBlk) or the one that block x holds
StackOf(x) == IF x = NoBlk THEN free
              ELSE IF table[x] = NoTable \/ Spent(x) THEN << >> ELSE table[x]

\* where block b is: in an entry of a stack, with a process, in a file
Homes(b) ==
  {h \in (Block \cup {NoBlk}) \X (1 .. NICFREE) :
     h[2] \in DOMAIN StackOf(h[1]) /\ StackOf(h[1])[h[2]] = b}
  \cup {<<p>> : p \in {q \in Proc : blk[q] = b}}
  \cup (IF b \in used THEN {<< >>} ELSE {})

\* Every data block is in exactly one place, whatever processes allocate and
\* free while others sleep in the middle of it: none is given to two files,
\* none is free twice, none disappears.
OneHome ==
  ~ wild => \A b \in Block : \E h \in Homes(b) : Homes(b) = {h}

\* The list of groups holds together: the bottom of every stack is 0 or a
\* block that holds a stack, and so is a block that Alloc is about to read.
ChainIntact ==
  ~ wild =>
    /\ \A x \in Block \cup {NoBlk} : \A i \in DOMAIN StackOf(x) :
         /\ i > 1 => StackOf(x)[i] # End
         /\ i = 1 => StackOf(x)[1] = End \/ table[StackOf(x)[1]] # NoTable
    /\ \A p \in Proc : pc[p] = "refill" => table[blk[p]] # NoTable

\* Whoever sleeps on s_flock has a process to wake it.
NoLostWakeup ==
  /\ (\E p \in Proc : pc[p] \in {"allocWait", "freeWait"}) => flock
  /\ flock => \E p \in Proc : pc[p] \in {"refill", "spill", "link"}

\* inside Alloc or Free, with a change of the stack that s_fmod will report
Changing(p) == pc[p] \in {"refill", "getblk", "spill", "link"}

\* an empty stack and the end mark alone mean the same
SameList(s, t) == s = t \/ {s, t} \subseteq {<< >>, <<End>>}

\* s_fmod covers every change: while it is clear, nothing is under way and no
\* Update is about to copy, the disk has the stack of the superblock, although
\* Update clears s_fmod before a sleep and copies after it.
SavedWhenClean ==
  ~ wild /\ ~ fmod /\ (\A p \in Proc : ~ Changing(p) /\ pc[p] # "update")
    => SameList(saved, free)

\* Alloc reports ENOSPC only if no block is free.
FullMeansFull ==
  [][\A p \in Proc : AllocFull(p) =>
       \A b \in Block : b \in used \/ \E q \in Proc : blk[q] = b]_vars

\* The stack is not locked for ever: each process that locks it unlocks it.
LockReleased == []<>(~ flock \/ wild)

\* Alloc takes 0 on the stack for the sign that no block is left, and fails:
\* it never goes on with an entry that is not on the stack.
AllocFromStack == ~ wild
=============================================================================
