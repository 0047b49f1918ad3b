------------------------------ MODULE Directory ------------------------------
(***************************************************************************)
(* One directory with names of variable length: the search of one          *)
(* component in FileManager::NameI, and Open, Creat, MkNod, Link, UnLink,  *)
(* MakNode and WriteDir (fs/FileManager.cpp).                              *)
(*                                                                         *)
(* The file is an array of slots of 32 bytes.  An entry is a slot with the *)
(* inode number, the first 24 characters of the name and the number        *)
(* m_addition_esize of slots that follow with the rest of the name, 32     *)
(* characters each; an entry with inode number 0 is free.  A name is the   *)
(* sequence of these pieces.  NameI holds the lock of the directory and    *)
(* reads one entry after the other, an action each; UnLink drops the lock  *)
(* before it clears the entry it found.  Offsets count slots.              *)
(***************************************************************************)
EXTENDS Integers, Sequences, FiniteSets

CONSTANTS
  Proc,      \* processes
  Name,      \* the names in use, sequences of pieces
  Ino,       \* inode numbers of files
  SPB,       \* slots of a block (16)
  MaxSlots,  \* bound: slots of the file
  Kinds,     \* the kinds of calls that each process makes
  Uses,      \* values use_entries may have: NameI computes it from the bytes
             \* that follow the path in memory
  Nul,       \* a piece of NUL characters
  NoProc     \* nobody holds the lock

ASSUME DirectoryAssumption ==
  /\ IsFiniteSet(Proc) /\ Name # {}
  /\ \A n \in Name : n # << >> /\ n \in Seq({n[i] : i \in DOMAIN n} \ {Nul, "junk"})
  /\ Ino \subseteq Nat \ {0}
  /\ SPB \in Nat \ {0} /\ MaxSlots \in Nat
  /\ Kinds \in [Proc -> SUBSET {"open", "creat", "link", "unlink"}] /\ Uses \subseteq Nat
  /\ NoProc \notin Proc

VARIABLES
  dir,    \* the slots of the file: i_size is its length
  lock,   \* the process that has the directory locked
  nlink,  \* i_nlink of the inodes, 0 or less for free ones
  pc,     \* where each process is
  op,     \* the call each process makes
  off,    \* u_IOParam.m_Offset
  cnt,    \* u_IOParam.m_Count: slots still to read
  free,   \* freeEntryOffset: the slot after the free one; 0 if none was found
  blk,    \* the block that pBuf holds
  dent,   \* the entry a process found: its inode number and pieces
  res,    \* what a search that ends with this step found: an inode number, 0 if
          \* there is none; NoRes after other steps
  reset   \* history: the files to which ITrunc gave a link count of 1 when they
          \* had another

scanVars == <<off, cnt, free, blk>>
vars == <<dir, lock, nlink, pc, op, scanVars, dent, res, reset>>

PCs == {"user", "scan", "again", "trunc", "write", "linked", "unlink", "stuck"}

\* a call: its name, and for link the new name
Calls == [kind : {"open", "creat", "unlink"}, name : Name, new : {<< >>}]
           \cup [kind : {"link"}, name : Name, new : Name]
NoCall == [kind |-> "none", name |-> << >>, new |-> << >>]
NoEnt  == [ino |-> 0, name |-> << >>]
NoRes  == -1

Goto(p, l) == pc' = [pc EXCEPT ![p] = l]

\* the call of p returns; what it kept in the u area has no meaning any more
Return(p) == /\ Goto(p, "user")
             /\ op' = [op EXCEPT ![p] = NoCall]
             /\ dent' = [dent EXCEPT ![p] = NoEnt]
             /\ off' = [off EXCEPT ![p] = 0] /\ cnt' = [cnt EXCEPT ![p] = 0]
             /\ free' = [free EXCEPT ![p] = 0] /\ blk' = [blk EXCEPT ![p] = 0]

----------------------------------------------------------------------------
(* Slots *)

Ent(i, piece, e) == [ino |-> i, piece |-> piece, esize |-> e]
Rest(piece)      == [rest |-> piece]
Zero             == Ent(0, Nul, 0)

\* what the program sees when it reads a slot as an entry: characters make an
\* inode number that is no file's, and a short piece ends in zeros
JunkIno   == -1
JunkPiece == "junk"
AsEntry(s) == IF "ino" \in DOMAIN s THEN s
              ELSE IF s.rest = Nul THEN Zero ELSE Ent(JunkIno, JunkPiece, 0)

\* and when it reads a slot as the rest of a name
AsRest(s) == IF "rest" \in DOMAIN s THEN s.rest
             ELSE IF s = Zero THEN Nul ELSE JunkPiece

\* the slot at an offset; a block is cleared before its first use
Slot(o) == IF o < Len(dir) THEN dir[o + 1] ELSE Zero

\* the file with slots ss written at offset o
Written(o, ss) ==
  LET size == IF o + Len(ss) > Len(dir) THEN o + Len(ss) ELSE Len(dir)
  IN  [k \in 1 .. size |-> IF k \in o + 1 .. o + Len(ss) THEN ss[k - o]
                           ELSE Slot(k - 1)]

----------------------------------------------------------------------------
(* FileManager::NameI: the search *)

\* the name p looks for, and whether it wants to create it: link looks for
\* the old name and then for the new one
Target(p)   == IF op[p].kind = "link" /\ dent[p].ino # 0
               THEN op[p].new ELSE op[p].name
Creating(p) == op[p].kind = "creat" \/ (op[p].kind = "link" /\ dent[p].ino # 0)

\* lock the directory and start at its first slot
StartSearch(p) ==
  /\ lock = NoProc /\ lock' = p
  /\ off' = [off EXCEPT ![p] = 0]
  /\ cnt' = [cnt EXCEPT ![p] = Len(dir)]
  /\ free' = [free EXCEPT ![p] = 0]
  /\ blk' = [blk EXCEPT ![p] = 0]
  /\ Goto(p, "scan")

\* a call begins
Call(p, c) ==
  /\ pc[p] = "user"
  /\ c.kind \in Kinds[p]
  /\ op' = [op EXCEPT ![p] = c]
  /\ StartSearch(p)
  /\ UNCHANGED <<dir, nlink, reset, dent>> /\ res' = NoRes

\* the block in pBuf when p reads the slot at offset o, in sequence from
\* off[p] on: a block is read when the offset comes to its first slot
InBuf(p, o) ==
  IF off[p] % SPB = 0 \/ o \div SPB # off[p] \div SPB
  THEN o \div SPB ELSE blk[p]

ReadSlot(p, o) == Slot(InBuf(p, o) * SPB + (o % SPB))

\* the entry at off[p], and the pieces of its name
Entry(p)  == AsEntry(ReadSlot(p, off[p]))
Pieces(p) == <<Entry(p).piece>> \o
             [i \in 1 .. Entry(p).esize |-> AsRest(ReadSlot(p, off[p] + i))]

\* mutant: only the slot of the entry itself is compared
MatchesHead(p) == Pieces(p)[1] = Target(p)[1]

\* the entry is compared with the name over the pieces that the entry has
Matches(p) ==
  \A i \in DOMAIN Pieces(p) :
    Pieces(p)[i] = (IF i <= Len(Target(p)) THEN Target(p)[i] ELSE Nul)

Scanning(p) == pc[p] = "scan" /\ cnt[p] # 0

\* mutant: the block where the new entry would end is always read
FreeEntryRereads(p) ==
  /\ Scanning(p) /\ Entry(p).ino = 0
  /\ \E use \in Uses :
       LET takes == free[p] = 0 /\ use <= Entry(p).esize
       IN  /\ free' = [free EXCEPT ![p] = IF takes THEN off[p] + 1 ELSE @]
           /\ IF takes /\ (use + off[p] + 1) \div SPB = InBuf(p, off[p])
              THEN Goto(p, "stuck") ELSE pc' = pc
  /\ off' = [off EXCEPT ![p] = @ + 1 + Entry(p).esize]
  /\ cnt' = [cnt EXCEPT ![p] = @ - 1]
  /\ blk' = [blk EXCEPT ![p] = InBuf(p, off[p])]
  /\ UNCHANGED <<dir, lock, nlink, reset, op, dent>> /\ res' = NoRes

\* A free entry: the first that seems large enough is remembered, and its
\* slots are skipped without counting them.  If the new entry would end past
\* the first block of the file, the block where it ends is read, and if that
\* is the block p has in pBuf already, p waits for itself.
FreeEntry(p) ==
  /\ Scanning(p) /\ Entry(p).ino = 0
  /\ \E use \in Uses :
       LET takes == free[p] = 0 /\ use <= Entry(p).esize
           end   == use + off[p] + 1
       IN  /\ free' = [free EXCEPT ![p] = IF takes THEN off[p] + 1 ELSE @]
           /\ IF takes /\ end >= SPB /\ end \div SPB = InBuf(p, off[p])
              THEN Goto(p, "stuck") ELSE pc' = pc
  /\ off' = [off EXCEPT ![p] = @ + 1 + Entry(p).esize]
  /\ cnt' = [cnt EXCEPT ![p] = @ - 1]
  /\ blk' = [blk EXCEPT ![p] = InBuf(p, off[p])]
  /\ UNCHANGED <<dir, lock, nlink, reset, op, dent>> /\ res' = NoRes

\* p has read all slots of an entry
PassEntry(p) ==
  /\ off' = [off EXCEPT ![p] = @ + 1 + Entry(p).esize]
  /\ cnt' = [cnt EXCEPT ![p] = @ - 1 - Entry(p).esize]
  /\ blk' = [blk EXCEPT ![p] = InBuf(p, off[p] + Entry(p).esize)]
  /\ UNCHANGED <<op, free>>

OtherEntry(p) ==
  /\ Scanning(p) /\ Entry(p).ino # 0 /\ ~ Matches(p)
  /\ PassEntry(p)
  /\ UNCHANGED <<dir, lock, nlink, reset, pc, dent>> /\ res' = NoRes

\* The name is there: the directory is unlocked.  Open returns with the inode
\* and so does the second search of link (EEXIST); creat, unlink, which has
\* dropped the lock (Prele), and link after its first search go on.
Found(p) ==
  /\ Scanning(p) /\ Entry(p).ino # 0 /\ Matches(p)
  /\ lock' = NoProc
  /\ res' = Entry(p).ino
  /\ IF op[p].kind = "open" \/ (op[p].kind = "link" /\ Creating(p))
     THEN Return(p)
     ELSE /\ dent' = [dent EXCEPT ![p] = [ino |-> Entry(p).ino, name |-> Pieces(p)]]
          /\ PassEntry(p)
          /\ Goto(p, IF op[p].kind = "unlink" THEN "unlink"
                     ELSE IF op[p].kind = "creat" THEN "trunc" ELSE "again")
  /\ UNCHANGED <<dir, nlink, reset>>

\* creat of a name that is there: Open1 truncates the file, and ITrunc gives it
\* a link count of 1, however many names it has
Truncate(p) ==
  /\ pc[p] = "trunc"
  /\ LET i == dent[p].ino
     IN  /\ nlink' = [nlink EXCEPT ![i] = 1]
         /\ reset' = IF nlink[i] = 1 THEN reset ELSE reset \cup {i}
  /\ Return(p)
  /\ UNCHANGED <<dir, lock>> /\ res' = NoRes

\* MkNod fails (EEXIST), Open1 may refuse to write the file, and ITrunc returns
\* early for a device
LeaveFile(p) ==
  /\ pc[p] = "trunc"
  /\ Return(p)
  /\ UNCHANGED <<dir, lock, nlink, reset>> /\ res' = NoRes

\* link: the second search
LinkAgain(p) ==
  /\ pc[p] = "again"
  /\ StartSearch(p)
  /\ UNCHANGED <<dir, nlink, reset, op, dent>> /\ res' = NoRes

Ended(p) == pc[p] = "scan" /\ cnt[p] = 0

\* the name is not there
NotFound(p) ==
  /\ Ended(p) /\ ~ Creating(p)
  /\ lock' = NoProc
  /\ res' = 0
  /\ Return(p)
  /\ UNCHANGED <<dir, nlink, reset>>

\* mutant: freeEntryOffset is not taken back to the start of the free entry
FoundPlaceAfter(p) ==
  /\ Ended(p) /\ Creating(p)
  /\ off' = [off EXCEPT ![p] = IF free[p] # 0 THEN free[p] ELSE @]
  /\ off'[p] + Len(Target(p)) <= MaxSlots
  /\ res' = 0
  /\ Goto(p, "write")
  /\ UNCHANGED <<dir, lock, nlink, reset, op, cnt, free, blk, dent>>

\* the new name goes to the free entry, or to where the search ended; the
\* directory stays locked
FoundPlace(p) ==
  /\ Ended(p) /\ Creating(p)
  /\ off' = [off EXCEPT ![p] = IF free[p] # 0 THEN free[p] - 1 ELSE @]
  /\ off'[p] + Len(Target(p)) <= MaxSlots
  /\ res' = 0
  /\ Goto(p, "write")
  /\ UNCHANGED <<dir, lock, nlink, reset, op, cnt, free, blk, dent>>

----------------------------------------------------------------------------
(* MakNode, WriteDir, Link, UnLink *)

\* inodes IAlloc may give: those that IPut has freed (i_nlink <= 0), without a
\* user
Fresh == {i \in Ino : nlink[i] <= 0 /\ \A p \in Proc : dent[p].ino # i}

\* the slots of an entry
EntrySlots(i, n) ==
  [k \in 1 .. Len(n) |-> IF k = 1 THEN Ent(i, n[1], Len(n) - 1) ELSE Rest(n[k])]

WriteEntry(p, i) == dir' = Written(off[p], EntrySlots(i, Target(p)))

\* slot k holds an entry of inode i
EntryOf(k, i) == "ino" \in DOMAIN dir[k] /\ dir[k].ino = i

\* creat: a new inode and its entry; no name of the former file is left as a
\* rule, and the number stands for a file of its own from then on
MakNode(p) ==
  /\ pc[p] = "write" /\ op[p].kind = "creat"
  /\ \E i \in Fresh :
       /\ WriteEntry(p, i)
       /\ nlink' = [nlink EXCEPT ![i] = 1]
       /\ reset' = IF \E k \in DOMAIN dir : EntryOf(k, i) THEN reset ELSE reset \ {i}
  /\ lock' = NoProc
  /\ Return(p)
  /\ res' = NoRes

\* no inode is free: MakNode returns and leaves the directory locked
MakNodeFails(p) ==
  /\ pc[p] = "write" /\ op[p].kind = "creat"
  /\ Fresh = {}
  /\ Return(p)
  /\ UNCHANGED <<dir, lock, nlink, reset>> /\ res' = NoRes

\* link: an entry for the inode found first, which p no longer has locked
LinkWrite(p) ==
  /\ pc[p] = "write" /\ op[p].kind = "link"
  /\ WriteEntry(p, dent[p].ino)
  /\ lock' = NoProc
  /\ Goto(p, "linked")
  /\ UNCHANGED <<nlink, reset, op, scanVars, dent>> /\ res' = NoRes

\* and, after the directory was put, its link count
LinkCount(p) ==
  /\ pc[p] = "linked"
  /\ nlink' = [nlink EXCEPT ![dent[p].ino] = @ + 1]
  /\ Return(p)
  /\ UNCHANGED <<dir, lock, reset>> /\ res' = NoRes

\* mutant: the offset is taken back by one slot
UnLinkWriteShort(p) ==
  LET d == dent[p].name IN
  /\ pc[p] = "unlink"
  /\ dir' = Written(off[p] - 1,
                    <<Ent(0, d[1], Len(d) - 1)>> \o [k \in 1 .. Len(d) - 1 |-> Zero])
  /\ nlink' = [nlink EXCEPT ![dent[p].ino] = @ - 1]
  /\ Return(p)
  /\ UNCHANGED <<lock, reset>> /\ res' = NoRes

\* unlink: the entry that was found is cleared where it was found, without
\* the lock; it keeps its number of slots
UnLinkWrite(p) ==
  LET d == dent[p].name IN
  /\ pc[p] = "unlink"
  /\ dir' = Written(off[p] - Len(d),
                    <<Ent(0, d[1], Len(d) - 1)>> \o [k \in 1 .. Len(d) - 1 |-> Zero])
  /\ nlink' = [nlink EXCEPT ![dent[p].ino] = @ - 1]
  /\ Return(p)
  /\ UNCHANGED <<lock, reset>> /\ res' = NoRes

----------------------------------------------------------------------------
Init ==
  /\ dir = << >>
  /\ lock = NoProc
  /\ nlink = [i \in Ino |-> 0]
  /\ pc = [p \in Proc |-> "user"]
  /\ op = [p \in Proc |-> NoCall]
  /\ off = [p \in Proc |-> 0] /\ cnt = [p \in Proc |-> 0]
  /\ free = [p \in Proc |-> 0] /\ blk = [p \in Proc |-> 0]
  /\ dent = [p \in Proc |-> NoEnt]
  /\ res = NoRes
  /\ reset = {}

Step(p) == \/ FreeEntry(p) \/ OtherEntry(p) \/ Found(p)
           \/ Truncate(p) \/ LeaveFile(p) \/ LinkAgain(p)
           \/ NotFound(p) \/ FoundPlace(p)
           \/ MakNode(p) \/ MakNodeFails(p) \/ LinkWrite(p) \/ LinkCount(p)
           \/ UnLinkWrite(p)

Next == \E p \in Proc : Step(p) \/ \E c \in Calls : Call(p, c)

Spec == Init /\ [][Next]_vars

\* a process in a call goes on; one that waits for the lock gets it
FairSpec == Spec /\ \A p \in Proc : SF_vars(Step(p))

----------------------------------------------------------------------------
(* Properties *)

\* slot k starts the entry of name n
IsEntry(k, n) ==
  /\ "ino" \in DOMAIN dir[k] /\ dir[k].ino # 0
  /\ k + Len(n) - 1 <= Len(dir)
  /\ SubSeq(dir, k, k + Len(n) - 1) = EntrySlots(dir[k].ino, n)

\* the inode number of a name, 0 if it has none
InoOf(n) == LET At == {k \in DOMAIN dir : IsEntry(k, n)}
            IN  IF At = {} THEN 0 ELSE dir[CHOOSE k \in At : TRUE].ino

TypeOK ==
  /\ Len(dir) <= MaxSlots
  /\ lock \in Proc \cup {NoProc}
  /\ nlink \in [Ino -> Int] /\ reset \subseteq Ino
  /\ pc \in [Proc -> PCs]
  /\ op \in [Proc -> Calls \cup {NoCall}]
  /\ \A v \in {off, cnt, free, blk} : v \in [Proc -> Nat]

\* The place a new name is written to is free and large enough (line 674): no
\* slot of it belongs to the entry of another file.
FoundRoom ==
  \A p \in Proc : pc[p] = "write" =>
    \A n \in Name, k \in DOMAIN dir :
      IsEntry(k, n) =>
        (k .. k + Len(n) - 1) \cap (off[p] + 1 .. off[p] + Len(Target(p))) = {}

\* The link count of file i is the number of its names, apart from links that
\* are about to be counted: UnLink and Link change entry and count without
\* the lock of the directory or of the inode.
CountsNames(i) ==
  nlink[i] + Cardinality({p \in Proc : pc[p] = "linked" /\ dent[p].ino = i})
    = Cardinality({k \in DOMAIN dir :
                     \E n \in Name : IsEntry(k, n) /\ dir[k].ino = i})

\* INode.h:136 promises this for every file.  ITrunc breaks it (INode.cpp:620).
AllCountsNames == \A i \in Ino : CountsNames(i)

\* It is true of the others: when the count of a file first goes wrong, it is
\* because creat found the file and ITrunc set its count to 1 while that was
\* another number; no order of creat, link and unlink does it otherwise.
LinkCounts == \A i \in Ino \ reset : CountsNames(i)

\* The slots, the counting and the skipping of free entries make a map from
\* names to files: searches find what the map holds, and a call changes the
\* entry of its own name only.
Map == INSTANCE NameMap WITH names <- [n \in Name |-> InoOf(n)]
IsMap == Map!Spec

\* Every call ends, unless a creat without a free inode has left the
\* directory locked: a search does not run past the entries for ever and does
\* not wait for a buffer it holds itself.
LeftLocked == lock # NoProc /\ pc[lock] = "user"
CallsEnd   == \A p \in Proc : pc[p] # "user" ~> (pc[p] = "user" \/ LeftLocked)
=============================================================================
