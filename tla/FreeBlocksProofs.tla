-------------------------- MODULE FreeBlocksProofs --------------------------
(***************************************************************************)
(* The safety properties of FreeBlocks, proved for every set of processes  *)
(* and of blocks and every size of the stack of the superblock.            *)
(***************************************************************************)
EXTENDS FreeBlocks, WellFoundedInduction, TLAPS

----------------------------------------------------------------------------
(* The inductive invariant *)

Holder    == Block \cup {NoBlk}
LockPCs   == {"refill", "spill", "link"}
HolderPCs == LockPCs \cup {"getblk", "freeWait", "free"}

\* entry i of the stack of x is block b
At(x, i, b) == i \in 1 .. Len(StackOf(x)) /\ StackOf(x)[i] = b

\* one process at a time has the stack locked, and it is empty while that
\* process waits for the transfer of another one
Locked ==
  /\ \A p, q \in Proc : pc[p] \in LockPCs /\ pc[q] \in LockPCs => p = q
  /\ \A p \in Proc : pc[p] \in LockPCs => flock
  /\ \A p \in Proc : pc[p] \in {"refill", "link"} => free = << >>
  /\ \A p \in Proc : (blk[p] # NoBlk) <=> (pc[p] \in HolderPCs)

\* Only the block at the bottom of a stack holds a stack of its own, and only
\* while it is free.
Tables ==
  /\ \A b \in used : table[b] = NoTable
  /\ \A p \in Proc : pc[p] \in {"freeWait", "free", "spill"} => table[blk[p]] = NoTable
  /\ \A p \in Proc : pc[p] \in {"refill", "link"} => table[blk[p]] # NoTable
  /\ \A x \in Holder : \A i \in 1 .. Len(StackOf(x)) :
       /\ i > 1 => StackOf(x)[i] \in Block /\ table[StackOf(x)[i]] = NoTable
       /\ i = 1 => \/ StackOf(x)[1] = End
                   \/ StackOf(x)[1] \in Block /\ table[StackOf(x)[1]] # NoTable

\* no block is in two places
AtMostOne ==
  /\ \A x, y \in Holder : \A i, j \in 1 .. NICFREE : \A b \in Block :
       At(x, i, b) /\ At(y, j, b) => x = y /\ i = j
  /\ \A x \in Holder : \A i \in 1 .. NICFREE : \A b \in Block :
       At(x, i, b) => b \notin used /\ \A p \in Proc : blk[p] # b
  /\ \A p, q \in Proc : blk[p] # NoBlk /\ blk[p] = blk[q] => p = q
  /\ \A p \in Proc : blk[p] \notin used

\* no block is lost
AtLeastOne ==
  \A b \in Block : \/ b \in used
                   \/ \E p \in Proc : blk[p] = b
                   \/ \E x \in Holder : \E i \in 1 .. NICFREE : At(x, i, b)

\* The groups form a chain without cycles: going from a block to the one
\* whose stack it is the bottom of, one gets to the superblock.
Ranked(g) == \A x, y \in Block : At(y, 1, x) => g[y] < g[x]
NoCycle   == \E g \in [Block -> Nat] : Ranked(g)

ListInv == Locked /\ Tables /\ AtMostOne /\ AtLeastOne /\ NoCycle

IndInv == TypeOK /\ NoLostWakeup /\ SavedWhenClean /\ (wild \/ ListInv)

----------------------------------------------------------------------------
(* Stacks *)

\* A stack is a sequence of at most NICFREE entries.
LEMMA StackIsSeq ==
  \A s : s \in Stack <=> s \in Seq(Block \cup {End}) /\ Len(s) <= NICFREE
<1>1. ASSUME NEW s \in Stack
      PROVE  s \in Seq(Block \cup {End}) /\ Len(s) <= NICFREE
  <2>1. PICK n \in 0 .. NICFREE : s \in [1 .. n -> Block \cup {End}]
    BY DEF Stack
  <2>2. n \in Nat
    BY <2>1, ConstantsAssumption
  <2>3. Len(s) = n /\ s \in Seq(Block \cup {End})
    BY <2>1, <2>2
  <2> QED BY <2>1, <2>3
<1>2. ASSUME NEW s \in Seq(Block \cup {End}), Len(s) <= NICFREE
      PROVE  s \in Stack
  <2>1. s \in [1 .. Len(s) -> Block \cup {End}] /\ Len(s) \in 0 .. NICFREE
    BY <1>2, ConstantsAssumption
  <2> QED BY <2>1 DEF Stack
<1> QED BY <1>1, <1>2

\* the empty stack, and the one of the last group
LEMMA StackEnds ==
  << >> \in Stack /\ <<End>> \in Stack /\ Len(<< >>) = 0 /\ Len(<<End>>) = 1
<1>1. << >> \in Seq(Block \cup {End}) /\ Len(<< >>) = 0
  OBVIOUS
<1>2. <<End>> \in Seq(Block \cup {End}) /\ Len(<<End>>) = 1
  OBVIOUS
<1>3. 0 <= NICFREE /\ 1 <= NICFREE
  BY ConstantsAssumption
<1> QED BY <1>1, <1>2, <1>3, StackIsSeq

\* Alloc pops an entry.
LEMMA FrontProps ==
  ASSUME NEW s \in Stack, Len(s) > 0
  PROVE  /\ Front(s) \in Stack /\ Len(Front(s)) = Len(s) - 1
         /\ \A i \in 1 .. Len(s) - 1 : Front(s)[i] = s[i]
         /\ Last(s) \in Block \cup {End}
<1>1. s \in Seq(Block \cup {End}) /\ Len(s) <= NICFREE /\ Len(s) \in Nat
  BY StackIsSeq
<1>2. Len(s) - 1 \in Nat /\ \A i \in 1 .. Len(s) - 1 : s[i] \in Block \cup {End}
  BY <1>1
<1>3. /\ Front(s) \in Seq(Block \cup {End}) /\ Len(Front(s)) = Len(s) - 1
      /\ \A i \in 1 .. Len(s) - 1 : Front(s)[i] = s[i]
  BY <1>2 DEF Front
<1>4. Last(s) \in Block \cup {End}
  BY <1>1 DEF Last
<1> QED BY <1>1, <1>3, <1>4, StackIsSeq, ConstantsAssumption

\* Free pushes an entry.
LEMMA AppendProps ==
  ASSUME NEW s \in Stack, NEW b \in Block, Len(s) < NICFREE
  PROVE  /\ Append(s, b) \in Stack /\ Len(Append(s, b)) = Len(s) + 1
         /\ \A i \in 1 .. Len(s) : Append(s, b)[i] = s[i]
         /\ Append(s, b)[Len(s) + 1] = b
<1>1. s \in Seq(Block \cup {End}) /\ Len(s) \in Nat
  BY StackIsSeq
<1>2. /\ Append(s, b) \in Seq(Block \cup {End})
      /\ Len(Append(s, b)) = Len(s) + 1
      /\ \A i \in 1 .. Len(s) : Append(s, b)[i] = s[i]
      /\ Append(s, b)[Len(s) + 1] = b
  BY <1>1
<1>3. Len(Append(s, b)) <= NICFREE
  BY <1>1, <1>2, ConstantsAssumption
<1>4. Append(s, b) \in Stack
  BY <1>2, <1>3, StackIsSeq
<1> QED BY <1>2, <1>4

\* what FreePush makes of the stack
Pushed(s, b) == Append(IF s = << >> THEN <<End>> ELSE s, b)

LEMMA PushedProps ==
  ASSUME NEW s \in Stack, NEW b \in Block, Len(s) < NICFREE
  PROVE  /\ Pushed(s, b) \in Stack
         /\ IF s = << >>
            THEN /\ Len(Pushed(s, b)) = 2
                 /\ Pushed(s, b)[1] = End /\ Pushed(s, b)[2] = b
            ELSE /\ Len(Pushed(s, b)) = Len(s) + 1
                 /\ \A i \in 1 .. Len(s) : Pushed(s, b)[i] = s[i]
                 /\ Pushed(s, b)[Len(s) + 1] = b
<1>1. CASE s = << >>
  <2>1. <<End>>[1] = End
    OBVIOUS
  <2>2. Len(<<End>>) < NICFREE
    BY ConstantsAssumption, StackEnds
  <2>3. /\ Append(<<End>>, b) \in Stack /\ Len(Append(<<End>>, b)) = 1 + 1
        /\ Append(<<End>>, b)[1] = <<End>>[1] /\ Append(<<End>>, b)[1 + 1] = b
    <3>1. /\ <<End>> \in Stack /\ Len(<<End>>) = 1 /\ 1 \in 1 .. 1
      BY StackEnds
    <3> QED BY <2>2, <3>1, AppendProps
  <2> QED BY <1>1, <2>1, <2>3 DEF Pushed
<1>2. CASE s # << >>
  BY <1>2, AppendProps DEF Pushed
<1> QED BY <1>1, <1>2

----------------------------------------------------------------------------
(* Types, sleepers and the saved superblock *)

\* the work of Unlock
LEMMA UnlockProps ==
  ASSUME TypeOK, NEW p \in Proc, NEW l \in PCs \ {"allocWait", "freeWait"},
         Unlock(p, l), pc[p] \in {"refill", "link"}
  PROVE  /\ pc' \in [Proc -> PCs] /\ ~ flock' /\ pc'[p] = l
         /\ \A q \in Proc : pc'[q] \notin {"allocWait", "freeWait"}
         /\ \A q \in Proc \ {p} :
              \/ pc'[q] = pc[q]
              \/ pc[q] = "allocWait" /\ pc'[q] = "alloc"
              \/ pc[q] = "freeWait" /\ pc'[q] = "free"
<1>1. ASSUME NEW q \in Proc
      PROVE  pc'[q] = IF q = p THEN l ELSE IF pc[q] = "allocWait" THEN "alloc"
                      ELSE IF pc[q] = "freeWait" THEN "free" ELSE pc[q]
  BY DEF Unlock
<1>2. pc' \in [Proc -> PCs]
  <2>1. pc' = [q \in Proc |-> pc'[q]]
    BY DEF Unlock
  <2>2. \A q \in Proc : pc'[q] \in PCs
    BY <1>1 DEF TypeOK, PCs
  <2> QED BY <2>1, <2>2
<1>3. ~ flock'
  BY DEF Unlock
<1> QED BY <1>1, <1>2, <1>3

\* the entries of the superblock's own stack
LEMMA FreeEntries ==
  ASSUME TypeOK, Tables
  PROVE  /\ Len(free) \in 0 .. NICFREE
         /\ \A i \in 1 .. Len(free) :
              /\ i > 1 => free[i] \in Block /\ table[free[i]] = NoTable
              /\ i = 1 => free[1] = End \/ (free[1] \in Block /\ table[free[1]] # NoTable)
<1>1. StackOf(NoBlk) = free /\ NoBlk \in Holder
  BY DEF StackOf, Holder
<1>2. Len(free) \in 0 .. NICFREE
  BY StackIsSeq DEF TypeOK
<1> QED BY <1>1, <1>2 DEF Tables

\* Every step preserves the type invariant.
LEMMA TypeStep ==
  ASSUME TypeOK, ListInv, NEW p \in Proc, Step(p)
  PROVE  TypeOK'
<1> USE DEF PCs
<1>0. /\ free \in Stack /\ Len(free) \in 0 .. NICFREE
      /\ pc \in [Proc -> PCs] /\ blk \in [Proc -> Block \cup {NoBlk}]
      /\ table \in [Block -> Stack \cup {NoTable}]
      /\ << >> \in Stack
  BY StackIsSeq, StackEnds DEF TypeOK
<1>a. ASSUME pc[p] \in HolderPCs PROVE blk[p] \in Block
  BY <1>0, <1>a DEF ListInv, Locked
<1>1. CASE AllocSleep(p) \/ AllocUnderflow(p) \/ UpdateStart(p) \/ UpdateSkip(p)
           \/ UpdateCopy(p) \/ UpdateEnd(p)
  BY <1>1 DEF AllocSleep, AllocUnderflow, UpdateStart, UpdateSkip, UpdateCopy,
              UpdateEnd, Goto, TypeOK
<1>2. CASE AllocPop(p)
  <2>1. Front(free) \in Stack /\ Last(free) \in Block
    BY <1>0, <1>2, FrontProps, FreeEntries DEF AllocPop, ListInv, Last
  <2> QED BY <1>2, <2>1 DEF AllocPop, Goto, TypeOK
<1>3. CASE AllocBottom(p)
  <2>1. free[1] \in Block
    BY <1>0, <1>3, FreeEntries DEF AllocBottom, ListInv
  <2> QED BY <1>0, <1>3, <2>1 DEF AllocBottom, Goto, TypeOK
<1>4. CASE AllocFull(p)
  BY <1>0, <1>4 DEF AllocFull, Goto, TypeOK
<1>5. CASE AllocRefill(p)
  <2>1. free' \in Stack
    BY <1>0, <1>5, <1>a DEF AllocRefill, HolderPCs, LockPCs
  <2>2. pc' \in [Proc -> PCs] /\ flock' = FALSE
    BY <1>5, UnlockProps DEF AllocRefill, Unlock, TypeOK
  <2> QED BY <1>5, <2>1, <2>2 DEF AllocRefill, TypeOK
<1>6. CASE AllocReturn(p)
  BY <1>6, <1>a DEF AllocReturn, Goto, TypeOK, HolderPCs
<1>7. ASSUME NEW b \in Block, FreeSleep(p, b) \/ FreeSpill(p, b) PROVE TypeOK'
  BY <1>7 DEF FreeSleep, FreeSpill, EarlyMod, Goto, TypeOK
<1>8. ASSUME NEW b \in Block, FreePush(p, b) PROVE TypeOK'
  <2>1. free' \in Stack
    BY <1>0, <1>8, PushedProps DEF FreePush, Pushed
  <2> QED BY <1>8, <2>1 DEF FreePush, Goto, TypeOK
<1>9. CASE FreeTable(p)
  <2>1. blk[p] \in Block
    BY <1>9, <1>a DEF FreeTable, HolderPCs, LockPCs
  <2>2. table' \in [Block -> Stack \cup {NoTable}] /\ free' \in Stack
    BY <1>0, <1>9 DEF FreeTable
  <2> QED BY <1>9, <2>2 DEF FreeTable, Goto, TypeOK
<1>10. CASE FreeLink(p)
  <2>1. blk[p] \in Block /\ free = << >> /\ Len(free) < NICFREE
    BY <1>10, <1>a, StackEnds, ConstantsAssumption
    DEF FreeLink, HolderPCs, LockPCs, ListInv, Locked
  <2>2. free' \in Stack
    BY <1>0, <1>10, <2>1, AppendProps DEF FreeLink
  <2>3. pc' \in [Proc -> PCs] /\ flock' = FALSE
    BY <1>10, UnlockProps DEF FreeLink, Unlock
  <2> QED BY <1>10, <2>2, <2>3 DEF FreeLink, TypeOK
<1> QED BY <1>1, <1>2, <1>3, <1>4, <1>5, <1>6, <1>7, <1>8, <1>9, <1>10 DEF Step

\* Every step leaves a process that will wake the sleepers.
LEMMA WakeupStep ==
  ASSUME TypeOK, NoLostWakeup, ListInv, NEW p \in Proc, Step(p)
  PROVE  NoLostWakeup'
<1> USE DEF NoLostWakeup, TypeOK, Goto
<1>1. CASE AllocSleep(p) \/ AllocPop(p) \/ AllocBottom(p) \/ AllocFull(p)
           \/ AllocUnderflow(p)
  BY <1>1 DEF AllocSleep, AllocPop, AllocBottom, AllocFull, AllocUnderflow, InAlloc,
              PCs
<1>2. CASE AllocRefill(p)
  <2>1. ~ flock' /\ \A q \in Proc : pc'[q] \notin {"allocWait", "freeWait"}
    BY <1>2, UnlockProps DEF AllocRefill, PCs
  <2> QED BY <2>1
<1>3. CASE AllocReturn(p)
  BY <1>3 DEF AllocReturn
<1>4. ASSUME NEW b \in Block, FreeSleep(p, b) \/ FreePush(p, b) \/ FreeSpill(p, b)
      PROVE  NoLostWakeup'
  BY <1>4 DEF FreeSleep, FreePush, FreeSpill, InFreeOf
<1>5. CASE FreeTable(p)
  BY <1>5 DEF FreeTable
<1>6. CASE FreeLink(p)
  <2>1. ~ flock' /\ \A q \in Proc : pc'[q] \notin {"allocWait", "freeWait"}
    BY <1>6, UnlockProps DEF FreeLink, PCs
  <2> QED BY <2>1
<1>7. CASE UpdateStart(p) \/ UpdateSkip(p) \/ UpdateCopy(p) \/ UpdateEnd(p)
  BY <1>7 DEF UpdateStart, UpdateSkip, UpdateCopy, UpdateEnd
<1> QED BY <1>1, <1>2, <1>3, <1>4, <1>5, <1>6, <1>7 DEF Step

\* Every step that changes the stack is reported by s_fmod.
LEMMA SavedStep ==
  ASSUME TypeOK, SavedWhenClean, NEW p \in Proc, Step(p), ~ wild
  PROVE  SavedWhenClean'
<1> SUFFICES ASSUME ~ fmod',
                    \A q \in Proc : ~ Changing(q)' /\ pc'[q] # "update"
             PROVE  SameList(saved, free)'
  BY DEF SavedWhenClean
<1> USE DEF TypeOK, Goto, Changing
<1>1. ASSUME pc[p] \in PCs \ {"refill", "getblk", "spill", "link", "update"},
             \A q \in Proc \ {p} : pc'[q] = pc[q], ~ fmod
      PROVE  SameList(saved, free)
  BY <1>1 DEF SavedWhenClean
<1>2. CASE AllocSleep(p) \/ AllocUnderflow(p)
  BY <1>1, <1>2 DEF AllocSleep, AllocUnderflow, InAlloc, SameList, PCs
<1>3. CASE AllocPop(p) \/ AllocBottom(p)
  BY <1>3 DEF AllocPop, AllocBottom
<1>4. CASE AllocFull(p)
  BY <1>1, <1>4 DEF AllocFull, InAlloc, SameList, PCs
<1>5. CASE AllocRefill(p)
  BY <1>5, UnlockProps DEF AllocRefill, PCs
<1>6. CASE AllocReturn(p) \/ FreeLink(p)
  BY <1>6 DEF AllocReturn, FreeLink
<1>7. ASSUME NEW b \in Block, FreeSleep(p, b) PROVE SameList(saved, free)'
  BY <1>1, <1>7 DEF FreeSleep, EarlyMod, InFreeOf, SameList, PCs
<1>8. ASSUME NEW b \in Block, FreePush(p, b) \/ FreeSpill(p, b)
      PROVE  SameList(saved, free)'
  BY <1>8 DEF FreePush, FreeSpill
<1>9. CASE FreeTable(p) \/ UpdateStart(p)
  BY <1>9 DEF FreeTable, UpdateStart
<1>10. CASE UpdateSkip(p) \/ UpdateEnd(p)
  BY <1>1, <1>10 DEF UpdateSkip, UpdateEnd, SameList, PCs
<1>11. CASE UpdateCopy(p)
  BY <1>11 DEF UpdateCopy, SameList
<1> QED BY <1>2, <1>3, <1>4, <1>5, <1>6, <1>7, <1>8, <1>9, <1>10, <1>11 DEF Step

----------------------------------------------------------------------------
(* The list of free blocks *)

\* Every holder has a stack.
LEMMA StackOfType ==
  ASSUME TypeOK, NEW x \in Holder
  PROVE  StackOf(x) \in Stack /\ Len(StackOf(x)) \in 0 .. NICFREE
<1>1. StackOf(x) \in Stack
  BY StackEnds DEF StackOf, TypeOK, Holder
<1> QED BY <1>1, StackIsSeq

\* steps that only move processes about outside of the transfers
LEMMA ListQuiet ==
  ASSUME TypeOK, ListInv, UNCHANGED <<free, table, used, blk, flock>>,
         \A q \in Proc : \A l \in HolderPCs : (pc'[q] = l) <=> (pc[q] = l)
  PROVE  ListInv'
<1> USE DEF ListInv
<1>1. \A x \in Holder : StackOf(x)' = StackOf(x)
  BY DEF StackOf, Spent, HolderPCs
<1>2. \A x \in Holder : \A i, b : At(x, i, b)' <=> At(x, i, b)
  BY <1>1 DEF At
<1>3. Locked'
  BY DEF Locked, LockPCs, HolderPCs
<1>4. Tables'
  BY <1>1 DEF Tables, LockPCs, HolderPCs
<1>5. AtMostOne'
  BY <1>2 DEF AtMostOne
<1>6. AtLeastOne'
  BY <1>2 DEF AtLeastOne
<1>7. NoCycle'
  BY <1>2 DEF NoCycle, Ranked, Holder
<1> QED BY <1>3, <1>4, <1>5, <1>6, <1>7

\* 0 is popped
LEMMA ListFull ==
  ASSUME TypeOK, ListInv, NEW p \in Proc, AllocFull(p)
  PROVE  ListInv'
<1> USE DEF ListInv
<1>0. /\ pc[p] \in {"user", "alloc"} /\ ~ flock /\ free = <<End>> /\ free' = << >>
      /\ pc' = [pc EXCEPT ![p] = "user"]
      /\ UNCHANGED <<flock, table, used, blk>>
  BY DEF AllocFull, InAlloc, Goto
<1>a. \A q \in Proc : \A l \in HolderPCs : (pc'[q] = l) <=> (pc[q] = l)
  BY <1>0 DEF TypeOK, HolderPCs, LockPCs
<1>1. \A x \in Block : StackOf(x)' = StackOf(x)
  BY <1>0, <1>a, ConstantsAssumption DEF StackOf, Spent, HolderPCs
<1>b. StackOf(NoBlk)' = << >> /\ StackOf(NoBlk) = <<End>>
  BY <1>0 DEF StackOf
<1>2. \A x \in Holder : \A i : \A b \in Block : At(x, i, b)' <=> At(x, i, b)
  <2>1. ASSUME NEW i, NEW b \in Block PROVE ~ At(NoBlk, i, b)' /\ ~ At(NoBlk, i, b)
    BY <1>b, StackEnds, ConstantsAssumption DEF At
  <2> QED BY <1>1, <2>1 DEF At, Holder
<1>3. Locked'
  BY <1>0, <1>a DEF Locked, LockPCs, HolderPCs
<1>4. Tables'
  BY <1>0, <1>1, <1>a, <1>b, StackEnds DEF Tables, LockPCs, HolderPCs, Holder
<1>5. AtMostOne'
  BY <1>0, <1>2 DEF AtMostOne
<1>6. AtLeastOne'
  BY <1>0, <1>2 DEF AtLeastOne
<1>7. NoCycle'
  BY <1>0, <1>2 DEF NoCycle, Ranked, Holder
<1> QED BY <1>3, <1>4, <1>5, <1>6, <1>7

\* a block is popped
LEMMA ListPop ==
  ASSUME TypeOK, ListInv, NEW p \in Proc, AllocPop(p)
  PROVE  ListInv'
<1> USE DEF ListInv
<1> DEFINE n == Len(free)
<1>0. /\ pc[p] \in {"user", "alloc"} /\ ~ flock /\ n > 1
      /\ free' = Front(free) /\ blk' = [blk EXCEPT ![p] = Last(free)]
      /\ pc' = [pc EXCEPT ![p] = "getblk"]
      /\ UNCHANGED <<flock, table, used>>
  BY DEF AllocPop, InAlloc, Goto
<1>n. n \in Nat /\ n <= NICFREE
  BY StackIsSeq DEF TypeOK
<1>b. PICK b0 \in Block : b0 = free[n] /\ b0 = Last(free) /\ table[b0] = NoTable
  BY <1>0, <1>n, FreeEntries DEF Last
<1>c. /\ pc'[p] = "getblk" /\ blk'[p] = b0 /\ blk[p] = NoBlk
      /\ \A q \in Proc \ {p} : pc'[q] = pc[q] /\ blk'[q] = blk[q]
  BY <1>0, <1>b DEF TypeOK, Locked, HolderPCs, LockPCs
<1>d. /\ StackOf(NoBlk) = free /\ StackOf(NoBlk)' = free'
      /\ Len(free') = n - 1 /\ \A i \in 1 .. n - 1 : free'[i] = free[i]
  BY <1>0, FrontProps DEF StackOf, TypeOK
<1>1. \A x \in Block : StackOf(x)' = StackOf(x)
  <2>1. \A x \in Block : Spent(x)' <=> Spent(x) \/ x = b0
    BY <1>0, <1>c, ConstantsAssumption DEF Spent
  <2> QED BY <1>0, <1>b, <2>1, ConstantsAssumption DEF StackOf
<1>2. /\ \A x \in Block : \A i, b : At(x, i, b)' <=> At(x, i, b)
      /\ \A i : \A b : At(NoBlk, i, b)' <=> At(NoBlk, i, b) /\ i # n
  BY <1>1, <1>d, <1>n, <1>0 DEF At
<1>e. At(NoBlk, n, b0)
  <2>1. n \in 1 .. Len(free)
    BY <1>0, <1>n
  <2> QED BY <1>b, <1>d, <2>1 DEF At
<1> HIDE DEF n
<1>3. Locked'
  BY <1>0, <1>c, ConstantsAssumption DEF Locked, LockPCs, HolderPCs
<1>4. Tables'
  <2>1. ASSUME NEW x \in Holder, NEW i \in 1 .. Len(StackOf(x)')
        PROVE  i \in 1 .. Len(StackOf(x)) /\ StackOf(x)'[i] = StackOf(x)[i]
    <3>1. CASE x = NoBlk
      <4>1. Len(StackOf(x)) = n /\ StackOf(x) = free /\ StackOf(x)' = free'
        BY <1>d, <3>1 DEF n
      <4>2. i \in 1 .. n - 1
        BY <1>d, <4>1
      <4> QED BY <1>d, <1>n, <4>1, <4>2
    <3>2. CASE x \in Block
      BY <1>1, <3>2
    <3> QED BY <3>1, <3>2 DEF Holder
  <2>3. ASSUME NEW x \in Holder, NEW i \in 1 .. Len(StackOf(x)'), i = 1
        PROVE  1 \in 1 .. Len(StackOf(x)) /\ StackOf(x)'[1] = StackOf(x)[1]
    BY <2>1, <2>3
  <2> QED BY <1>0, <1>c, <2>1, <2>3 DEF Tables
<1>5. AtMostOne'
  <2>1. \A x \in Holder : \A i, b : At(x, i, b)' => At(x, i, b)
    BY <1>2 DEF Holder
  <2>2. b0 \notin used /\ \A q \in Proc : blk[q] # b0
    BY <1>e, <1>n, <1>0 DEF AtMostOne, Holder
  <2>3. \A x \in Holder : \A i \in 1 .. NICFREE : ~ At(x, i, b0)'
    BY <1>e, <1>n, <1>0, <1>2 DEF AtMostOne, Holder
  <2> QED BY <1>0, <1>c, <2>1, <2>2, <2>3 DEF AtMostOne
<1>6. AtLeastOne'
  <2>1. ASSUME NEW b \in Block, b # b0
        PROVE  \/ b \in used' \/ \E q \in Proc : blk'[q] = b
               \/ \E x \in Holder : \E i \in 1 .. NICFREE : At(x, i, b)'
    <3>1. CASE b \in used \/ \E q \in Proc : blk[q] = b
      BY <1>0, <1>c, <3>1, ConstantsAssumption
    <3>2. ASSUME NEW x \in Holder, NEW i \in 1 .. NICFREE, At(x, i, b)
          PROVE  At(x, i, b)'
      <4>1. ~ (x = NoBlk /\ i = n)
        BY <1>b, <1>d, <2>1, <3>2 DEF At
      <4> QED BY <1>2, <3>2, <4>1 DEF Holder
    <3> QED BY <3>1, <3>2 DEF AtLeastOne
  <2> QED BY <1>c, <2>1 DEF AtLeastOne
<1>7. NoCycle'
  BY <1>2 DEF NoCycle, Ranked
<1> QED BY <1>3, <1>4, <1>5, <1>6, <1>7

\* the bottom of the stack is popped
LEMMA ListBottom ==
  ASSUME TypeOK, ListInv, NoLostWakeup, NEW p \in Proc, AllocBottom(p)
  PROVE  ListInv'
<1> USE DEF ListInv
<1>0. /\ pc[p] \in {"user", "alloc"} /\ ~ flock /\ Len(free) = 1 /\ free[1] # End
      /\ free' = << >> /\ blk' = [blk EXCEPT ![p] = free[1]] /\ flock' = TRUE
      /\ pc' = [pc EXCEPT ![p] = "refill"]
      /\ UNCHANGED <<table, used>>
  BY DEF AllocBottom, InAlloc, Goto
<1>b. PICK b0 \in Block : b0 = free[1] /\ table[b0] # NoTable
  BY <1>0, FreeEntries
<1>c. /\ pc'[p] = "refill" /\ blk'[p] = b0 /\ blk[p] = NoBlk
      /\ \A q \in Proc \ {p} : pc'[q] = pc[q] /\ blk'[q] = blk[q]
  BY <1>0, <1>b DEF TypeOK, Locked, HolderPCs, LockPCs
<1>d. /\ StackOf(NoBlk) = free /\ StackOf(NoBlk)' = << >>
      /\ Len(StackOf(NoBlk)') = 0
  BY <1>0, StackEnds DEF StackOf
<1>1. \A x \in Block : StackOf(x)' = StackOf(x)
  <2>1. \A x \in Block : Spent(x)' <=> Spent(x)
    BY <1>0, <1>c DEF Spent
  <2> QED BY <1>0, <2>1, ConstantsAssumption DEF StackOf
<1>2. /\ \A x \in Block : \A i, b : At(x, i, b)' <=> At(x, i, b)
      /\ \A i : \A b : ~ At(NoBlk, i, b)'
  BY <1>1, <1>d DEF At
<1>e. At(NoBlk, 1, b0) /\ 1 \in 1 .. NICFREE
  BY <1>0, <1>b, <1>d, ConstantsAssumption DEF At
<1>f. ASSUME NEW i, NEW b, At(NoBlk, i, b) PROVE i = 1 /\ b = b0
  <2>1. i \in 1 .. 1 /\ free[i] = b
    BY <1>0, <1>d, <1>f DEF At
  <2>2. i = 1
    BY <2>1
  <2> QED BY <1>b, <2>1, <2>2
<1>3. Locked'
  <2>1. \A q \in Proc : pc[q] \notin LockPCs
    BY <1>0 DEF Locked
  <2> QED BY <1>0, <1>c, <2>1, ConstantsAssumption DEF Locked, LockPCs, HolderPCs
<1>4. Tables'
  <2>1. \A i \in 1 .. Len(StackOf(NoBlk)') : FALSE
    BY <1>d
  <2> QED BY <1>0, <1>1, <1>b, <1>c, <2>1 DEF Tables, Holder
<1>5. AtMostOne'
  <2>1. \A x \in Holder : \A i, b : At(x, i, b)' => At(x, i, b)
    BY <1>2 DEF Holder
  <2>2. b0 \notin used /\ \A q \in Proc : blk[q] # b0
    BY <1>e DEF AtMostOne, Holder
  <2>3. \A x \in Holder : \A i \in 1 .. NICFREE : ~ At(x, i, b0)'
    BY <1>e, <1>2, ConstantsAssumption DEF AtMostOne, Holder
  <2> QED BY <1>0, <1>c, <2>1, <2>2, <2>3 DEF AtMostOne
<1>6. AtLeastOne'
  <2>1. ASSUME NEW b \in Block, b # b0
        PROVE  \/ b \in used' \/ \E q \in Proc : blk'[q] = b
               \/ \E x \in Holder : \E i \in 1 .. NICFREE : At(x, i, b)'
    <3>1. CASE b \in used \/ \E q \in Proc : blk[q] = b
      BY <1>0, <1>c, <3>1, ConstantsAssumption
    <3>2. ASSUME NEW x \in Holder, NEW i \in 1 .. NICFREE, At(x, i, b)
          PROVE  At(x, i, b)'
      BY <1>2, <1>f, <2>1, <3>2 DEF Holder
    <3> QED BY <3>1, <3>2 DEF AtLeastOne
  <2> QED BY <1>c, <2>1 DEF AtLeastOne
<1>7. NoCycle'
  BY <1>2 DEF NoCycle, Ranked
<1> QED BY <1>3, <1>4, <1>5, <1>6, <1>7

\* the stack of the block moves to the superblock
LEMMA ListRefill ==
  ASSUME TypeOK, ListInv, NEW p \in Proc, AllocRefill(p)
  PROVE  ListInv'
<1> USE DEF ListInv
<1>b. PICK b0 \in Block : b0 = blk[p] /\ table[b0] # NoTable
  BY DEF AllocRefill, TypeOK, Locked, Tables, HolderPCs, LockPCs
<1>0. /\ pc[p] = "refill" /\ free = << >> /\ free' = table[b0]
      /\ UNCHANGED <<table, used, blk>>
  BY <1>b DEF AllocRefill, Locked
<1>c. /\ pc'[p] = "getblk" /\ ~ flock'
      /\ \A q \in Proc \ {p} : \A l \in HolderPCs \ {"free", "freeWait"} :
           (pc'[q] = l) <=> (pc[q] = l)
      /\ \A q \in Proc : (pc'[q] \in HolderPCs) <=> (pc[q] \in HolderPCs)
      /\ \A q \in Proc : pc'[q] \in {"free", "freeWait"} =>
           pc[q] \in {"free", "freeWait"}
      /\ \A q \in Proc : pc'[q] \notin LockPCs
  <2>1. /\ Unlock(p, "getblk") /\ \A q \in Proc \ {p} : pc[q] \notin LockPCs
    BY <1>0 DEF AllocRefill, Locked, LockPCs
  <2> QED BY <1>0, <2>1, UnlockProps DEF PCs, HolderPCs, LockPCs
<1>d. \A q \in Proc : blk[q] = b0 => q = p
  BY <1>b, ConstantsAssumption DEF AtMostOne
<1>1. /\ StackOf(NoBlk) = << >> /\ StackOf(NoBlk)' = StackOf(b0)
      /\ StackOf(b0)' = << >>
      /\ \A x \in Block \ {b0} : StackOf(x)' = StackOf(x)
  <2>1. ~ Spent(b0) /\ Spent(b0)'
    BY <1>0, <1>b, <1>c, <1>d DEF Spent
  <2>2. \A x \in Block \ {b0} : Spent(x)' <=> Spent(x)
    BY <1>0, <1>b, <1>c DEF Spent, HolderPCs
  <2> QED BY <1>0, <1>b, <2>1, <2>2, ConstantsAssumption DEF StackOf
<1>2. /\ \A i, b : ~ At(NoBlk, i, b) /\ ~ At(b0, i, b)'
      /\ \A i, b : At(NoBlk, i, b)' <=> At(b0, i, b)
      /\ \A x \in Block \ {b0} : \A i, b : At(x, i, b)' <=> At(x, i, b)
  BY <1>1, StackEnds DEF At
<1>3. Locked'
  BY <1>0, <1>c DEF Locked, LockPCs
<1>4. Tables'
  <2>1. \A i \in 1 .. Len(StackOf(b0)') : FALSE
    BY <1>1, StackEnds
  <2>2. \A q \in Proc : pc'[q] \notin {"refill", "link", "spill"}
    BY <1>c DEF LockPCs
  <2>3. \A q \in Proc : pc'[q] \in {"freeWait", "free"} => table'[blk'[q]] = NoTable
    BY <1>0, <1>c DEF Tables
  <2>4. \A x \in Holder : StackOf(x)' = StackOf(IF x = NoBlk THEN b0 ELSE x)
                          \/ StackOf(x)' = << >>
    BY <1>1 DEF Holder
  <2>5. \A x \in Holder : \A i \in 1 .. Len(StackOf(x)') :
          /\ i > 1 => StackOf(x)'[i] \in Block /\ table[StackOf(x)'[i]] = NoTable
          /\ i = 1 => \/ StackOf(x)'[1] = End
                      \/ StackOf(x)'[1] \in Block /\ table[StackOf(x)'[1]] # NoTable
    BY <2>4, StackEnds DEF Tables, Holder
  <2> QED BY <1>0, <2>2, <2>3, <2>5 DEF Tables
<1>5. AtMostOne'
  <2>1. \A x \in Holder : \A i, b :
          At(x, i, b)' <=> x # b0 /\ At(IF x = NoBlk THEN b0 ELSE x, i, b)
    BY <1>2, ConstantsAssumption DEF Holder
  <2>2. \A x \in Holder : (IF x = NoBlk THEN b0 ELSE x) \in Holder
    BY DEF Holder
  <2> QED BY <1>0, <2>1, <2>2 DEF AtMostOne
<1>6. AtLeastOne'
  <2>1. ASSUME NEW x \in Holder, NEW i, NEW b, At(x, i, b)
        PROVE  \E y \in Holder : At(y, i, b)'
    BY <1>2, <2>1 DEF Holder
  <2> QED BY <1>0, <2>1 DEF AtLeastOne
<1>7. NoCycle'
  <2>1. \A x \in Block : \A i, b : At(x, i, b)' => At(x, i, b)
    BY <1>2
  <2> QED BY <2>1 DEF NoCycle, Ranked
<1> QED BY <1>3, <1>4, <1>5, <1>6, <1>7

\* the block goes to a file
LEMMA ListReturn ==
  ASSUME TypeOK, ListInv, NEW p \in Proc, AllocReturn(p)
  PROVE  ListInv'
<1> USE DEF ListInv
<1>b. PICK b0 \in Block : b0 = blk[p]
  BY DEF AllocReturn, TypeOK, Locked, HolderPCs
<1>0. /\ pc[p] = "getblk" /\ pc' = [pc EXCEPT ![p] = "user"]
      /\ table' = [table EXCEPT ![b0] = NoTable]
      /\ used' = used \cup {b0}
      /\ blk' = [blk EXCEPT ![p] = NoBlk]
      /\ UNCHANGED <<free, flock>>
  BY <1>b DEF AllocReturn, Goto
<1>c. /\ pc'[p] = "user" /\ blk'[p] = NoBlk
      /\ \A q \in Proc \ {p} : pc'[q] = pc[q] /\ blk'[q] = blk[q]
      /\ table'[b0] = NoTable /\ \A b \in Block \ {b0} : table'[b] = table[b]
  BY <1>0 DEF TypeOK
<1>d. \A q \in Proc : blk[q] = b0 => q = p
  BY <1>b, ConstantsAssumption DEF AtMostOne
<1>1. \A x \in Holder : StackOf(x)' = StackOf(x)
  <2>1. StackOf(NoBlk)' = StackOf(NoBlk)
    BY <1>0 DEF StackOf
  <2>2. StackOf(b0)' = StackOf(b0)
    BY <1>0, <1>b, <1>c, ConstantsAssumption DEF StackOf, Spent
  <2>3. \A x \in Block \ {b0} : Spent(x)' <=> Spent(x)
    BY <1>0, <1>b, <1>c DEF Spent
  <2>4. \A x \in Block \ {b0} : StackOf(x)' = StackOf(x)
    BY <1>c, <2>3, ConstantsAssumption DEF StackOf
  <2> QED BY <2>1, <2>2, <2>4 DEF Holder
<1>2. \A x \in Holder : \A i, b : At(x, i, b)' <=> At(x, i, b)
  BY <1>1 DEF At
<1>e. \A x \in Holder : \A i \in 1 .. NICFREE : ~ At(x, i, b0)
  BY <1>b DEF AtMostOne
<1>3. Locked'
  BY <1>0, <1>c DEF Locked, LockPCs, HolderPCs
<1>4. Tables'
  <2>1. ASSUME NEW x \in Holder, NEW i \in 1 .. Len(StackOf(x)), StackOf(x)[i] \in Block
        PROVE  table'[StackOf(x)[i]] = table[StackOf(x)[i]]
    <3>1. i \in 1 .. NICFREE
      BY StackOfType, ConstantsAssumption
    <3>2. StackOf(x)[i] # b0
      BY <1>e, <3>1 DEF At
    <3> QED BY <1>c, <2>1, <3>2
  <2>2. \A x \in Holder : \A i \in 1 .. Len(StackOf(x)) :
          /\ i > 1 => StackOf(x)[i] \in Block /\ table'[StackOf(x)[i]] = NoTable
          /\ i = 1 => \/ StackOf(x)[1] = End
                      \/ StackOf(x)[1] \in Block /\ table'[StackOf(x)[1]] # NoTable
    BY <2>1 DEF Tables
  <2>3. \A b \in used' : table'[b] = NoTable
    BY <1>0, <1>c DEF Tables, TypeOK
  <2>4. \A q \in Proc : pc'[q] \in HolderPCs =>
          q # p /\ table'[blk'[q]] = table[blk[q]]
    <3>1. \A q \in Proc : pc[q] \in HolderPCs => blk[q] \in Block
      BY DEF Locked, TypeOK
    <3>2. \A q \in Proc : pc'[q] \in HolderPCs => q # p
      BY <1>c DEF HolderPCs, LockPCs
    <3> QED BY <1>c, <1>d, <3>1, <3>2
  <2>5. \A q \in Proc : pc'[q] \in {"freeWait", "free", "spill"} =>
                           table'[blk'[q]] = NoTable
    BY <1>c, <2>4 DEF Tables, HolderPCs, LockPCs
  <2>6. \A q \in Proc : pc'[q] \in {"refill", "link"} => table'[blk'[q]] # NoTable
    BY <1>c, <2>4 DEF Tables, HolderPCs, LockPCs
  <2> QED BY <1>1, <2>2, <2>3, <2>5, <2>6 DEF Tables
<1>5. AtMostOne'
  <2>1. \A q \in Proc : blk'[q] \notin used'
    BY <1>0, <1>c, <1>d, ConstantsAssumption DEF AtMostOne, TypeOK
  <2>2. \A x \in Holder : \A i \in 1 .. NICFREE : \A b \in Block :
          At(x, i, b)' => b \notin used' /\ \A q \in Proc : blk'[q] # b
    BY <1>0, <1>2, <1>c, <1>e, ConstantsAssumption DEF AtMostOne
  <2>3. \A q, r \in Proc : blk'[q] # NoBlk /\ blk'[q] = blk'[r] => q = r
    BY <1>c DEF AtMostOne
  <2> QED BY <1>2, <2>1, <2>2, <2>3 DEF AtMostOne
<1>6. AtLeastOne'
  BY <1>0, <1>2, <1>b, <1>c DEF AtLeastOne
<1>7. NoCycle'
  BY <1>2 DEF NoCycle, Ranked, Holder
<1> QED BY <1>3, <1>4, <1>5, <1>6, <1>7

\* a block leaves its file
LEMMA ListTaken ==
  ASSUME TypeOK, ListInv, NoLostWakeup, NEW p \in Proc, NEW b0 \in Block,
         FreeSleep(p, b0) \/ FreeSpill(p, b0)
  PROVE  ListInv'
<1> USE DEF ListInv
<1>0. /\ InFreeOf(p, b0) /\ UNCHANGED <<free, table>>
      /\ used' = used \ {b0} /\ blk' = [blk EXCEPT ![p] = b0]
      /\ \/ pc' = [pc EXCEPT ![p] = "freeWait"] /\ flock' = flock
         \/ pc' = [pc EXCEPT ![p] = "spill"] /\ flock' = TRUE /\ ~ flock
  BY DEF FreeSleep, FreeSpill, Goto
<1>c. /\ pc'[p] \in {"freeWait", "spill"} /\ blk'[p] = b0
      /\ \A q \in Proc \ {p} : pc'[q] = pc[q] /\ blk'[q] = blk[q]
  BY <1>0 DEF TypeOK
<1>a. /\ pc[p] \in {"user", "free"} /\ table[b0] = NoTable
      /\ (b0 \in used /\ blk[p] = NoBlk) \/ blk[p] = b0
  BY <1>0 DEF InFreeOf, Tables, Locked, HolderPCs, LockPCs
<1>d. /\ \A q \in Proc \ {p} : blk[q] # b0
      /\ \A x \in Holder : \A i \in 1 .. NICFREE : ~ At(x, i, b0)
  BY <1>a, ConstantsAssumption DEF AtMostOne
<1>1. \A x \in Holder : StackOf(x)' = StackOf(x)
  BY <1>0, <1>a, <1>c DEF StackOf, Spent
<1>2. \A x \in Holder : \A i, b : At(x, i, b)' <=> At(x, i, b)
  BY <1>1 DEF At
<1>3. Locked'
  <2>1. \A q \in Proc : pc[q] \in LockPCs => flock
    BY DEF Locked
  <2>2. \A q \in Proc : (blk'[q] # NoBlk) <=> (pc'[q] \in HolderPCs)
    BY <1>c, ConstantsAssumption DEF Locked, HolderPCs, LockPCs
  <2>3. \A q \in Proc : pc'[q] \in {"refill", "link"} => free' = << >>
    BY <1>0, <1>c DEF Locked
  <2>4. \A q \in Proc : pc'[q] \in LockPCs => flock'
    BY <1>0, <1>c, <2>1 DEF TypeOK, LockPCs
  <2>5. \A q, r \in Proc : pc'[q] \in LockPCs /\ pc'[r] \in LockPCs => q = r
    <3>1. CASE pc'[p] = "freeWait"
      BY <1>c, <3>1 DEF Locked, LockPCs
    <3>2. CASE pc'[p] = "spill"
      <4>1. ~ flock
        BY <1>0, <3>2 DEF TypeOK
      <4> QED BY <1>c, <2>1, <4>1
    <3> QED BY <1>c, <3>1, <3>2
  <2> QED BY <2>2, <2>3, <2>4, <2>5 DEF Locked
<1>4. Tables'
  BY <1>0, <1>1, <1>a, <1>c DEF Tables
<1>5. AtMostOne'
  BY <1>0, <1>2, <1>c, <1>d DEF AtMostOne
<1>6. AtLeastOne'
  <2>1. \A b \in Block : (b \in used => b \in used' \/ blk'[p] = b)
    BY <1>0, <1>c
  <2>2. \A b \in Block : \A q \in Proc : blk[q] = b => blk'[q] = b
    BY <1>a, <1>c, ConstantsAssumption
  <2> QED BY <1>2, <2>1, <2>2 DEF AtLeastOne
<1>7. NoCycle'
  BY <1>2 DEF NoCycle, Ranked, Holder
<1> QED BY <1>3, <1>4, <1>5, <1>6, <1>7

\* a block is pushed
LEMMA ListPush ==
  ASSUME TypeOK, ListInv, NEW p \in Proc, NEW b0 \in Block, FreePush(p, b0)
  PROVE  ListInv'
<1> USE DEF ListInv
<1> DEFINE n == IF free = << >> THEN 2 ELSE Len(free) + 1
<1>0. /\ InFreeOf(p, b0) /\ ~ flock /\ Len(free) < NICFREE
      /\ free' = Pushed(free, b0) /\ used' = used \ {b0}
      /\ blk' = [blk EXCEPT ![p] = NoBlk] /\ pc' = [pc EXCEPT ![p] = "user"]
      /\ UNCHANGED <<flock, table>>
  BY DEF FreePush, Pushed, Goto
<1>c. /\ pc'[p] = "user" /\ blk'[p] = NoBlk
      /\ \A q \in Proc \ {p} : pc'[q] = pc[q] /\ blk'[q] = blk[q]
  BY <1>0 DEF TypeOK
<1>a. /\ pc[p] \in {"user", "free"} /\ table[b0] = NoTable
      /\ (b0 \in used /\ blk[p] = NoBlk) \/ blk[p] = b0
  BY <1>0 DEF InFreeOf, Tables, Locked, HolderPCs, LockPCs
<1>d. /\ \A q \in Proc \ {p} : blk[q] # b0
      /\ \A x \in Holder : \A i \in 1 .. NICFREE : ~ At(x, i, b0)
  BY <1>a, ConstantsAssumption DEF AtMostOne
<1>n. /\ n \in 1 .. NICFREE /\ n > 1 /\ Len(free) \in 0 .. NICFREE
      /\ (Len(free) = 0 <=> free = << >>)
  <2>1. Len(free) \in 0 .. NICFREE /\ (Len(free) = 0 <=> free = << >>)
    BY StackIsSeq DEF TypeOK
  <2> QED BY <1>0, <2>1, ConstantsAssumption
<1>e. /\ Len(free') = n /\ free'[n] = b0
      /\ \A i \in 1 .. Len(free) : i < n /\ free'[i] = free[i]
      /\ \A i \in 1 .. n - 1 : \/ i \in 1 .. Len(free)
                               \/ i = 1 /\ free'[i] = End
  <2>1. CASE free = << >>
    BY <1>0, <2>1, PushedProps DEF TypeOK
  <2>2. CASE free # << >>
    <3>1. /\ Len(free') = Len(free) + 1 /\ free'[Len(free) + 1] = b0
          /\ \A i \in 1 .. Len(free) : free'[i] = free[i]
      BY <1>0, <2>2, PushedProps DEF TypeOK
    <3> QED BY <1>n, <2>2, <3>1
  <2> QED BY <2>1, <2>2
<1>1. /\ \A x \in Block : StackOf(x)' = StackOf(x)
      /\ StackOf(NoBlk)' = free' /\ StackOf(NoBlk) = free
  BY <1>0, <1>a, <1>c, ConstantsAssumption DEF StackOf, Spent
<1> HIDE DEF n
<1>2. /\ \A x \in Block : \A i, b : At(x, i, b)' <=> At(x, i, b)
      /\ \A i \in 1 .. NICFREE : \A b \in Block :
           At(NoBlk, i, b)' <=> At(NoBlk, i, b) \/ (i = n /\ b = b0)
  <2>1. ASSUME NEW i \in 1 .. NICFREE, NEW b \in Block, At(NoBlk, i, b)'
        PROVE  At(NoBlk, i, b) \/ (i = n /\ b = b0)
    <3>1. i \in 1 .. n /\ free'[i] = b
      BY <1>1, <1>e, <2>1 DEF At
    <3>2. CASE i = n
      BY <1>e, <3>1, <3>2
    <3>3. CASE i # n
      <4>1. i \in 1 .. n - 1 /\ b # End
        BY <1>n, <3>1, <3>3, ConstantsAssumption
      <4>2. i \in 1 .. Len(free)
        BY <1>e, <3>1, <4>1
      <4> QED BY <1>1, <1>e, <3>1, <4>2 DEF At
    <3> QED BY <3>2, <3>3
  <2>2. ASSUME NEW i \in 1 .. NICFREE, NEW b \in Block,
               At(NoBlk, i, b) \/ (i = n /\ b = b0)
        PROVE  At(NoBlk, i, b)'
    <3>1. CASE i = n /\ b = b0
      <4>1. i \in 1 .. Len(free')
        BY <1>e, <1>n, <3>1
      <4> QED BY <1>1, <1>e, <3>1, <4>1 DEF At
    <3>2. CASE At(NoBlk, i, b)
      <4>1. i \in 1 .. Len(free) /\ free[i] = b
        BY <1>1, <3>2 DEF At
      <4>2. i \in 1 .. Len(free') /\ free'[i] = b
        BY <1>e, <1>n, <4>1
      <4> QED BY <1>1, <4>2 DEF At
    <3> QED BY <2>2, <3>1, <3>2
  <2> QED BY <1>1, <2>1, <2>2 DEF At
<1>3. Locked'
  BY <1>0, <1>a, <1>c DEF Locked, LockPCs, HolderPCs
<1>4. Tables'
  <2>1. ASSUME NEW i \in 1 .. Len(free')
        PROVE  /\ i > 1 => free'[i] \in Block /\ table[free'[i]] = NoTable
               /\ i = 1 => \/ free'[1] = End
                           \/ free'[1] \in Block /\ table[free'[1]] # NoTable
    <3>1. CASE i = n
      BY <1>a, <1>e, <1>n, <3>1
    <3>2. CASE i \in 1 .. Len(free)
      BY <1>e, <3>2, FreeEntries
    <3>3. CASE i = 1 /\ free'[i] = End
      BY <3>3
    <3> QED BY <1>e, <1>n, <3>1, <3>2, <3>3
  <2>2. \A x \in Block : \A i \in 1 .. Len(StackOf(x)') :
          /\ i > 1 => StackOf(x)'[i] \in Block /\ table[StackOf(x)'[i]] = NoTable
          /\ i = 1 => \/ StackOf(x)'[1] = End
                      \/ StackOf(x)'[1] \in Block /\ table[StackOf(x)'[1]] # NoTable
    BY <1>1 DEF Tables, Holder
  <2>3. \A x \in Holder : \A i \in 1 .. Len(StackOf(x)') :
          /\ i > 1 => StackOf(x)'[i] \in Block /\ table[StackOf(x)'[i]] = NoTable
          /\ i = 1 => \/ StackOf(x)'[1] = End
                      \/ StackOf(x)'[1] \in Block /\ table[StackOf(x)'[1]] # NoTable
    BY <1>1, <2>1, <2>2 DEF Holder
  <2>4. \A q \in Proc : pc'[q] \in {"freeWait", "free", "spill", "refill", "link"} =>
          q # p
    BY <1>c
  <2> QED BY <1>0, <1>c, <2>3, <2>4 DEF Tables
<1>5. AtMostOne'
  <2>0. \A x \in Holder : \A i \in 1 .. NICFREE : \A b \in Block :
          At(x, i, b)' <=> At(x, i, b) \/ (x = NoBlk /\ i = n /\ b = b0)
    BY <1>2, ConstantsAssumption DEF Holder
  <2>1. \A q \in Proc : blk'[q] \notin used'
    BY <1>0, <1>c, ConstantsAssumption DEF AtMostOne, TypeOK
  <2>2. \A x \in Holder : \A i \in 1 .. NICFREE : \A b \in Block :
          At(x, i, b)' => b \notin used' /\ \A q \in Proc : blk'[q] # b
    BY <1>0, <1>c, <1>d, <2>0, ConstantsAssumption DEF AtMostOne
  <2>3. \A q, r \in Proc : blk'[q] # NoBlk /\ blk'[q] = blk'[r] => q = r
    BY <1>c DEF AtMostOne
  <2>4. \A x, y \in Holder : \A i, j \in 1 .. NICFREE : \A b \in Block :
          At(x, i, b)' /\ At(y, j, b)' => x = y /\ i = j
    BY <1>d, <2>0 DEF AtMostOne
  <2> QED BY <2>1, <2>2, <2>3, <2>4 DEF AtMostOne
<1>6. AtLeastOne'
  <2>0. NoBlk \in Holder /\ Block \subseteq Holder
    BY DEF Holder
  <2>1. ASSUME NEW b \in Block
        PROVE  \/ b \in used' \/ \E q \in Proc : blk'[q] = b
               \/ \E x \in Holder : \E i \in 1 .. NICFREE : At(x, i, b)'
    <3>1. CASE b = b0
      BY <1>2, <1>n, <2>0, <3>1
    <3>2. CASE b # b0
      <4>1. CASE b \in used
        BY <1>0, <3>2, <4>1
      <4>2. ASSUME NEW q \in Proc, blk[q] = b
            PROVE  blk'[q] = b
        BY <1>a, <1>c, <3>2, <4>2
      <4>3. ASSUME NEW x \in Holder, NEW i \in 1 .. NICFREE, At(x, i, b)
            PROVE  At(x, i, b)'
        BY <1>2, <4>3 DEF Holder
      <4> QED BY <4>1, <4>2, <4>3 DEF AtLeastOne
    <3> QED BY <3>1, <3>2
  <2> QED BY <2>1 DEF AtLeastOne
<1>7. NoCycle'
  BY <1>2 DEF NoCycle, Ranked
<1> QED BY <1>3, <1>4, <1>5, <1>6, <1>7

\* the stack of the superblock moves into a block
LEMMA ListTable ==
  ASSUME TypeOK, ListInv, NEW p \in Proc, FreeTable(p)
  PROVE  ListInv'
<1> USE DEF ListInv
<1>b. PICK b0 \in Block : b0 = blk[p] /\ table[b0] = NoTable
  BY DEF FreeTable, TypeOK, Locked, Tables, HolderPCs, LockPCs
<1>0. /\ pc[p] = "spill" /\ pc' = [pc EXCEPT ![p] = "link"]
      /\ table' = [table EXCEPT ![b0] = free]
      /\ free' = << >>
      /\ UNCHANGED <<used, flock, blk>>
  BY <1>b DEF FreeTable, Goto
<1>c. /\ pc'[p] = "link" /\ \A q \in Proc \ {p} : pc'[q] = pc[q]
      /\ table'[b0] = free /\ free # NoTable
      /\ \A b \in Block \ {b0} : table'[b] = table[b]
  BY <1>0, StackIsSeq, ConstantsAssumption DEF TypeOK
<1>d. /\ \A q \in Proc : blk[q] = b0 => q = p
      /\ b0 \notin used
      /\ \A x \in Holder : \A i \in 1 .. NICFREE : ~ At(x, i, b0)
  BY <1>b, ConstantsAssumption DEF AtMostOne
<1>1. /\ StackOf(b0) = << >> /\ StackOf(b0)' = StackOf(NoBlk)
      /\ StackOf(NoBlk)' = << >>
      /\ \A x \in Block \ {b0} : StackOf(x)' = StackOf(x)
  <2>1. ~ Spent(b0)'
    BY <1>0, <1>c, <1>d DEF Spent
  <2>2. \A x \in Block : Spent(x)' <=> Spent(x)
    BY <1>0, <1>c DEF Spent
  <2> QED BY <1>0, <1>b, <1>c, <2>1, <2>2, ConstantsAssumption DEF StackOf
<1>2. /\ \A i, b : ~ At(NoBlk, i, b)' /\ ~ At(b0, i, b)
      /\ \A i, b : At(b0, i, b)' <=> At(NoBlk, i, b)
      /\ \A x \in Block \ {b0} : \A i, b : At(x, i, b)' <=> At(x, i, b)
  BY <1>1, StackEnds DEF At
<1>3. Locked'
  <2>1. \A q \in Proc : pc[q] \in LockPCs <=> pc'[q] \in LockPCs
    BY <1>0, <1>c DEF LockPCs
  <2>2. \A q \in Proc : pc[q] \in HolderPCs <=> pc'[q] \in HolderPCs
    BY <1>0, <1>c DEF LockPCs, HolderPCs
  <2> QED BY <1>0, <2>1, <2>2 DEF Locked
<1>4. Tables'
  <2>1. \A x \in Holder : \/ StackOf(x)' = << >>
                          \/ \E y \in Holder : StackOf(x)' = StackOf(y)
    BY <1>1 DEF Holder
  <2>2. ASSUME NEW y \in Holder, NEW i \in 1 .. Len(StackOf(y)), StackOf(y)[i] \in Block
        PROVE  table'[StackOf(y)[i]] = table[StackOf(y)[i]]
    <3>1. i \in 1 .. NICFREE
      BY StackOfType, ConstantsAssumption
    <3>2. StackOf(y)[i] # b0
      BY <1>d, <3>1 DEF At
    <3> QED BY <1>c, <2>2, <3>2
  <2>3. \A y \in Holder : \A i \in 1 .. Len(StackOf(y)) :
          /\ i > 1 => StackOf(y)[i] \in Block /\ table'[StackOf(y)[i]] = NoTable
          /\ i = 1 => \/ StackOf(y)[1] = End
                      \/ StackOf(y)[1] \in Block /\ table'[StackOf(y)[1]] # NoTable
    BY <2>2 DEF Tables
  <2>4. \A x \in Holder : \A i \in 1 .. Len(StackOf(x)') :
          /\ i > 1 => StackOf(x)'[i] \in Block /\ table'[StackOf(x)'[i]] = NoTable
          /\ i = 1 => \/ StackOf(x)'[1] = End
                      \/ StackOf(x)'[1] \in Block /\ table'[StackOf(x)'[1]] # NoTable
    BY <2>1, <2>3, StackEnds
  <2>5. \A b \in used' : table'[b] = NoTable
    BY <1>0, <1>c, <1>d DEF Tables, TypeOK
  <2>6. \A q \in Proc : pc[q] \in HolderPCs => blk[q] \in Block
    BY DEF Locked, TypeOK
  <2>7. \A q \in Proc \ {p} : pc[q] \in HolderPCs => table'[blk[q]] = table[blk[q]]
    BY <1>c, <1>d, <2>6
  <2>8. \A q \in Proc : pc'[q] \in {"freeWait", "free", "spill"} =>
                           table'[blk'[q]] = NoTable
    BY <1>0, <1>c, <2>7 DEF Tables, HolderPCs, LockPCs
  <2>9. \A q \in Proc : pc'[q] \in {"refill", "link"} => table'[blk'[q]] # NoTable
    BY <1>0, <1>b, <1>c, <2>7 DEF Tables, HolderPCs, LockPCs
  <2> QED BY <2>4, <2>5, <2>8, <2>9 DEF Tables
<1>5. AtMostOne'
  <2>1. \A x \in Holder : \A i, b :
          At(x, i, b)' <=> x # NoBlk /\ At(IF x = b0 THEN NoBlk ELSE x, i, b)
    BY <1>2, ConstantsAssumption DEF Holder
  <2>2. \A x \in Holder : (IF x = b0 THEN NoBlk ELSE x) \in Holder
    BY DEF Holder
  <2> QED BY <1>0, <2>1, <2>2 DEF AtMostOne
<1>6. AtLeastOne'
  <2>1. ASSUME NEW x \in Holder, NEW i, NEW b, At(x, i, b)
        PROVE  \E y \in Holder : At(y, i, b)'
    BY <1>2, <2>1 DEF Holder
  <2> QED BY <1>0, <2>1 DEF AtLeastOne
<1>7. NoCycle'
  <2>1. PICK g \in [Block -> Nat] : Ranked(g)
    BY DEF NoCycle
  <2> DEFINE h == [x \in Block |-> IF x = b0 THEN 0 ELSE g[x] + 1]
  <2>2. h \in [Block -> Nat] /\ h[b0] = 0 /\ \A x \in Block \ {b0} : h[x] = g[x] + 1
    BY <2>1
  <2> HIDE DEF h
  <2>3. ASSUME NEW x \in Block, NEW y \in Block, At(y, 1, x)'
        PROVE  h[y] < h[x]
    <3>0. 1 \in 1 .. NICFREE
      BY ConstantsAssumption
    <3>1. x # b0
      BY <1>2, <1>d, <2>3, <3>0 DEF Holder
    <3>2. CASE y = b0
      BY <2>1, <2>2, <3>1, <3>2
    <3>3. CASE y # b0
      <4>1. g[y] < g[x]
        BY <1>2, <2>1, <2>3, <3>3 DEF Ranked
      <4> QED BY <2>1, <2>2, <3>1, <3>3, <4>1
    <3> QED BY <3>2, <3>3
  <2> QED BY <2>2, <2>3 DEF NoCycle, Ranked
<1> QED BY <1>3, <1>4, <1>5, <1>6, <1>7

\* the block becomes the bottom of the new stack
LEMMA ListLink ==
  ASSUME TypeOK, ListInv, NEW p \in Proc, FreeLink(p)
  PROVE  ListInv'
<1> USE DEF ListInv
<1>b. PICK b0 \in Block : b0 = blk[p] /\ table[b0] # NoTable
  BY DEF FreeLink, TypeOK, Locked, Tables, HolderPCs, LockPCs
<1>0. /\ pc[p] = "link" /\ free = << >> /\ free' = Append(<< >>, b0)
      /\ blk' = [blk EXCEPT ![p] = NoBlk]
      /\ UNCHANGED <<table, used>>
  BY <1>b DEF FreeLink, Locked
<1>c. /\ pc'[p] = "user" /\ ~ flock'
      /\ \A q \in Proc \ {p} : \A l \in HolderPCs \ {"free", "freeWait"} :
           (pc'[q] = l) <=> (pc[q] = l)
      /\ \A q \in Proc \ {p} : (pc'[q] \in HolderPCs) <=> (pc[q] \in HolderPCs)
      /\ \A q \in Proc : pc'[q] \in {"free", "freeWait"} =>
           pc[q] \in {"free", "freeWait"}
      /\ \A q \in Proc : pc'[q] \notin LockPCs
  <2>1. /\ Unlock(p, "user") /\ \A q \in Proc \ {p} : pc[q] \notin LockPCs
    BY <1>0 DEF FreeLink, Locked, LockPCs
  <2> QED BY <1>0, <2>1, UnlockProps DEF PCs, HolderPCs, LockPCs
<1>a. blk'[p] = NoBlk /\ \A q \in Proc \ {p} : blk'[q] = blk[q]
  BY <1>0 DEF TypeOK
<1>d. /\ \A q \in Proc : blk[q] = b0 => q = p
      /\ b0 \notin used
      /\ \A x \in Holder : \A i \in 1 .. NICFREE : ~ At(x, i, b0)
  BY <1>b, ConstantsAssumption DEF AtMostOne
<1>e. Len(free') = 1 /\ free'[1] = b0
  BY <1>0
<1>1. /\ StackOf(NoBlk) = << >> /\ StackOf(NoBlk)' = free'
      /\ \A x \in Block : StackOf(x)' = StackOf(x)
  <2>1. \A x \in Block : Spent(x)' <=> Spent(x)
    BY <1>0, <1>a, <1>c DEF Spent, HolderPCs
  <2> QED BY <1>0, <2>1, ConstantsAssumption DEF StackOf
<1>2. /\ \A i, b : ~ At(NoBlk, i, b)
      /\ \A i, b : At(NoBlk, i, b)' <=> (i = 1 /\ b = b0)
      /\ \A x \in Block : \A i, b : At(x, i, b)' <=> At(x, i, b)
  <2>1. \A i, b : ~ At(NoBlk, i, b)
    BY <1>1, StackEnds DEF At
  <2>2. \A i : i \in 1 .. Len(free') <=> i = 1
    BY <1>e
  <2>3. \A i, b : At(NoBlk, i, b)' <=> (i = 1 /\ b = b0)
    BY <1>1, <1>e, <2>2 DEF At
  <2> QED BY <1>1, <2>1, <2>3 DEF At
<1>3. Locked'
  BY <1>a, <1>c DEF Locked, LockPCs, HolderPCs
<1>4. Tables'
  <2>1. ASSUME NEW x \in Holder, NEW i \in 1 .. Len(StackOf(x)')
        PROVE  /\ i > 1 => StackOf(x)'[i] \in Block /\ table[StackOf(x)'[i]] = NoTable
               /\ i = 1 => \/ StackOf(x)'[1] = End
                           \/ StackOf(x)'[1] \in Block /\ table[StackOf(x)'[1]] # NoTable
    <3>1. CASE x = NoBlk
      <4>1. StackOf(x)' = free' /\ i \in 1 .. Len(free')
        BY <1>1, <3>1
      <4>2. i = 1
        BY <1>e, <4>1
      <4> QED BY <1>b, <1>e, <4>1, <4>2
    <3>2. CASE x \in Block
      BY <1>1, <3>2 DEF Tables
    <3> QED BY <3>1, <3>2 DEF Holder
  <2>2. \A q \in Proc : pc'[q] \notin {"refill", "link", "spill"}
    BY <1>c DEF LockPCs
  <2>3. \A q \in Proc : pc'[q] \in {"freeWait", "free"} => table'[blk'[q]] = NoTable
    BY <1>0, <1>a, <1>c DEF Tables
  <2> QED BY <1>0, <2>1, <2>2, <2>3 DEF Tables
<1>5. AtMostOne'
  <2>0. \A x \in Holder : \A i, b :
          At(x, i, b)' <=> At(x, i, b) \/ (x = NoBlk /\ i = 1 /\ b = b0)
    BY <1>2, ConstantsAssumption DEF Holder
  <2>1. \A q \in Proc : blk'[q] \notin used'
    BY <1>0, <1>a, ConstantsAssumption DEF AtMostOne, TypeOK
  <2>2. \A x \in Holder : \A i \in 1 .. NICFREE : \A b \in Block :
          At(x, i, b)' => b \notin used' /\ \A q \in Proc : blk'[q] # b
    BY <1>0, <1>a, <1>d, <2>0, ConstantsAssumption DEF AtMostOne
  <2>3. \A q, r \in Proc : blk'[q] # NoBlk /\ blk'[q] = blk'[r] => q = r
    BY <1>a DEF AtMostOne
  <2>4. \A x, y \in Holder : \A i, j \in 1 .. NICFREE : \A b \in Block :
          At(x, i, b)' /\ At(y, j, b)' => x = y /\ i = j
    BY <1>d, <2>0 DEF AtMostOne
  <2> QED BY <2>1, <2>2, <2>3, <2>4 DEF AtMostOne
<1>6. AtLeastOne'
  <2>0. NoBlk \in Holder /\ 1 \in 1 .. NICFREE
    BY ConstantsAssumption DEF Holder
  <2>1. ASSUME NEW b \in Block
        PROVE  \/ b \in used' \/ \E q \in Proc : blk'[q] = b
               \/ \E x \in Holder : \E i \in 1 .. NICFREE : At(x, i, b)'
    <3>1. CASE b = b0
      BY <1>2, <2>0, <3>1
    <3>2. CASE b # b0
      BY <1>0, <1>2, <1>a, <1>b, <3>2, ConstantsAssumption DEF AtLeastOne, Holder
    <3> QED BY <3>1, <3>2
  <2> QED BY <2>1 DEF AtLeastOne
<1>7. NoCycle'
  BY <1>2 DEF NoCycle, Ranked
<1> QED BY <1>3, <1>4, <1>5, <1>6, <1>7

----------------------------------------------------------------------------
(* The inductive invariant holds *)

\* all blocks in files, the superblock saved
LEMMA InitInd == ASSUME Init PROVE IndInv
<1>1. TypeOK
  BY StackEnds DEF Init, TypeOK, PCs
<1>2. NoLostWakeup /\ SavedWhenClean
  BY DEF Init, NoLostWakeup, SavedWhenClean, SameList
<1>3. Locked
  BY DEF Init, Locked, LockPCs, HolderPCs
<1>4. /\ StackOf(NoBlk) = <<End>>
      /\ \A x \in Block : StackOf(x) = << >>
  BY ConstantsAssumption DEF Init, StackOf
<1>5. \A x \in Holder : \A i : \A b \in Block : ~ At(x, i, b)
  <2>1. ASSUME NEW i \in 1 .. Len(<<End>>) PROVE <<End>>[i] = End
    <3>1. i = 1
      BY StackEnds
    <3>2. <<End>>[1] = End
      OBVIOUS
    <3> QED BY <3>1, <3>2
  <2>2. \A i : i \notin 1 .. Len(<< >>)
    BY StackEnds
  <2> QED BY <1>4, <2>1, <2>2, ConstantsAssumption DEF At, Holder
<1>6. Tables
  <2>1. ASSUME NEW x \in Holder, NEW i \in 1 .. Len(StackOf(x))
        PROVE  i = 1 /\ StackOf(x)[1] = End
    <3>1. x = NoBlk
      BY <1>4, StackEnds DEF Holder
    <3>2. <<End>>[1] = End
      OBVIOUS
    <3> QED BY <1>4, <3>1, <3>2, StackEnds
  <2>2. /\ \A b \in used : table[b] = NoTable
        /\ \A p \in Proc : pc[p] = "user"
    BY DEF Init
  <2> QED BY <2>1, <2>2 DEF Tables
<1>7. AtMostOne
  BY <1>5, ConstantsAssumption DEF Init, AtMostOne
<1>8. AtLeastOne
  BY DEF Init, AtLeastOne
<1>9. NoCycle
  <2> DEFINE g == [b \in Block |-> 0]
  <2>1. g \in [Block -> Nat]
    OBVIOUS
  <2>2. Ranked(g)
    BY <1>5 DEF Ranked, Holder
  <2> QED BY <2>1, <2>2 DEF NoCycle
<1> QED BY <1>1, <1>2, <1>3, <1>6, <1>7, <1>8, <1>9 DEF IndInv, ListInv

\* One step at a time; block -1 is the end of the list, not of its types.
LEMMA NextInd == ASSUME IndInv, [Next]_vars PROVE IndInv'
<1>1. CASE UNCHANGED vars
  <2>1. UNCHANGED <<free, flock, fmod, table, used, saved, pc, blk, wild, updlock>>
    BY <1>1 DEF vars
  <2>2. TypeOK' /\ NoLostWakeup' /\ SavedWhenClean'
    BY <2>1 DEF IndInv, TypeOK, NoLostWakeup, SavedWhenClean, Changing
  <2>3. ListInv => ListInv'
    BY <2>1, ListQuiet DEF IndInv
  <2> QED BY <2>1, <2>2, <2>3 DEF IndInv
<1>2. ASSUME NEW p \in Proc, Step(p), ~ wild PROVE IndInv'
  <2>1. TypeOK /\ NoLostWakeup /\ SavedWhenClean /\ ListInv
    BY <1>2 DEF IndInv
  <2>2. TypeOK' /\ NoLostWakeup' /\ SavedWhenClean'
    BY <1>2, <2>1, TypeStep, WakeupStep, SavedStep
  <2>3. CASE \/ AllocSleep(p) \/ (AllocUnderflow(p) /\ ~ wild')
             \/ UpdateStart(p) \/ UpdateSkip(p) \/ UpdateCopy(p) \/ UpdateEnd(p)
    <3>1. UNCHANGED <<free, table, used, blk, flock>>
      BY <2>3 DEF AllocSleep, AllocUnderflow, UpdateStart, UpdateSkip, UpdateCopy,
                  UpdateEnd
    <3>2. \A q \in Proc : \A l \in HolderPCs : (pc'[q] = l) <=> (pc[q] = l)
      BY <2>1, <2>3 DEF AllocSleep, AllocUnderflow, UpdateStart, UpdateSkip,
         UpdateCopy, UpdateEnd, InAlloc, Goto, HolderPCs, LockPCs, TypeOK
    <3>3. ListInv'
      BY <2>1, <3>1, <3>2, ListQuiet
    <3> QED BY <2>2, <3>3 DEF IndInv
  <2>4. CASE AllocUnderflow(p) /\ wild'
    BY <2>2, <2>4 DEF IndInv
  <2>5. ASSUME NEW b \in Block, FreeSleep(p, b) \/ FreePush(p, b) \/ FreeSpill(p, b)
        PROVE  IndInv'
    <3>1. ListInv'
      BY <2>1, <2>5, ListTaken, ListPush
    <3> QED BY <2>2, <3>1 DEF IndInv
  <2>6. CASE \/ AllocPop(p) \/ AllocBottom(p) \/ AllocFull(p) \/ AllocRefill(p)
             \/ AllocReturn(p) \/ FreeTable(p) \/ FreeLink(p)
    <3>1. ListInv'
      BY <2>1, <2>6, ListPop, ListBottom, ListFull, ListRefill, ListReturn,
         ListTable, ListLink
    <3> QED BY <2>2, <3>1 DEF IndInv
  <2>7. AllocUnderflow(p) => IndInv'
    BY <2>3, <2>4
  <2> QED BY <1>2, <2>3, <2>5, <2>6, <2>7 DEF Step
<1> QED BY <1>1, <1>2 DEF Next

LEMMA Inductive == Spec => []IndInv
<1> QED BY InitInd, NextInd, PTL DEF Spec

----------------------------------------------------------------------------
(* The theorems *)

\* Type correctness of Alloc, Free and Update.
THEOREM TypeCorrect == Spec => []TypeOK
<1>1. IndInv => TypeOK
  BY DEF IndInv
<1> QED BY <1>1, Inductive, PTL

\* Whoever sleeps on s_flock has a process to wake it.
THEOREM NobodySleepsForEver == Spec => []NoLostWakeup
<1>1. IndInv => NoLostWakeup
  BY DEF IndInv
<1> QED BY <1>1, Inductive, PTL

\* s_fmod covers every change of the stack that Update has not saved.
THEOREM CleanIsSaved == Spec => []SavedWhenClean
<1>1. IndInv => SavedWhenClean
  BY DEF IndInv
<1> QED BY <1>1, Inductive, PTL

\* The groups of Alloc and Free stay chained.
THEOREM GroupsAreChained == Spec => []ChainIntact
<1>1. IndInv => ChainIntact
  <2> SUFFICES ASSUME TypeOK, Tables PROVE ChainIntact
    BY DEF IndInv, ListInv, ChainIntact
  <2>1. \A x \in Holder : DOMAIN StackOf(x) = 1 .. Len(StackOf(x))
    BY StackOfType, StackIsSeq
  <2>2. \A x \in Holder : \A i \in DOMAIN StackOf(x) :
          /\ i > 1 => StackOf(x)[i] # End
          /\ i = 1 => StackOf(x)[1] = End \/ table[StackOf(x)[1]] # NoTable
    BY <2>1, ConstantsAssumption DEF Tables
  <2>3. \A p \in Proc : pc[p] = "refill" => table[blk[p]] # NoTable
    BY DEF Tables
  <2> QED BY <2>2, <2>3 DEF ChainIntact, Holder
<1> QED BY <1>1, Inductive, PTL

\* Every block is in one entry of one stack, with one process or in a file.
THEOREM BlocksHaveOneHome == Spec => []OneHome
<1>1. IndInv => OneHome
  <2> SUFFICES ASSUME TypeOK, AtMostOne, AtLeastOne, NEW b \in Block
               PROVE  \E h \in Homes(b) : Homes(b) = {h}
    BY DEF IndInv, ListInv, OneHome
  <2> DEFINE InStack == {h \in Holder \X (1 .. NICFREE) :
                           h[2] \in DOMAIN StackOf(h[1]) /\ StackOf(h[1])[h[2]] = b}
             InProc  == {<<p>> : p \in {q \in Proc : blk[q] = b}}
             InFile  == IF b \in used THEN {<< >>} ELSE {}
  <2>1. Homes(b) = InStack \cup InProc \cup InFile
    BY DEF Homes, Holder
  <2>2. \A x \in Holder : DOMAIN StackOf(x) = 1 .. Len(StackOf(x))
    BY StackOfType, StackIsSeq
  <2>3. \A h : h \in InStack <=>
          h \in Holder \X (1 .. NICFREE) /\ At(h[1], h[2], b)
    BY <2>2 DEF At
  <2>4. CASE b \in used
    <3>1. InStack = {} /\ InProc = {}
      BY <2>3, <2>4 DEF AtMostOne
    <3> QED BY <2>1, <2>4, <3>1
  <2>5. ASSUME b \notin used, NEW p \in Proc, blk[p] = b
        PROVE  \E h \in Homes(b) : Homes(b) = {h}
    <3>1. InStack = {} /\ InFile = {}
      BY <2>3, <2>5 DEF AtMostOne
    <3>2. {q \in Proc : blk[q] = b} = {p}
      BY <2>5, ConstantsAssumption DEF AtMostOne
    <3>3. Homes(b) = {<<p>>}
      BY <2>1, <3>1, <3>2
    <3> QED BY <3>3
  <2>6. ASSUME b \notin used, NEW x \in Holder, NEW i \in 1 .. NICFREE, At(x, i, b)
        PROVE  \E h \in Homes(b) : Homes(b) = {h}
    <3>1. InProc = {} /\ InFile = {}
      BY <2>6 DEF AtMostOne
    <3>2. \A h \in InStack : h = <<x, i>>
      BY <2>3, <2>6 DEF AtMostOne
    <3>3. <<x, i>> \in InStack
      BY <2>3, <2>6
    <3>4. Homes(b) = {<<x, i>>}
      BY <2>1, <3>1, <3>2, <3>3
    <3> QED BY <3>4
  <2> QED BY <2>4, <2>5, <2>6 DEF AtLeastOne
<1> QED BY <1>1, Inductive, PTL

\* a set of naturals that is not empty has a least element
LEMMA LeastExists ==
  ASSUME NEW S, S \subseteq Nat, S # {}
  PROVE  \E n \in S : \A m \in S : n <= m
<1>1. PICK n \in S : \A m \in S : ~ (<<m, n>> \in OpToRel(<, Nat))
  BY NatLessThanWellFounded, WFMin
<1>2. \A m \in S : ~ (m < n)
  BY <1>1 DEF OpToRel
<1> QED BY <1>2

\* No stack is left when the superblock holds the end mark alone and nobody
\* has locked it: a stack higher up would be at the bottom of another one.
LEMMA NoStackLeft ==
  ASSUME TypeOK, ListInv, free = <<End>>, ~ flock, NEW x \in Holder,
         NEW i \in 1 .. NICFREE, NEW b \in Block
  PROVE  ~ At(x, i, b)
<1> USE DEF ListInv
<1>1. StackOf(NoBlk) = <<End>> /\ Len(<<End>>) = 1 /\ <<End>>[1] = End
  BY StackEnds DEF StackOf
<1>2. \A j : \A c \in Block : ~ At(NoBlk, j, c)
  <2>1. \A j \in 1 .. 1 : j = 1
    OBVIOUS
  <2> QED BY <1>1, <2>1, ConstantsAssumption DEF At
<1>3. ASSUME NEW y \in Block, StackOf(y) # << >>
      PROVE  \E z \in Block : StackOf(z) # << >> /\ At(z, 1, y)
  <2>1. table[y] # NoTable /\ ~ Spent(y)
    BY <1>3, ConstantsAssumption DEF StackOf
  <2>2. y \notin used
    BY <2>1 DEF Tables
  <2>3. \A q \in Proc : blk[q] # y
    BY <2>1, ConstantsAssumption DEF Tables, Locked, HolderPCs, LockPCs, Spent
  <2>4. PICK z \in Holder, j \in 1 .. NICFREE : At(z, j, y)
    BY <2>2, <2>3 DEF AtLeastOne
  <2>5. z \in Block /\ StackOf(z) # << >>
    BY <1>2, <2>4, StackEnds DEF At, Holder
  <2>6. j = 1
    BY <2>1, <2>4 DEF Tables, At
  <2> QED BY <2>4, <2>5, <2>6
<1>4. PICK g \in [Block -> Nat] : Ranked(g)
  BY DEF NoCycle
<1> DEFINE S == {g[y] : y \in {z \in Block : StackOf(z) # << >>}}
<1>5. S = {}
  <2>1. S \subseteq Nat
    OBVIOUS
  <2>2. ASSUME S # {} PROVE FALSE
    <3>1. PICK n \in S : \A m \in S : n <= m
      BY <2>1, <2>2, LeastExists
    <3>2. PICK y \in Block : StackOf(y) # << >> /\ n = g[y]
      BY <3>1
    <3>3. PICK z \in Block : StackOf(z) # << >> /\ At(z, 1, y)
      BY <1>3, <3>2
    <3>4. g[z] < g[y] /\ g[z] \in S /\ g[z] \in Nat /\ g[y] \in Nat
      BY <1>4, <3>2, <3>3 DEF Ranked
    <3>5. n <= g[z] /\ n = g[y]
      BY <3>1, <3>2, <3>4
    <3> HIDE DEF S
    <3> QED BY <3>4, <3>5
  <2> QED BY <2>2
<1>6. \A y \in Block : StackOf(y) = << >>
  BY <1>5
<1> QED BY <1>2, <1>6, StackEnds DEF At, Holder

\* Alloc reports ENOSPC only if no block is free.
THEOREM NoSpaceIsTrue == Spec => FullMeansFull
<1>1. IndInv /\ [Next]_vars =>
        [\A p \in Proc : AllocFull(p) =>
           \A b \in Block : b \in used \/ \E q \in Proc : blk[q] = b]_vars
  <2> SUFFICES ASSUME IndInv, Next, NEW p \in Proc, AllocFull(p), NEW b \in Block
               PROVE  b \in used \/ \E q \in Proc : blk[q] = b
    OBVIOUS
  <2>1. TypeOK /\ ListInv
    BY DEF IndInv, Next
  <2>2. free = <<End>> /\ ~ flock
    BY DEF AllocFull
  <2>3. \A x \in Holder : \A i \in 1 .. NICFREE : ~ At(x, i, b)
    BY <2>1, <2>2, NoStackLeft
  <2> QED BY <2>1, <2>3 DEF ListInv, AtLeastOne
<1> QED BY <1>1, Inductive, PTL DEF Spec, FullMeansFull
=============================================================================
