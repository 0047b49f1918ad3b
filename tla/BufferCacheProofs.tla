------------------------- MODULE BufferCacheProofs -------------------------
(***************************************************************************)
(* The safety properties of BufferCache, proved for every number of        *)
(* processes, buffers and blocks, with and without disk errors.            *)
(***************************************************************************)
EXTENDS BufferCache, TLAPS

----------------------------------------------------------------------------
(* The inductive invariant *)

OwnPCs == {"got", "getra", "gotra", "iowait", "use", "bwait"}
BusyPCs == OwnPCs \cup {"getblk", "awerr"}

\* what each program point says of the local variables of a call
Locals ==
  \A p \in Proc :
    /\ pc[p] \in BusyPCs => req[p].blk \in Block
    /\ pc[p] \in OwnPCs =>
         held[p] \in Buffer /\ bblk[held[p]] = req[p].blk
    /\ pc[p] = "awerr" => held[p] \in Buffer
    /\ pc[p] \in {"getra", "gotra"} => req[p].ra \in Block
    /\ pc[p] = "gotra" =>
         ahead[p] \in Buffer /\ bblk[ahead[p]] = req[p].ra
    /\ pc[p] \in BusyPCs => req[p].op # "sync"
    /\ pc[p] \in {"getra", "gotra", "iowait"} => ~ WholeBlock(p)

Occurs(s, x)  == \E i \in 1 .. Len(s) : s[i] = x
Distinct(s)   == \A i, j \in 1 .. Len(s) : s[i] = s[j] => i = j

\* the flags of a buffer agree with the lists that it is on
FlagsOK(b) ==
  /\ InFree(b) <=> "BUSY" \notin bflags[b]
  /\ Queued(b) => /\ "BUSY" \in bflags[b] /\ "DONE" \notin bflags[b]
                  /\ bblk[b] # NoBlock
  /\ "ASYNC" \in bflags[b] => Queued(b)
  /\ "DONE" \in bflags[b] => bblk[b] # NoBlock
  /\ "DELWRI" \in bflags[b] => "DONE" \in bflags[b]
  /\ "ERROR" \in bflags[b] => bblk[b] \in bad

\* the two lists and the disk
Lists ==
  /\ Distinct(freelist)
  /\ Distinct(ioq)
  /\ active = 1 <=> ioq # << >>
  /\ \A b \in Buffer : FlagsOK(b)

\* where the request of a process can be
Requests ==
  \A p \in Proc :
    /\ pc[p] \in {"got", "use"} => ~ Queued(held[p])
    /\ pc[p] = "gotra" => ~ Queued(ahead[p])
    /\ pc[p] \in {"getra", "gotra", "iowait", "bwait"} =>
         "DONE" \in bflags[held[p]] \/ Queued(held[p])
    /\ pc[p] \in {"getra", "gotra", "iowait"} /\ Queued(held[p]) =>
         "READ" \in bflags[held[p]]
    /\ pc[p] = "bwait" => "READ" \notin bflags[held[p]]
    /\ pc[p] = "use" /\ ~ WholeBlock(p) => "DONE" \in bflags[held[p]]
    /\ pc[p] = "use" /\ uerr[p] => req[p].blk \in bad
    /\ pc[p] \in {"getblk", "got", "getra", "gotra", "iowait"} => ~ uerr[p]

IndInv == /\ TypeOK
          /\ Locals
          /\ Lists
          /\ OneBufferPerBlock
          /\ OneOwner
          /\ Requests
          /\ NoLostWakeup
          /\ NoLostWrite

----------------------------------------------------------------------------
(* Lists *)

\* Taking the i-th element out of a list of distinct elements (NotAvail)
\* removes that element and no other.
LEMMA UnlinkProps ==
  ASSUME NEW S, NEW s \in Seq(S), NEW i \in 1 .. Len(s)
  PROVE  /\ Unlink(s, i) \in Seq(S)
         /\ Distinct(s) =>
              /\ Distinct(Unlink(s, i))
              /\ \A x : Occurs(Unlink(s, i), x) <=> Occurs(s, x) /\ x # s[i]
<1> DEFINE t == Unlink(s, i)
<1>1. /\ Len(s) \in Nat
      /\ \A j \in 1 .. Len(s) : s[j] \in S
  OBVIOUS
<1>2. t \in [1 .. Len(s) - 1 -> S]
  BY <1>1 DEF Unlink
<1>3. t \in Seq(S) /\ Len(t) = Len(s) - 1
  BY <1>1, <1>2
<1>4. \A j \in 1 .. Len(t) : t[j] = IF j < i THEN s[j] ELSE s[j + 1]
  BY <1>3 DEF Unlink
<1> HIDE DEF t
<1>5. ASSUME Distinct(s)
      PROVE  /\ Distinct(t)
             /\ \A x : Occurs(t, x) <=> Occurs(s, x) /\ x # s[i]
  <2>1. Distinct(t)
    BY <1>1, <1>3, <1>4, <1>5 DEF Distinct
  <2>2. ASSUME NEW x, Occurs(t, x)
        PROVE  Occurs(s, x) /\ x # s[i]
    BY <1>1, <1>3, <1>4, <1>5, <2>2 DEF Distinct, Occurs
  <2>3. ASSUME NEW x, Occurs(s, x), x # s[i]
        PROVE  Occurs(t, x)
    <3>1. PICK j \in 1 .. Len(s) : s[j] = x
      BY <2>3 DEF Occurs
    <3>2. CASE j < i
      BY <1>1, <1>3, <1>4, <3>1, <3>2 DEF Occurs
    <3>3. CASE j > i
      <4>1. j - 1 \in 1 .. Len(t) /\ t[j - 1] = x
        BY <1>1, <1>3, <1>4, <3>1, <3>3
      <4> QED BY <4>1 DEF Occurs
    <3> QED BY <2>3, <3>1, <3>2, <3>3
  <2> QED BY <2>1, <2>2, <2>3
<1> QED BY <1>3, <1>5 DEF t

\* Appending a new element to a list of distinct elements (Brelse, Strategy).
LEMMA AppendProps ==
  ASSUME NEW S, NEW s \in Seq(S), NEW y \in S
  PROVE  /\ Append(s, y) \in Seq(S)
         /\ Append(s, y) # << >>
         /\ \A x : Occurs(Append(s, y), x) <=> Occurs(s, x) \/ x = y
         /\ Distinct(s) /\ ~ Occurs(s, y) => Distinct(Append(s, y))
<1> DEFINE t == Append(s, y)
<1>1. /\ t \in Seq(S) /\ Len(s) \in Nat
      /\ Len(t) = Len(s) + 1
      /\ \A j \in 1 .. Len(s) : t[j] = s[j]
      /\ t[Len(s) + 1] = y
  OBVIOUS
<1> HIDE DEF t
<1>2. t # << >>
  BY <1>1
<1>3. \A x : Occurs(t, x) <=> Occurs(s, x) \/ x = y
  BY <1>1 DEF Occurs
<1>4. Distinct(s) /\ ~ Occurs(s, y) => Distinct(t)
  BY <1>1 DEF Occurs, Distinct
<1> QED BY <1>1, <1>2, <1>3, <1>4 DEF t

\* Taking the first element off a list of distinct elements (ATAHandler).
LEMMA TailProps ==
  ASSUME NEW S, NEW s \in Seq(S), s # << >>
  PROVE  /\ Tail(s) \in Seq(S) /\ Head(s) \in S /\ Head(s) = s[1]
         /\ Occurs(s, Head(s))
         /\ Distinct(s) =>
              /\ Distinct(Tail(s))
              /\ \A x : Occurs(Tail(s), x) <=> Occurs(s, x) /\ x # Head(s)
<1> DEFINE t == Tail(s)
<1>1. /\ t \in Seq(S) /\ Len(s) \in Nat /\ Len(s) > 0
      /\ Len(t) = Len(s) - 1
      /\ \A j \in 1 .. Len(t) : t[j] = s[j + 1]
      /\ Head(s) = s[1] /\ Head(s) \in S
  OBVIOUS
<1> HIDE DEF t
<1>2. Occurs(s, Head(s))
  BY <1>1 DEF Occurs
<1>3. ASSUME Distinct(s)
      PROVE  /\ Distinct(t)
             /\ \A x : Occurs(t, x) <=> Occurs(s, x) /\ x # Head(s)
  <2>1. Distinct(t)
    BY <1>1, <1>3 DEF Distinct
  <2>2. ASSUME NEW x, Occurs(t, x)
        PROVE  Occurs(s, x) /\ x # Head(s)
    BY <1>1, <1>3, <2>2 DEF Distinct, Occurs
  <2>3. ASSUME NEW x, Occurs(s, x), x # Head(s)
        PROVE  Occurs(t, x)
    <3>1. PICK j \in 1 .. Len(s) : s[j] = x
      BY <2>3 DEF Occurs
    <3>2. j - 1 \in 1 .. Len(t) /\ t[j - 1] = x
      BY <1>1, <2>3, <3>1
    <3> QED BY <3>2 DEF Occurs
  <2> QED BY <2>1, <2>2, <2>3
<1> QED BY <1>1, <1>2, <1>3 DEF t

----------------------------------------------------------------------------
(* Type correctness *)

\* A request of a call is well typed.
LEMMA PlainType ==
  ASSUME NEW op \in AllOps, NEW k \in Block \cup {NoBlock}
  PROVE  /\ Plain(op, k) \in Request
         /\ \A r \in Block \cup {NoBlock}, parts \in SUBSET Part, v \in Val :
              Asked(op, k, r, parts, v) \in Request
         /\ AnyVal \in Val
<1>1. AnyVal \in Val
  BY ConstantsAssumption DEF AnyVal
<1> QED BY <1>1 DEF Plain, Asked, Request

\* Merging what a process writes into a block gives a block.
LEMMA MergeType ==
  ASSUME NEW d \in Data, NEW parts, NEW v \in Val
  PROVE  Merge(d, parts, v) \in Data
BY DEF Merge, Data

USE DEF NoBuf

\* The assignments of the operators that several actions share.
LEMMA SharedTypes ==
  ASSUME TypeOK
  PROVE  /\ \A b \in Buffer : Strategy(b) => ioq' \in Seq(Buffer) /\ active' \in {0, 1}
         /\ \A b : NotAvail(b) => freelist' \in Seq(Buffer)
         /\ \A b \in Buffer, f \in SUBSET Flags : Brelse(b, f) =>
              /\ bflags' \in [Buffer -> SUBSET Flags]
              /\ freelist' \in Seq(Buffer)
              /\ freeWanted' \in BOOLEAN
              /\ wchan' \in [Proc -> Chan]
         /\ \A p \in Proc, c \in Chan : Sleep(p, c) =>
              /\ wchan' \in [Proc -> Chan]
              /\ cur' \in Proc \cup {Nobody}
         /\ \A p \in Proc, l \in PCs : Continue(p, l) =>
              /\ pc' \in [Proc -> PCs]
              /\ cur' \in Proc \cup {Nobody}
         /\ \A p \in Proc : Return(p) =>
              /\ pc' \in [Proc -> PCs]
              /\ cur' \in Proc \cup {Nobody}
              /\ held' \in [Proc -> Buffer \cup {NoBuf}]
              /\ req' \in [Proc -> Request]
<1> USE DEF TypeOK
<1>1. \A b \in Buffer : Strategy(b) => ioq' \in Seq(Buffer) /\ active' \in {0, 1}
  BY AppendProps DEF Strategy
<1>2. \A b : NotAvail(b) => freelist' \in Seq(Buffer)
  BY UnlinkProps DEF NotAvail
<1>3. ASSUME NEW b \in Buffer, NEW f \in SUBSET Flags, Brelse(b, f)
      PROVE  /\ bflags' \in [Buffer -> SUBSET Flags]
             /\ freelist' \in Seq(Buffer)
             /\ freeWanted' \in BOOLEAN
             /\ wchan' \in [Proc -> Chan]
  BY <1>3, AppendProps DEF Brelse, Woken, Chan
<1>4. \A p \in Proc, c \in Chan : Sleep(p, c) =>
        wchan' \in [Proc -> Chan] /\ cur' \in Proc \cup {Nobody}
  BY DEF Sleep
<1>5. \A p \in Proc, l \in PCs : Continue(p, l) =>
        pc' \in [Proc -> PCs] /\ cur' \in Proc \cup {Nobody}
  BY DEF Continue
<1>6. ASSUME NEW p \in Proc, Return(p)
      PROVE  /\ pc' \in [Proc -> PCs]
             /\ cur' \in Proc \cup {Nobody}
             /\ held' \in [Proc -> Buffer \cup {NoBuf}]
             /\ req' \in [Proc -> Request]
  <2>1. NoRequest \in Request
    BY PlainType DEF NoRequest, AllOps
  <2> QED BY <1>6, <2>1 DEF Return, PCs
<1> QED BY <1>1, <1>2, <1>3, <1>4, <1>5, <1>6

\* What the shared operators do to the free list and to the request queue,
\* as sets.
LEMMA ListEffects ==
  ASSUME TypeOK, Lists
  PROVE  /\ \A b \in Buffer : Strategy(b) /\ ~ Queued(b) =>
              /\ \A c : Queued(c)' <=> Queued(c) \/ c = b
              /\ Distinct(ioq') /\ ioq' # << >> /\ active' = 1
         /\ \A b : NotAvail(b) =>
              /\ InFree(b)
              /\ \A c : InFree(c)' <=> InFree(c) /\ c # b
              /\ Distinct(freelist')
         /\ \A b \in Buffer : \A f : Brelse(b, f) /\ ~ InFree(b) =>
              /\ \A c : InFree(c)' <=> InFree(c) \/ c = b
              /\ Distinct(freelist')
         /\ active = 1 =>
              /\ Head(ioq) \in Buffer
              /\ Queued(Head(ioq))
              /\ Tail(ioq) \in Seq(Buffer)
              /\ \A c : Occurs(Tail(ioq), c) <=> Queued(c) /\ c # Head(ioq)
              /\ Distinct(Tail(ioq))
         /\ ioq' = ioq => \A c : Queued(c)' <=> Queued(c)
         /\ freelist' = freelist => \A c : InFree(c)' <=> InFree(c)
         /\ freelist # << >> => Head(freelist) \in Buffer /\ InFree(Head(freelist))
         /\ freelist = << >> => \A c : ~ InFree(c)
<1>1. /\ freelist \in Seq(Buffer) /\ ioq \in Seq(Buffer)
      /\ Distinct(freelist) /\ Distinct(ioq)
      /\ \A c : InFree(c) <=> Occurs(freelist, c)
      /\ \A c : Queued(c) <=> Occurs(ioq, c)
      /\ active = 1 <=> ioq # << >>
  BY DEF TypeOK, Lists, InFree, Queued, Occurs
<1>2. /\ \A c : InFree(c)' <=> Occurs(freelist', c)
      /\ \A c : Queued(c)' <=> Occurs(ioq', c)
  BY DEF InFree, Queued, Occurs
<1>3. ASSUME NEW b \in Buffer, Strategy(b), ~ Queued(b)
      PROVE  /\ \A c : Queued(c)' <=> Queued(c) \/ c = b
             /\ Distinct(ioq') /\ ioq' # << >> /\ active' = 1
  BY <1>1, <1>2, <1>3, AppendProps DEF Strategy
<1>4. ASSUME NEW b, NotAvail(b)
      PROVE  /\ InFree(b)
             /\ \A c : InFree(c)' <=> InFree(c) /\ c # b
             /\ Distinct(freelist')
  <2>1. PICK i \in 1 .. Len(freelist) :
          freelist[i] = b /\ freelist' = Unlink(freelist, i)
    BY <1>4 DEF NotAvail
  <2>2. InFree(b)
    BY <2>1 DEF InFree
  <2> QED BY <1>1, <1>2, <2>1, <2>2, UnlinkProps
<1>5. ASSUME NEW b \in Buffer, NEW f, Brelse(b, f), ~ InFree(b)
      PROVE  /\ \A c : InFree(c)' <=> InFree(c) \/ c = b
             /\ Distinct(freelist')
  BY <1>1, <1>2, <1>5, AppendProps DEF Brelse
<1>6. ASSUME active = 1
      PROVE  /\ Head(ioq) \in Buffer
             /\ Queued(Head(ioq))
             /\ Tail(ioq) \in Seq(Buffer)
             /\ \A c : Occurs(Tail(ioq), c) <=> Queued(c) /\ c # Head(ioq)
             /\ Distinct(Tail(ioq))
  BY <1>1, <1>6, TailProps
<1>7. ASSUME freelist # << >>
      PROVE  Head(freelist) \in Buffer /\ InFree(Head(freelist))
  BY <1>1, <1>7, TailProps
<1>8. ASSUME freelist = << >>
      PROVE  \A c : ~ InFree(c)
  BY <1>8 DEF InFree
<1> QED BY <1>1, <1>2, <1>3, <1>4, <1>5, <1>6, <1>7, <1>8

\* A step that sleeps, continues or changes flags only keeps every type.
LEMMA TypeStep ==
  ASSUME IndInv, Next
  PROVE  TypeOK'
<1> USE ConstantsAssumption DEF IndInv, TypeOK
<1>1. ASSUME NEW p \in Proc, GetBlkBusy(p)
      PROVE  TypeOK'
  BY <1>1, SharedTypes DEF GetBlkBusy, Chan, Flags, devVars, histVars
<1>2. ASSUME NEW p \in Proc, GetBlkEmpty(p)
      PROVE  TypeOK'
  BY <1>2, SharedTypes DEF GetBlkEmpty, Chan, devVars, histVars
<1>3. ASSUME NEW p \in Proc, GetBlkDelwri(p)
      PROVE  TypeOK'
  BY <1>3, SharedTypes, ListEffects DEF GetBlkDelwri, WriteFlags, Flags, histVars
<1>4. ASSUME NEW p \in Proc, GetBlkMain(p)
      PROVE  TypeOK'
  <2>1. PICK b \in Buffer : GetBlk(req[p].blk, b)
    BY <1>4 DEF GetBlkMain
  <2>2. req[p].blk \in Block \cup {NoBlock}
    BY DEF Request
  <2>3. bflags' \in [Buffer -> SUBSET Flags]
    <3>1. bflags[b] \cup {"BUSY"} \in SUBSET Flags /\ {"BUSY"} \in SUBSET Flags
      BY DEF Flags
    <3>2. \/ bflags' = [bflags EXCEPT ![b] = bflags[b] \cup {"BUSY"}]
          \/ bflags' = [bflags EXCEPT ![b] = {"BUSY"}]
      BY <2>1 DEF GetBlk
    <3> QED BY <3>1, <3>2
  <2>4. bblk' \in [Buffer -> Block \cup {NoBlock}]
    BY <2>1, <2>2 DEF GetBlk
  <2>5. freelist' \in Seq(Buffer)
    BY <2>1, SharedTypes DEF GetBlk
  <2> QED BY <1>4, <2>3, <2>4, <2>5, SharedTypes DEF GetBlkMain, devVars, histVars, PCs
<1>5. ASSUME NEW p \in Proc, GetBlkAhead(p)
      PROVE  TypeOK'
  <2>1. PICK b \in Buffer : GetBlk(req[p].ra, b)
    BY <1>5 DEF GetBlkAhead
  <2>2. req[p].ra \in Block \cup {NoBlock}
    BY DEF Request
  <2>3. bflags' \in [Buffer -> SUBSET Flags]
    <3>1. bflags[b] \cup {"BUSY"} \in SUBSET Flags /\ {"BUSY"} \in SUBSET Flags
      BY DEF Flags
    <3>2. \/ bflags' = [bflags EXCEPT ![b] = bflags[b] \cup {"BUSY"}]
          \/ bflags' = [bflags EXCEPT ![b] = {"BUSY"}]
      BY <2>1 DEF GetBlk
    <3> QED BY <3>1, <3>2
  <2>4. bblk' \in [Buffer -> Block \cup {NoBlock}]
    BY <2>1, <2>2 DEF GetBlk
  <2>5. freelist' \in Seq(Buffer)
    BY <2>1, SharedTypes DEF GetBlk
  <2> QED BY <1>5, <2>3, <2>4, <2>5, SharedTypes DEF GetBlkAhead, devVars, histVars, PCs
<1>6. ASSUME NEW p \in Proc, BreadCached(p)
      PROVE  TypeOK'
  BY <1>6, SharedTypes DEF BreadCached, bufVars, devVars, histVars, PCs
<1>7. ASSUME NEW p \in Proc, BreadStart(p)
      PROVE  TypeOK'
  BY <1>7, SharedTypes DEF BreadStart, Flags, histVars, PCs, Locals, OwnPCs
<1>8. ASSUME NEW p \in Proc, BreadaAhead(p)
      PROVE  TypeOK'
  <2>1. ahead[p] \in Buffer /\ bflags[ahead[p]] \in SUBSET Flags
    BY <1>8, SharedTypes DEF BreadaAhead, Locals
  <2>2. /\ bflags' \in [Buffer -> SUBSET Flags]
        /\ freelist' \in Seq(Buffer) /\ freeWanted' \in BOOLEAN
        /\ wchan' \in [Proc -> Chan]
        /\ ioq' \in Seq(Buffer) /\ active' \in {0, 1}
    <3>1. CASE "DONE" \in bflags[ahead[p]]
      <4>1. Brelse(ahead[p], bflags[ahead[p]]) /\ UNCHANGED <<ioq, active>>
        BY <1>8, <3>1 DEF BreadaAhead
      <4> QED BY <2>1, <4>1, SharedTypes
    <3>2. CASE "DONE" \notin bflags[ahead[p]]
      <4>1. /\ bflags' = [bflags EXCEPT ![ahead[p]] = @ \cup {"READ", "ASYNC"}]
            /\ Strategy(ahead[p])
            /\ UNCHANGED <<freelist, freeWanted, wchan>>
        BY <1>8, <3>2 DEF BreadaAhead
      <4>2. bflags' \in [Buffer -> SUBSET Flags]
        BY <2>1, <4>1 DEF Flags
      <4> QED BY <2>1, <4>1, <4>2, SharedTypes
    <3> QED BY <3>1, <3>2
  <2> QED BY <1>8, <2>2, SharedTypes DEF BreadaAhead, histVars, PCs
<1>9. ASSUME NEW p \in Proc, IOWaitSleep(p)
      PROVE  TypeOK'
  BY <1>9, SharedTypes DEF IOWaitSleep, bufVars, devVars, histVars, Locals, OwnPCs, Chan
<1>10. ASSUME NEW p \in Proc, IOWaitDone(p)
       PROVE  TypeOK'
  BY <1>10, SharedTypes DEF IOWaitDone, GetError, bufVars, devVars, histVars, PCs
<1>11. ASSUME NEW p \in Proc, UseRelease(p)
       PROVE  TypeOK'
  BY <1>11, SharedTypes, MergeType DEF UseRelease, devVars, histVars, Locals, OwnPCs, Request
<1>12. ASSUME NEW p \in Proc, Bdwrite(p)
       PROVE  TypeOK'
  BY <1>12, SharedTypes, MergeType DEF Bdwrite, Modify, Flags, devVars, Locals, OwnPCs,
                          BusyPCs, Request
<1>13. ASSUME NEW p \in Proc, Bawrite(p)
       PROVE  TypeOK'
  BY <1>13, SharedTypes, MergeType DEF Bawrite, Modify, WriteFlags, Flags, Locals, OwnPCs,
                          BusyPCs, Request, PCs
<1>14. ASSUME NEW p \in Proc, BawriteError(p)
       PROVE  TypeOK'
  BY <1>14, SharedTypes DEF BawriteError, GetError, bufVars, devVars, histVars
<1>15. ASSUME NEW p \in Proc, Bwrite(p)
       PROVE  TypeOK'
  BY <1>15, SharedTypes, MergeType DEF Bwrite, Modify, WriteFlags, Flags, Locals, OwnPCs,
                          BusyPCs, Request, PCs
<1>16. ASSUME NEW p \in Proc, BwriteDone(p)
       PROVE  TypeOK'
  BY <1>16, SharedTypes DEF BwriteDone, GetError, devVars, histVars, Locals, OwnPCs
<1>17. ASSUME NEW p \in Proc, BflushNext(p)
       PROVE  TypeOK'
  BY <1>17, SharedTypes, UnlinkProps DEF BflushNext, Delayed, WriteFlags, Flags, histVars
<1>18. ASSUME NEW p \in Proc, BflushDone(p)
       PROVE  TypeOK'
  BY <1>18, SharedTypes DEF BflushDone, bufVars, devVars, histVars
<1>19. ASSUME NEW p \in Proc, Call(p)
       PROVE  TypeOK'
  <2> USE DEF Begin, bufVars, devVars, histVars, PCs, AllOps
  <2>1. CASE ReadI(p)
    BY <2>1, PlainType DEF ReadI
  <2>2. CASE ReadIAhead(p)
    BY <2>2, PlainType DEF ReadIAhead
  <2>3. CASE WriteI(p)
    BY <2>3, PlainType DEF WriteI
  <2>4. CASE IUpdate(p)
    BY <2>4, PlainType DEF IUpdate
  <2>5. CASE Sync(p)
    BY <2>5, PlainType DEF Sync, NoRequest
  <2> QED BY <1>19, <2>1, <2>2, <2>3, <2>4, <2>5 DEF Call
<1>20. CASE ATAHandlerRetry
  BY <1>20, SharedTypes DEF ATAHandlerRetry, bufVars, procVars, histVars
<1>21. ASSUME NEW f \in SUBSET Flags, active = 1, Complete(Head(ioq), f)
       PROVE  /\ ioq' \in Seq(Buffer) /\ active' \in {0, 1}
              /\ errcnt' \in 0 .. MaxRetry
              /\ bflags' \in [Buffer -> SUBSET Flags]
              /\ freelist' \in Seq(Buffer) /\ freeWanted' \in BOOLEAN
              /\ wchan' \in [Proc -> Chan]
  <2>1. Head(ioq) \in Buffer /\ Tail(ioq) \in Seq(Buffer)
    BY <1>21, ListEffects
  <2>2. f \cup {"DONE"} \in SUBSET Flags
    BY DEF Flags
  <2>3. CASE "ASYNC" \in f
    BY <1>21, <2>1, <2>2, <2>3, SharedTypes DEF Complete, IODone
  <2>4. CASE "ASYNC" \notin f
    <3>1. bflags' \in [Buffer -> SUBSET Flags]
      <4>1. (f \cup {"DONE"}) \ {"WANTED"} \in SUBSET Flags
        BY <2>2
      <4>2. bflags' = [bflags EXCEPT ![Head(ioq)] = (f \cup {"DONE"}) \ {"WANTED"}]
        BY <1>21, <2>4 DEF Complete, IODone
      <4> QED BY <2>1, <4>1, <4>2
    <3>2. wchan' \in [Proc -> Chan]
      BY <1>21, <2>4 DEF Complete, IODone, Woken, Chan
    <3> QED BY <1>21, <2>1, <2>4, <3>1, <3>2 DEF Complete, IODone
  <2> QED BY <2>3, <2>4
<1>22. ASSUME active = 1, Transfer(Head(ioq))
       PROVE  disk' \in [Block -> Data] /\ bdata' \in [Buffer -> Data]
  <2>1. Head(ioq) \in Buffer /\ bblk[Head(ioq)] \in Block
    BY <1>22, SharedTypes, ListEffects DEF Lists, FlagsOK
  <2>2. CASE "READ" \in bflags[Head(ioq)]
    BY <1>22, <2>1, <2>2 DEF Transfer
  <2>3. CASE "READ" \notin bflags[Head(ioq)]
    BY <1>22, <2>1, <2>3 DEF Transfer
  <2> QED BY <2>2, <2>3
<1>23. CASE ATAHandlerDone
  <2>1. bflags[Head(ioq)] \in SUBSET Flags
    BY <1>23, SharedTypes, ListEffects DEF ATAHandlerDone
  <2> QED BY <1>21, <1>22, <1>23, <2>1 DEF ATAHandlerDone, histVars
<1>24. CASE ATAHandlerFail
  <2>1. bflags[Head(ioq)] \in SUBSET Flags /\ bblk[Head(ioq)] \in Block
    BY <1>24, SharedTypes, ListEffects DEF ATAHandlerFail, Lists, FlagsOK
  <2>2. bflags[Head(ioq)] \cup {"ERROR"} \in SUBSET Flags
    BY <2>1 DEF Flags
  <2> QED BY <1>21, <1>22, <1>24, <2>1, <2>2 DEF ATAHandlerFail
<1> QED
  BY <1>1, <1>2, <1>3, <1>4, <1>5, <1>6, <1>7, <1>8, <1>9, <1>10, <1>11,
     <1>12, <1>13, <1>14, <1>15, <1>16, <1>17, <1>18, <1>19, <1>20, <1>23,
     <1>24 DEF Next, Step, ATAHandler

----------------------------------------------------------------------------
(* The lists *)

\* What a process owns is busy, on no free list, and not in a transfer that
\* the disk will release.
LEMMA OwnedFacts ==
  ASSUME IndInv, NEW p \in Proc, NEW b \in Buffer, Owns(p, b)
  PROVE  /\ "BUSY" \in bflags[b] /\ "ASYNC" \notin bflags[b]
         /\ ~ InFree(b)
         /\ bblk[b] \in Block
         /\ "DONE" \in bflags[b] => ~ Queued(b)
BY DEF IndInv, OneOwner, Lists, FlagsOK, Locals, Owns, OwnPCs, BusyPCs, TypeOK,
       Request

\* Each step keeps the flags and the lists in agreement.
LEMMA ListsStep ==
  ASSUME IndInv, Next
  PROVE  Lists'
<1> USE DEF IndInv
<1>0. /\ TypeOK /\ Lists /\ ConstantsAssumption
      /\ \A b \in Buffer : FlagsOK(b)
  BY ConstantsAssumption DEF Lists
<1>1. ASSUME UNCHANGED <<bblk, bflags, freelist, ioq, active, bad>>
      PROVE  Lists'
  BY <1>0, <1>1, ListEffects DEF Lists, FlagsOK
\* a buffer of the free list is taken for a delayed write
<1>2. ASSUME NEW b \in Buffer, "DELWRI" \in bflags[b], NotAvail(b), Strategy(b),
             bflags' = [bflags EXCEPT ![b] = WriteFlags(@ \cup {"BUSY", "ASYNC"})],
             UNCHANGED <<bblk, bad>>
      PROVE  Lists'
  <2>1. /\ ~ Queued(b)
        /\ \A c : InFree(c)' <=> InFree(c) /\ c # b
        /\ bblk[b] # NoBlock
    BY <1>0, <1>2, ListEffects DEF FlagsOK
  <2>2. /\ \A c : Queued(c)' <=> Queued(c) \/ c = b
        /\ Distinct(ioq') /\ ioq' # << >> /\ active' = 1
        /\ Distinct(freelist')
    BY <1>0, <1>2, <2>1, ListEffects
  <2>3. \A c \in Buffer : FlagsOK(c)'
    BY <1>0, <1>2, <2>1, <2>2 DEF FlagsOK, WriteFlags, TypeOK
  <2> QED BY <2>2, <2>3 DEF Lists
\* GetBlk returns a buffer
<1>3. ASSUME NEW k \in Block, NEW b \in Buffer, GetBlk(k, b),
             UNCHANGED <<ioq, active, bad>>
      PROVE  Lists'
  <2>1. /\ InFree(b)
        /\ \A c : InFree(c)' <=> InFree(c) /\ c # b
        /\ \A c : Queued(c)' <=> Queued(c)
        /\ Distinct(freelist')
    BY <1>0, <1>3, ListEffects DEF GetBlk
  <2>2. ~ Queued(b)
    BY <1>0, <2>1 DEF FlagsOK
  <2>3. \A c \in Buffer : FlagsOK(c)'
    <3>1. CASE bblk[b] = k
      BY <1>0, <1>3, <2>1, <2>2, <3>1 DEF FlagsOK, GetBlk, TypeOK, InCore
    <3>2. CASE bblk[b] # k
      BY <1>0, <1>3, <2>1, <2>2, <3>2 DEF FlagsOK, GetBlk, TypeOK,
         ConstantsAssumption
    <3> QED BY <3>1, <3>2
  <2> QED BY <1>0, <1>3, <2>1, <2>3 DEF Lists
\* a buffer that a process owns is queued
<1>4. ASSUME NEW p \in Proc, NEW b \in Buffer, Owns(p, b), ~ Queued(b),
             Strategy(b), NEW f, bflags' = [bflags EXCEPT ![b] = f],
             "BUSY" \in f, "DONE" \notin f, "DELWRI" \notin f,
             "ERROR" \notin f \/ "ERROR" \in bflags[b],
             UNCHANGED <<bblk, freelist, bad>>
      PROVE  Lists'
  <2>1. /\ \A c : Queued(c)' <=> Queued(c) \/ c = b
        /\ Distinct(ioq') /\ ioq' # << >> /\ active' = 1
        /\ \A c : InFree(c)' <=> InFree(c)
    BY <1>0, <1>4, ListEffects
  <2>2. \A c \in Buffer : FlagsOK(c)'
    BY <1>0, <1>4, <2>1, OwnedFacts, ConstantsAssumption DEF FlagsOK, TypeOK
  <2> QED BY <1>0, <1>4, <2>1, <2>2 DEF Lists
\* a buffer that a process owns is released
<1>5. ASSUME NEW p \in Proc, NEW b \in Buffer, Owns(p, b), ~ Queued(b),
             NEW f, Brelse(b, f), "DELWRI" \in f => "DONE" \in f,
             "ERROR" \notin f \/ "ERROR" \in bflags[b],
             UNCHANGED <<bblk, ioq, active, bad>>
      PROVE  Lists'
  <2>1. /\ ~ InFree(b)
        /\ bblk[b] \in Block
    BY <1>5, OwnedFacts
  <2>2. /\ \A c : InFree(c)' <=> InFree(c) \/ c = b
        /\ \A c : Queued(c)' <=> Queued(c)
        /\ Distinct(freelist')
    BY <1>0, <1>5, <2>1, ListEffects
  <2>3. bflags' = [bflags EXCEPT ![b] = f \ {"WANTED", "BUSY", "ASYNC"}]
    BY <1>5 DEF Brelse
  <2>4. \A c \in Buffer : FlagsOK(c)'
    BY <1>0, <1>5, <2>1, <2>2, <2>3, ConstantsAssumption DEF FlagsOK, TypeOK
  <2> QED BY <1>0, <1>5, <2>2, <2>4 DEF Lists
\* the disk completes a request
<1>6. ASSUME active = 1, NEW f, Complete(Head(ioq), f), bblk' = bblk,
             bad \subseteq bad',
             f \subseteq bflags[Head(ioq)]
               \/ (f \subseteq bflags[Head(ioq)] \cup {"ERROR"}
                    /\ bblk[Head(ioq)] \in bad'),
             bflags[Head(ioq)] \subseteq f
      PROVE  Lists'
  <2> DEFINE b == Head(ioq)
  <2>1. /\ b \in Buffer /\ Queued(b) /\ ~ InFree(b)
        /\ \A c : Queued(c)' <=> Queued(c) /\ c # b
        /\ Distinct(ioq')
        /\ active' = 1 <=> ioq' # << >>
    <3>1. /\ ioq' = Tail(ioq) /\ active' = IF Tail(ioq) = << >> THEN 0 ELSE 1
          /\ \A c : Queued(c)' <=> Occurs(ioq', c)
      BY <1>6 DEF Complete, Queued, Occurs
    <3>2. b \in Buffer /\ Queued(b) /\ Distinct(Tail(ioq))
      BY <1>0, <1>6, ListEffects
    <3>3. \A c : Occurs(Tail(ioq), c) <=> Queued(c) /\ c # b
      BY <1>0, <1>6, ListEffects
    <3> HIDE DEF b
    <3>4. ~ InFree(b)
      BY <1>0, <3>2 DEF FlagsOK
    <3> QED BY <3>1, <3>2, <3>3, <3>4
  <2> HIDE DEF b
  <2>2. CASE "ASYNC" \in f
    <3>1. Brelse(b, f \cup {"DONE"})
      BY <1>6, <2>2 DEF Complete, IODone, b
    <3>2. /\ \A c : InFree(c)' <=> InFree(c) \/ c = b
          /\ Distinct(freelist')
      BY <1>0, <2>1, <3>1, ListEffects
    <3>3. bflags' = [bflags EXCEPT
                       ![b] = (f \cup {"DONE"}) \ {"WANTED", "BUSY", "ASYNC"}]
      BY <3>1 DEF Brelse
    <3>4. \A c \in Buffer : FlagsOK(c)'
      BY <1>0, <1>6, <2>1, <3>2, <3>3 DEF FlagsOK, TypeOK, b
    <3> QED BY <2>1, <3>2, <3>4 DEF Lists
  <2>3. CASE "ASYNC" \notin f
    <3>1. /\ bflags' = [bflags EXCEPT ![b] = (f \cup {"DONE"}) \ {"WANTED"}]
          /\ freelist' = freelist
      BY <1>6, <2>3 DEF Complete, IODone, b
    <3>2. \A c : InFree(c)' <=> InFree(c)
      BY <1>0, <3>1, ListEffects
    <3>3. \A c \in Buffer : FlagsOK(c)'
      BY <1>0, <1>6, <2>1, <2>3, <3>1, <3>2 DEF FlagsOK, TypeOK, b
    <3> QED BY <1>0, <2>1, <3>1, <3>3 DEF Lists
  <2> QED BY <2>2, <2>3

<1>7. ASSUME NEW p \in Proc, Step(p)
      PROVE  Lists'
  <2>1. ASSUME pc[p] \in OwnPCs
        PROVE  held[p] \in Buffer /\ Owns(p, held[p])
    BY <2>1 DEF Locals, Owns, OwnPCs
  <2>2. CASE GetBlkBusy(p)
    <3>1. PICK b \in Buffer : /\ "BUSY" \in bflags[b]
                              /\ bflags' = [bflags EXCEPT ![b] = @ \cup {"WANTED"}]
      BY <2>2 DEF GetBlkBusy
    <3>2. UNCHANGED <<bblk, freelist, ioq, active, bad>>
      BY <2>2 DEF GetBlkBusy, devVars, histVars
    <3>3. \A c \in Buffer : FlagsOK(c)'
      BY <1>0, <3>1, <3>2, ListEffects DEF FlagsOK, TypeOK
    <3> QED BY <1>0, <3>2, <3>3 DEF Lists
  <2>3. CASE GetBlkDelwri(p)
    <3>1. PICK b \in Buffer :
            /\ "DELWRI" \in bflags[b] /\ NotAvail(b) /\ Strategy(b)
            /\ bflags' = [bflags EXCEPT ![b] = WriteFlags(@ \cup {"BUSY", "ASYNC"})]
      BY <1>0, <2>3, ListEffects DEF GetBlkDelwri
    <3> QED BY <1>2, <2>3, <3>1 DEF GetBlkDelwri, histVars
  <2>4. CASE BflushNext(p)
    <3>1. PICK i \in Delayed :
            /\ freelist' = Unlink(freelist, i)
            /\ bflags' = [bflags EXCEPT ![freelist[i]] =
                            WriteFlags(@ \cup {"BUSY", "ASYNC"})]
            /\ Strategy(freelist[i])
      BY <2>4 DEF BflushNext
    <3>2. /\ freelist[i] \in Buffer /\ NotAvail(freelist[i])
          /\ "DELWRI" \in bflags[freelist[i]]
      BY <1>0, <3>1 DEF NotAvail, Delayed, TypeOK
    <3> QED BY <1>2, <2>4, <3>1, <3>2 DEF BflushNext, histVars
  <2>5. CASE GetBlkMain(p)
    <3>1. req[p].blk \in Block
      BY <2>5 DEF GetBlkMain, Locals, BusyPCs
    <3> QED BY <1>3, <2>5, <3>1 DEF GetBlkMain, devVars, histVars
  <2>6. CASE GetBlkAhead(p)
    <3>1. req[p].ra \in Block
      BY <2>6 DEF GetBlkAhead, Locals
    <3> QED BY <1>3, <2>6, <3>1 DEF GetBlkAhead, devVars, histVars
  <2>7. CASE BreadStart(p)
    <3> DEFINE b == held[p]
               f == bflags[b] \cup {"READ"}
    <3>1. b \in Buffer /\ Owns(p, b) /\ ~ Queued(b)
      BY <2>1, <2>7 DEF BreadStart, OwnPCs, Requests
    <3>2. "BUSY" \in f /\ "DONE" \notin f /\ "DELWRI" \notin f
      BY <1>0, <2>7, <3>1, OwnedFacts DEF BreadStart, FlagsOK
    <3>3. /\ "ERROR" \notin f \/ "ERROR" \in bflags[b]
          /\ Strategy(b) /\ bflags' = [bflags EXCEPT ![b] = f]
          /\ UNCHANGED <<bblk, freelist, bad>>
      BY <2>7 DEF BreadStart, histVars
    <3> HIDE DEF b, f
    <3> QED BY <1>4, <3>1, <3>2, <3>3
  <2>8. CASE BreadaAhead(p)
    <3> DEFINE b == ahead[p]
               f == bflags[b] \cup {"READ", "ASYNC"}
    <3>1. b \in Buffer /\ Owns(p, b) /\ ~ Queued(b)
      BY <2>8 DEF BreadaAhead, Requests, Locals, Owns
    <3>2. UNCHANGED <<bblk, bad>>
      BY <2>8 DEF BreadaAhead, histVars
    <3>3. CASE "DONE" \in bflags[b]
      <4>1. Brelse(b, bflags[b]) /\ UNCHANGED <<ioq, active>>
        BY <2>8, <3>3 DEF BreadaAhead
      <4>2. "DELWRI" \in bflags[b] => "DONE" \in bflags[b]
        BY <3>3
      <4> HIDE DEF b
      <4> QED BY <1>5, <3>1, <3>2, <4>1, <4>2
    <3>4. CASE "DONE" \notin bflags[b]
      <4>1. "BUSY" \in f /\ "DONE" \notin f /\ "DELWRI" \notin f
        BY <1>0, <3>1, <3>4, OwnedFacts DEF FlagsOK
      <4>2. /\ "ERROR" \notin f \/ "ERROR" \in bflags[b]
            /\ Strategy(b) /\ bflags' = [bflags EXCEPT ![b] = f]
            /\ freelist' = freelist
        BY <2>8, <3>4 DEF BreadaAhead
      <4> HIDE DEF b, f
      <4> QED BY <1>4, <3>1, <3>2, <4>1, <4>2
    <3> QED BY <3>3, <3>4
  <2>9. CASE UseRelease(p) \/ Bdwrite(p) \/ BwriteDone(p)
    <3> DEFINE b == held[p]
    <3>1. b \in Buffer /\ Owns(p, b)
      BY <2>1, <2>9 DEF UseRelease, Bdwrite, BwriteDone, OwnPCs
    <3>2. ~ Queued(b)
      BY <2>9, <3>1, OwnedFacts DEF UseRelease, Bdwrite, BwriteDone, Requests
    <3>3. UNCHANGED <<bblk, ioq, active, bad>>
      BY <2>9 DEF UseRelease, Bdwrite, BwriteDone, Modify, devVars, histVars
    <3>4. PICK f : /\ Brelse(b, f) /\ ("DELWRI" \in f => "DONE" \in f)
                   /\ ("ERROR" \notin f \/ "ERROR" \in bflags[b])
      <4>1. CASE UseRelease(p) \/ BwriteDone(p)
        <5>1. "DELWRI" \in bflags[b] => "DONE" \in bflags[b]
          BY <1>0, <3>1 DEF FlagsOK
        <5>2. Brelse(b, bflags[b])
          BY <4>1 DEF UseRelease, BwriteDone
        <5> QED BY <5>1, <5>2
      <4>2. CASE Bdwrite(p)
        <5>1. Brelse(b, bflags[b] \cup {"DELWRI", "DONE"})
          BY <4>2 DEF Bdwrite
        <5> QED BY <5>1
      <4> QED BY <2>9, <4>1, <4>2
    <3> HIDE DEF b
    <3> QED BY <1>5, <3>1, <3>2, <3>3, <3>4
  <2>10. CASE Bawrite(p) \/ Bwrite(p)
    <3> DEFINE b == held[p]
    <3>1. b \in Buffer /\ Owns(p, b) /\ ~ Queued(b)
      BY <2>1, <2>10 DEF Bawrite, Bwrite, OwnPCs, Requests
    <3>2. /\ Strategy(b) /\ UNCHANGED <<bblk, freelist, bad>>
      BY <2>10 DEF Bawrite, Bwrite, Modify
    <3>3. PICK f : /\ bflags' = [bflags EXCEPT ![b] = f]
                   /\ f = WriteFlags(bflags[b] \cup {"ASYNC"}) \/ f = WriteFlags(bflags[b])
      BY <2>10 DEF Bawrite, Bwrite
    <3>4. "BUSY" \in f /\ "DONE" \notin f /\ "DELWRI" \notin f /\ "ERROR" \notin f
      BY <3>1, <3>3, OwnedFacts DEF WriteFlags
    <3> HIDE DEF b
    <3> QED BY <1>4, <3>1, <3>2, <3>3, <3>4
  <2>11. CASE \/ GetBlkEmpty(p) \/ BreadCached(p) \/ IOWaitSleep(p)
              \/ IOWaitDone(p) \/ BawriteError(p) \/ BflushDone(p)
    <3>1. UNCHANGED <<bblk, bflags, freelist, ioq, active, bad>>
      BY <2>11 DEF GetBlkEmpty, BreadCached, IOWaitSleep, IOWaitDone,
                   BawriteError, BflushDone, bufVars, devVars, histVars
    <3> QED BY <1>1, <3>1
  <2> QED BY <1>7, <2>2, <2>3, <2>4, <2>5, <2>6, <2>7, <2>8, <2>9, <2>10,
             <2>11 DEF Step
<1>8. ASSUME NEW p \in Proc, Call(p)
      PROVE  Lists'
  <2>1. UNCHANGED <<bblk, bflags, freelist, ioq, active, bad>>
    BY <1>8 DEF Call, ReadI, ReadIAhead, WriteI, IUpdate, Sync, Begin, bufVars,
                devVars, histVars
  <2> QED BY <1>1, <2>1
<1>9. CASE ATAHandlerDone
  BY <1>6, <1>9 DEF ATAHandlerDone, histVars
<1>10. CASE ATAHandlerRetry
  BY <1>1, <1>10 DEF ATAHandlerRetry, bufVars, histVars
<1>11. CASE ATAHandlerFail
  BY <1>6, <1>11 DEF ATAHandlerFail
<1> QED BY <1>7, <1>8, <1>9, <1>10, <1>11 DEF Next, ATAHandler

----------------------------------------------------------------------------
(* The processes *)

\* A step of a process leaves the local variables of the others alone.
LEMMA OthersKept ==
  ASSUME IndInv, NEW p \in Proc, Step(p) \/ Call(p)
  PROVE  \A q \in Proc \ {p} :
           /\ pc'[q] = pc[q] /\ req'[q] = req[q] /\ held'[q] = held[q]
           /\ ahead'[q] = ahead[q] /\ uerr'[q] = uerr[q]
           /\ \A c : Owns(q, c)' <=> Owns(q, c)
           /\ WholeBlock(q)' <=> WholeBlock(q)
<1> SUFFICES ASSUME NEW q \in Proc, q # p
             PROVE  /\ pc'[q] = pc[q] /\ req'[q] = req[q] /\ held'[q] = held[q]
                    /\ ahead'[q] = ahead[q] /\ uerr'[q] = uerr[q]
  BY DEF Owns, WholeBlock
<1> USE DEF IndInv, TypeOK, histVars
<1>1. CASE \/ GetBlkBusy(p) \/ GetBlkEmpty(p) \/ GetBlkDelwri(p)
           \/ GetBlkMain(p) \/ GetBlkAhead(p)
  BY <1>1 DEF GetBlkBusy, GetBlkEmpty, GetBlkDelwri, GetBlkMain, GetBlkAhead,
              Continue
<1>2. CASE \/ BreadCached(p) \/ BreadStart(p) \/ BreadaAhead(p)
           \/ IOWaitSleep(p) \/ IOWaitDone(p)
  BY <1>2 DEF BreadCached, BreadStart, BreadaAhead, IOWaitSleep, IOWaitDone,
              Continue, GetError
<1>3. CASE UseRelease(p) \/ Bdwrite(p) \/ Bawrite(p) \/ BawriteError(p)
  BY <1>3 DEF UseRelease, Bdwrite, Bawrite, BawriteError, Return, Continue,
              GetError
<1>4. CASE Bwrite(p) \/ BwriteDone(p) \/ BflushNext(p) \/ BflushDone(p)
  BY <1>4 DEF Bwrite, BwriteDone, BflushNext, BflushDone, Return, Continue,
              GetError
<1>5. CASE Call(p)
  BY <1>5 DEF Call, ReadI, ReadIAhead, WriteI, IUpdate, Sync, Begin
<1> QED BY <1>1, <1>2, <1>3, <1>4, <1>5 DEF Step

\* A step gives a buffer another block only if the buffer was free, and only
\* a block that was not cached.
LEMMA BlocksKept ==
  ASSUME IndInv, Next
  PROVE  \/ bblk' = bblk
         \/ \E b \in Buffer, k \in Block :
              InFree(b) /\ ~ InCore(k) /\ bblk' = [bblk EXCEPT ![b] = k]
<1> USE DEF IndInv
<1>1. ASSUME NEW k \in Block, NEW b \in Buffer, GetBlk(k, b)
      PROVE  \/ bblk' = bblk
             \/ InFree(b) /\ ~ InCore(k) /\ bblk' = [bblk EXCEPT ![b] = k]
  BY <1>1, ListEffects DEF GetBlk
<1>2. ASSUME NEW p \in Proc, GetBlkMain(p)
      PROVE  \E b \in Buffer, k \in Block : GetBlk(k, b)
  BY <1>2 DEF GetBlkMain, Locals, BusyPCs
<1>3. ASSUME NEW p \in Proc, GetBlkAhead(p)
      PROVE  \E b \in Buffer, k \in Block : GetBlk(k, b)
  BY <1>3 DEF GetBlkAhead, Locals
<1>4. ASSUME NEW p \in Proc, Step(p) \/ Call(p), ~ GetBlkMain(p), ~ GetBlkAhead(p)
      PROVE  bblk' = bblk
  BY <1>4 DEF Step, Call, GetBlkBusy, GetBlkEmpty, GetBlkDelwri, BreadCached,
     BreadStart, BreadaAhead, IOWaitSleep, IOWaitDone, UseRelease, Bdwrite,
     Bawrite, BawriteError, Bwrite, BwriteDone, BflushNext, BflushDone, ReadI,
     ReadIAhead, WriteI, IUpdate, Sync, Begin, bufVars
<1>5. ASSUME ATAHandler
      PROVE  bblk' = bblk
  BY <1>5 DEF ATAHandler, ATAHandlerDone, ATAHandlerRetry, ATAHandlerFail, bufVars
<1> QED BY <1>1, <1>2, <1>3, <1>4, <1>5 DEF Next

\* GetBlk never caches a block twice.
LEMMA OneBufferStep ==
  ASSUME IndInv, Next
  PROVE  OneBufferPerBlock'
<1>1. TypeOK /\ OneBufferPerBlock
  BY DEF IndInv
<1>2. CASE bblk' = bblk
  BY <1>1, <1>2 DEF OneBufferPerBlock
<1>3. ASSUME NEW b \in Buffer, NEW k \in Block,
             ~ InCore(k) /\ bblk' = [bblk EXCEPT ![b] = k]
      PROVE  OneBufferPerBlock'
  BY <1>1, <1>3 DEF OneBufferPerBlock, InCore, TypeOK
<1> QED BY <1>2, <1>3, BlocksKept

\* A buffer that a process owns keeps its block.
LEMMA OwnedBlockKept ==
  ASSUME IndInv, Next, NEW p \in Proc, NEW b \in Buffer, Owns(p, b)
  PROVE  bblk'[b] = bblk[b]
<1>1. ~ InFree(b)
  BY OwnedFacts
<1>2. bblk \in [Buffer -> Block \cup {NoBlock}]
  BY DEF IndInv, TypeOK
<1> QED BY <1>1, <1>2, BlocksKept

\* What Locals says of a process.
LocalsOf(p) ==
    /\ pc[p] \in BusyPCs => req[p].blk \in Block /\ req[p].op # "sync"
    /\ pc[p] \in OwnPCs =>
         held[p] \in Buffer /\ bblk[held[p]] = req[p].blk
    /\ pc[p] = "awerr" => held[p] \in Buffer
    /\ pc[p] \in {"getra", "gotra"} => req[p].ra \in Block
    /\ pc[p] = "gotra" =>
         ahead[p] \in Buffer /\ bblk[ahead[p]] = req[p].ra
    /\ pc[p] \in {"getra", "gotra", "iowait"} => ~ WholeBlock(p)

\* Each step keeps the local variables of each process meaningful.
LEMMA LocalsStep ==
  ASSUME IndInv, Next
  PROVE  Locals'
<1> USE DEF IndInv
<1>0. /\ TypeOK /\ \A q \in Proc : LocalsOf(q)
      /\ (\A q \in Proc : LocalsOf(q)') => Locals'
      /\ \A q \in Proc : req[q].ra \in Block \cup {NoBlock}
  BY DEF Locals, LocalsOf, TypeOK, Request
<1>1. ASSUME NEW q \in Proc, pc'[q] = pc[q], req'[q] = req[q],
             held'[q] = held[q], ahead'[q] = ahead[q]
      PROVE  LocalsOf(q)'
  <2>1. /\ pc[q] \in OwnPCs => bblk'[held[q]] = bblk[held[q]]
        /\ pc[q] = "gotra" => bblk'[ahead[q]] = bblk[ahead[q]]
    BY <1>0, OwnedBlockKept DEF LocalsOf, Owns, OwnPCs
  <2> QED BY <1>0, <1>1, <2>1 DEF LocalsOf, WholeBlock
<1>2. ASSUME NEW p \in Proc, Step(p)
      PROVE  LocalsOf(p)'
  <2>1. /\ pc[p] \in OwnPCs =>
             held[p] \in Buffer /\ bblk'[held[p]] = req[p].blk
        /\ LocalsOf(p)
    BY <1>0, OwnedBlockKept DEF LocalsOf, Owns, OwnPCs
  <2> USE DEF TypeOK, histVars
  <2>2. CASE \/ GetBlkBusy(p) \/ GetBlkEmpty(p) \/ GetBlkDelwri(p)
             \/ IOWaitSleep(p) \/ BflushNext(p)
    <3>1. pc'[p] = pc[p] /\ req'[p] = req[p] /\ held'[p] = held[p] /\ ahead'[p] = ahead[p]
      BY <2>2 DEF GetBlkBusy, GetBlkEmpty, GetBlkDelwri, IOWaitSleep, BflushNext
    <3> QED BY <1>1, <3>1
  <2>3. CASE GetBlkMain(p)
    <3>1. PICK b \in Buffer : GetBlk(req[p].blk, b) /\ held'[p] = b
      BY <2>3 DEF GetBlkMain
    <3>2. bblk'[b] = req[p].blk
      BY <3>1 DEF GetBlk
    <3>3. pc[p] = "getblk" /\ pc'[p] = "got" /\ req'[p] = req[p]
      BY <2>3 DEF GetBlkMain, Continue
    <3> QED BY <2>1, <3>1, <3>2, <3>3 DEF LocalsOf, BusyPCs, OwnPCs
  <2>4. CASE GetBlkAhead(p)
    <3>1. PICK b \in Buffer : GetBlk(req[p].ra, b) /\ ahead'[p] = b
      BY <2>4 DEF GetBlkAhead
    <3>2. bblk'[b] = req[p].ra
      BY <3>1 DEF GetBlk
    <3>3. /\ pc[p] = "getra" /\ pc'[p] = "gotra" /\ req'[p] = req[p]
          /\ held'[p] = held[p]
      BY <2>4 DEF GetBlkAhead, Continue
    <3> QED BY <2>1, <3>1, <3>2, <3>3 DEF LocalsOf, BusyPCs, OwnPCs, WholeBlock
  <2>5. CASE BreadCached(p) \/ BreadStart(p)
    <3>1. /\ pc[p] = "got" /\ req'[p] = req[p] /\ held'[p] = held[p]
          /\ \/ pc'[p] = "use"
             \/ /\ pc'[p] \in {"getra", "iowait"} /\ ~ WholeBlock(p)
                /\ pc'[p] = "getra" => req[p].ra # NoBlock
      BY <2>5 DEF BreadCached, BreadStart, Continue, ReadsAhead, WholeBlock
    <3> QED BY <1>0, <2>1, <3>1 DEF LocalsOf, BusyPCs, OwnPCs, WholeBlock
  <2>6. CASE BreadaAhead(p)
    <3>1. /\ pc[p] = "gotra" /\ req'[p] = req[p] /\ held'[p] = held[p]
          /\ pc'[p] = "iowait"
      BY <2>6 DEF BreadaAhead, Continue
    <3> QED BY <2>1, <3>1 DEF LocalsOf, BusyPCs, OwnPCs, WholeBlock
  <2>7. CASE IOWaitDone(p) \/ Bwrite(p)
    <3>1. /\ pc[p] \in {"iowait", "use"} /\ req'[p] = req[p] /\ held'[p] = held[p]
          /\ pc'[p] \in {"use", "bwait"}
      BY <2>7 DEF IOWaitDone, Bwrite, Continue
    <3> QED BY <2>1, <3>1 DEF LocalsOf, BusyPCs, OwnPCs, WholeBlock
  <2>8. CASE Bawrite(p)
    <3>1. /\ pc[p] = "use"
          /\ \/ pc'[p] = "user"
             \/ pc'[p] = "awerr" /\ req'[p] = req[p] /\ held'[p] = held[p]
      BY <2>8 DEF Bawrite, Continue, Return
    <3> QED BY <2>1, <3>1 DEF LocalsOf, BusyPCs, OwnPCs
  <2>9. CASE \/ UseRelease(p) \/ Bdwrite(p) \/ BawriteError(p)
             \/ BwriteDone(p) \/ BflushDone(p)
    <3>1. pc'[p] = "user"
      BY <2>9 DEF UseRelease, Bdwrite, BawriteError, BwriteDone, BflushDone, Return
    <3> QED BY <3>1 DEF LocalsOf, BusyPCs, OwnPCs
  <2> QED BY <1>2, <2>2, <2>3, <2>4, <2>5, <2>6, <2>7, <2>8, <2>9 DEF Step
<1>3. ASSUME NEW p \in Proc, Call(p)
      PROVE  LocalsOf(p)'
  <2>1. \/ pc'[p] = "flush"
        \/ pc'[p] = "getblk" /\ req'[p].blk \in Block /\ req'[p].op # "sync"
    <3> USE DEF TypeOK, Plain, Asked
    <3>1. CASE ReadI(p)
      BY <3>1 DEF ReadI
    <3>2. CASE ReadIAhead(p)
      BY <3>2 DEF ReadIAhead
    <3>3. CASE WriteI(p)
      BY <3>3, ConstantsAssumption DEF WriteI
    <3>4. CASE IUpdate(p)
      BY <3>4, ConstantsAssumption DEF IUpdate
    <3>5. CASE Sync(p)
      BY <3>5 DEF Sync
    <3> QED BY <1>3, <3>1, <3>2, <3>3, <3>4, <3>5 DEF Call
  <2> QED BY <2>1 DEF LocalsOf, BusyPCs, OwnPCs
<1>4. CASE ATAHandler
  <2>1. UNCHANGED <<pc, req, held, ahead>>
    BY <1>4 DEF ATAHandler, ATAHandlerDone, ATAHandlerRetry, ATAHandlerFail, procVars
  <2> QED BY <1>0, <1>1, <2>1
<1>5. ASSUME NEW p \in Proc, Step(p) \/ Call(p)
      PROVE  Locals'
  <2>1. \A q \in Proc \ {p} : LocalsOf(q)'
    BY <1>1, <1>5, OthersKept
  <2> QED BY <1>0, <1>2, <1>3, <1>5, <2>1
<1> QED BY <1>4, <1>5 DEF Next

----------------------------------------------------------------------------
(* What a step does to the buffers *)

\* c is queued after the step.
QueuedNext(c) == \E i \in 1 .. Len(ioq') : ioq'[i] = c

\* The step does nothing to c, but for B_WANTED.
Same(c) == /\ \A f : f # "WANTED" => (f \in bflags'[c] <=> f \in bflags[c])
           /\ "WANTED" \in bflags[c] => "WANTED" \in bflags'[c]
           /\ QueuedNext(c) <=> Queued(c)
           /\ bblk'[c] = bblk[c] /\ bdata'[c] = bdata[c]

OnlyAt(b) == \A c \in Buffer : c # b => Same(c)

\* A delayed write is taken off the free list and queued.
Flushed(b) ==
  /\ InFree(b) /\ "DELWRI" \in bflags[b] /\ OnlyAt(b)
  /\ bflags'[b] = WriteFlags(bflags[b] \cup {"BUSY", "ASYNC"})
  /\ QueuedNext(b) /\ bblk'[b] = bblk[b] /\ bdata'[b] = bdata[b]

\* GetBlk(k) returns b.
Got(k, b) ==
  /\ InFree(b) /\ OnlyAt(b) /\ ~ Queued(b) /\ ~ QueuedNext(b)
  /\ bblk'[b] = k /\ bdata'[b] = bdata[b]
  /\ \/ bblk[b] = k /\ bflags'[b] = bflags[b] \cup {"BUSY"}
     \/ ~ InCore(k) /\ "DELWRI" \notin bflags[b] /\ bflags'[b] = {"BUSY"}

\* A buffer that is not queued is handed to the disk with the flags f.
Started(b, f) ==
  /\ OnlyAt(b) /\ ~ Queued(b) /\ QueuedNext(b)
  /\ bflags'[b] = f /\ bblk'[b] = bblk[b]

\* A buffer that is not queued is released with the flags f.
Released(b, f) ==
  /\ OnlyAt(b) /\ ~ Queued(b) /\ ~ QueuedNext(b)
  /\ bflags'[b] = f \ {"WANTED", "BUSY", "ASYNC"} /\ bblk'[b] = bblk[b]

\* The disk is done with the buffer.
Completed(b, f) ==
  /\ OnlyAt(b) /\ Queued(b) /\ ~ QueuedNext(b) /\ bblk'[b] = bblk[b]
  /\ \/ /\ "ASYNC" \in f
        /\ bflags'[b] = (f \cup {"DONE"}) \ {"WANTED", "BUSY", "ASYNC"}
     \/ /\ "ASYNC" \notin f
        /\ bflags'[b] = (f \cup {"DONE"}) \ {"WANTED"}

\* The effects of the operators that several actions share.
LEMMA SharedEffects ==
  ASSUME IndInv
  PROVE  /\ UNCHANGED <<bblk, bflags, bdata, ioq>> => \A c \in Buffer : Same(c)
         /\ \A b \in Buffer :
              (/\ "DELWRI" \in bflags[b] /\ NotAvail(b) /\ Strategy(b)
               /\ bflags' = [bflags EXCEPT ![b] = WriteFlags(@ \cup {"BUSY", "ASYNC"})]
               /\ UNCHANGED <<bblk, bdata>>)
              => Flushed(b)
         /\ \A b \in Buffer : \A k :
              GetBlk(k, b) /\ UNCHANGED <<bdata, ioq>> => Got(k, b)
         /\ \A b \in Buffer : \A f :
              (/\ ~ Queued(b) /\ Strategy(b) /\ bblk' = bblk
               /\ bflags' = [bflags EXCEPT ![b] = f]
               /\ \A c \in Buffer : c # b => bdata'[c] = bdata[c])
              => Started(b, f)
         /\ \A b \in Buffer : \A f :
              (/\ ~ Queued(b) /\ Brelse(b, f) /\ UNCHANGED <<bblk, ioq>>
               /\ \A c \in Buffer : c # b => bdata'[c] = bdata[c])
              => Released(b, f)
         /\ \A f :
              (/\ active = 1 /\ Complete(Head(ioq), f) /\ bblk' = bblk
               /\ \A c \in Buffer : c # Head(ioq) => bdata'[c] = bdata[c])
              => Head(ioq) \in Buffer /\ Completed(Head(ioq), f)
<1>0. /\ TypeOK /\ Lists /\ \A b \in Buffer : FlagsOK(b)
      /\ bflags \in [Buffer -> SUBSET Flags]
      /\ bblk \in [Buffer -> Block \cup {NoBlock}]
      /\ \A c : Queued(c)' <=> QueuedNext(c)
  BY DEF IndInv, Lists, TypeOK, Queued, QueuedNext
<1>1. ASSUME UNCHANGED <<bblk, bflags, bdata, ioq>>
      PROVE  \A c \in Buffer : Same(c)
  BY <1>0, <1>1, ListEffects DEF Same
<1>2. ASSUME NEW b \in Buffer, "DELWRI" \in bflags[b], NotAvail(b), Strategy(b),
             bflags' = [bflags EXCEPT ![b] = WriteFlags(@ \cup {"BUSY", "ASYNC"})],
             UNCHANGED <<bblk, bdata>>
      PROVE  Flushed(b)
  <2>1. ~ Queued(b) /\ InFree(b)
    BY <1>0, <1>2, ListEffects DEF FlagsOK
  <2>2. \A c : QueuedNext(c) <=> Queued(c) \/ c = b
    BY <1>0, <1>2, <2>1, ListEffects
  <2> QED BY <1>0, <1>2, <2>1, <2>2 DEF Flushed, OnlyAt, Same
<1>3. ASSUME NEW b \in Buffer, NEW k, GetBlk(k, b), UNCHANGED <<bdata, ioq>>
      PROVE  Got(k, b)
  <2>1. InFree(b) /\ \A c : QueuedNext(c) <=> Queued(c)
    BY <1>0, <1>3, ListEffects DEF GetBlk
  <2>2. ~ Queued(b)
    BY <1>0, <2>1 DEF FlagsOK
  <2>3. CASE bblk[b] = k /\ bflags' = [bflags EXCEPT ![b] = @ \cup {"BUSY"}] /\ bblk' = bblk
    BY <1>0, <1>3, <2>1, <2>2, <2>3 DEF Got, OnlyAt, Same
  <2>4. CASE /\ ~ InCore(k) /\ "DELWRI" \notin bflags[b]
             /\ bflags' = [bflags EXCEPT ![b] = {"BUSY"}]
             /\ bblk' = [bblk EXCEPT ![b] = k]
    BY <1>0, <1>3, <2>1, <2>2, <2>4 DEF Got, OnlyAt, Same
  <2> QED BY <1>3, <2>3, <2>4 DEF GetBlk
<1>4. ASSUME NEW b \in Buffer, NEW f, ~ Queued(b), Strategy(b), bblk' = bblk,
             bflags' = [bflags EXCEPT ![b] = f],
             \A c \in Buffer : c # b => bdata'[c] = bdata[c]
      PROVE  Started(b, f)
  <2>1. \A c : QueuedNext(c) <=> Queued(c) \/ c = b
    BY <1>0, <1>4, ListEffects
  <2> QED BY <1>0, <1>4, <2>1 DEF Started, OnlyAt, Same
<1>5. ASSUME NEW b \in Buffer, NEW f, ~ Queued(b), Brelse(b, f),
             UNCHANGED <<bblk, ioq>>,
             \A c \in Buffer : c # b => bdata'[c] = bdata[c]
      PROVE  Released(b, f)
  <2>1. \A c : QueuedNext(c) <=> Queued(c)
    BY <1>0, <1>5, ListEffects
  <2>2. bflags' = [bflags EXCEPT ![b] = f \ {"WANTED", "BUSY", "ASYNC"}]
    BY <1>5 DEF Brelse
  <2> QED BY <1>0, <1>5, <2>1, <2>2 DEF Released, OnlyAt, Same
<1>6. ASSUME NEW f, active = 1, Complete(Head(ioq), f), bblk' = bblk,
             \A c \in Buffer : c # Head(ioq) => bdata'[c] = bdata[c]
      PROVE  Head(ioq) \in Buffer /\ Completed(Head(ioq), f)
  <2> DEFINE b == Head(ioq)
  <2>1. b \in Buffer /\ Queued(b)
    BY <1>0, <1>6, ListEffects
  <2>2. \A c : QueuedNext(c) <=> Queued(c) /\ c # b
    <3>1. \A c : QueuedNext(c) <=> Occurs(Tail(ioq), c)
      BY <1>6 DEF Complete, QueuedNext, Occurs
    <3> QED BY <1>0, <1>6, <3>1, ListEffects
  <2>3. \/ /\ "ASYNC" \in f
           /\ bflags' = [bflags EXCEPT
                           ![b] = (f \cup {"DONE"}) \ {"WANTED", "BUSY", "ASYNC"}]
        \/ /\ "ASYNC" \notin f
           /\ bflags' = [bflags EXCEPT ![b] = (f \cup {"DONE"}) \ {"WANTED"}]
    BY <1>6 DEF Complete, IODone, Brelse
  <2>4. \A c \in Buffer : c # b => bdata'[c] = bdata[c]
    BY <1>6
  <2> HIDE DEF b
  <2>5. OnlyAt(b)
    BY <1>0, <1>6, <2>1, <2>2, <2>3, <2>4 DEF OnlyAt, Same
  <2>6. Completed(b, f)
    <3>1. bblk'[b] = bblk[b] /\ ~ QueuedNext(b)
      BY <1>6, <2>2
    <3>2. \/ /\ "ASYNC" \in f
             /\ bflags'[b] = (f \cup {"DONE"}) \ {"WANTED", "BUSY", "ASYNC"}
          \/ /\ "ASYNC" \notin f
             /\ bflags'[b] = (f \cup {"DONE"}) \ {"WANTED"}
      BY <1>0, <2>1, <2>3
    <3> QED BY <2>1, <2>5, <3>1, <3>2 DEF Completed
  <2> QED BY <2>1, <2>6 DEF b
<1> QED BY <1>1, <1>2, <1>3, <1>4, <1>5, <1>6

\* The effect of each action on the buffers.
LEMMA Effects ==
  ASSUME IndInv, NEW p \in Proc
  PROVE  /\ GetBlkBusy(p) \/ GetBlkEmpty(p) \/ BreadCached(p) \/ IOWaitSleep(p)
            \/ IOWaitDone(p) \/ BawriteError(p) \/ BflushDone(p) \/ Call(p)
              => \A c \in Buffer : Same(c)
         /\ GetBlkDelwri(p) \/ BflushNext(p) => \E b \in Buffer : Flushed(b)
         /\ GetBlkMain(p) => \E b \in Buffer : Got(req[p].blk, b) /\ held'[p] = b
         /\ GetBlkAhead(p) => \E b \in Buffer : Got(req[p].ra, b) /\ ahead'[p] = b
         /\ BreadStart(p) => Started(held[p], bflags[held[p]] \cup {"READ"})
         /\ BreadaAhead(p) =>
              IF "DONE" \in bflags[ahead[p]]
                THEN Released(ahead[p], bflags[ahead[p]])
                ELSE Started(ahead[p], bflags[ahead[p]] \cup {"READ", "ASYNC"})
         /\ UseRelease(p) \/ BwriteDone(p) => Released(held[p], bflags[held[p]])
         /\ Bdwrite(p) => Released(held[p], bflags[held[p]] \cup {"DELWRI", "DONE"})
         /\ Bawrite(p) => Started(held[p], WriteFlags(bflags[held[p]] \cup {"ASYNC"}))
         /\ Bwrite(p) => Started(held[p], WriteFlags(bflags[held[p]]))
<1>0. /\ TypeOK /\ bdata \in [Buffer -> Data] /\ Lists
      /\ bflags \in [Buffer -> SUBSET Flags] /\ freelist \in Seq(Buffer)
      /\ held \in [Proc -> Buffer \cup {NoBuf}]
      /\ ahead \in [Proc -> Buffer \cup {NoBuf}]
      /\ \A c : Queued(c)' <=> QueuedNext(c)
  BY DEF IndInv, TypeOK, Queued, QueuedNext
<1>1. ASSUME pc[p] \in OwnPCs
      PROVE  held[p] \in Buffer /\ Owns(p, held[p])
  BY <1>1 DEF IndInv, Locals, Owns, OwnPCs
<1>2. ASSUME pc[p] \in {"got", "use"}
      PROVE  held[p] \in Buffer /\ ~ Queued(held[p])
  BY <1>1, <1>2 DEF IndInv, Requests, OwnPCs
<1>3. ASSUME GetBlkBusy(p)
      PROVE  \A c \in Buffer : Same(c)
  <2>1. PICK b \in Buffer : bflags' = [bflags EXCEPT ![b] = @ \cup {"WANTED"}]
    BY <1>3 DEF GetBlkBusy
  <2>2. UNCHANGED <<bblk, bdata, ioq>>
    BY <1>3 DEF GetBlkBusy, devVars
  <2>3. \A c : QueuedNext(c) <=> Queued(c)
    BY <1>0, <2>2, ListEffects
  <2> QED BY <1>0, <2>1, <2>2, <2>3 DEF Same
<1>4. ASSUME \/ GetBlkEmpty(p) \/ BreadCached(p) \/ IOWaitSleep(p)
             \/ IOWaitDone(p) \/ BawriteError(p) \/ BflushDone(p) \/ Call(p)
      PROVE  \A c \in Buffer : Same(c)
  <2>1. UNCHANGED <<bblk, bflags, bdata, ioq>>
    BY <1>4 DEF GetBlkEmpty, BreadCached, IOWaitSleep, IOWaitDone, BawriteError,
       BflushDone, Call, ReadI, ReadIAhead, WriteI, IUpdate, Sync, Begin,
       bufVars, devVars
  <2> QED BY <2>1, SharedEffects
<1>5. ASSUME GetBlkDelwri(p)
      PROVE  \E b \in Buffer : Flushed(b)
  <2>1. Head(freelist) \in Buffer
    BY <1>0, <1>5, ListEffects DEF GetBlkDelwri
  <2> QED BY <1>5, <2>1, SharedEffects DEF GetBlkDelwri
<1>6. ASSUME BflushNext(p)
      PROVE  \E b \in Buffer : Flushed(b)
  <2>1. PICK i \in Delayed :
          /\ freelist' = Unlink(freelist, i)
          /\ bflags' = [bflags EXCEPT ![freelist[i]] =
                          WriteFlags(@ \cup {"BUSY", "ASYNC"})]
          /\ Strategy(freelist[i])
    BY <1>6 DEF BflushNext
  <2>2. /\ freelist[i] \in Buffer /\ NotAvail(freelist[i])
        /\ "DELWRI" \in bflags[freelist[i]]
    BY <1>0, <2>1 DEF NotAvail, Delayed
  <2> QED BY <1>6, <2>1, <2>2, SharedEffects DEF BflushNext
<1>7. ASSUME GetBlkMain(p)
      PROVE  \E b \in Buffer : Got(req[p].blk, b) /\ held'[p] = b
  <2>1. PICK b \in Buffer : GetBlk(req[p].blk, b) /\ held'[p] = b
    BY <1>0, <1>7 DEF GetBlkMain
  <2>2. UNCHANGED <<bdata, ioq>>
    BY <1>7 DEF GetBlkMain, devVars
  <2> QED BY <2>1, <2>2, SharedEffects
<1>8. ASSUME GetBlkAhead(p)
      PROVE  \E b \in Buffer : Got(req[p].ra, b) /\ ahead'[p] = b
  <2>1. PICK b \in Buffer : GetBlk(req[p].ra, b) /\ ahead'[p] = b
    BY <1>0, <1>8 DEF GetBlkAhead
  <2>2. UNCHANGED <<bdata, ioq>>
    BY <1>8 DEF GetBlkAhead, devVars
  <2> QED BY <2>1, <2>2, SharedEffects
<1>9. ASSUME BreadStart(p)
      PROVE  Started(held[p], bflags[held[p]] \cup {"READ"})
  <2>1. held[p] \in Buffer /\ ~ Queued(held[p])
    BY <1>2, <1>9 DEF BreadStart
  <2> QED BY <1>9, <2>1, SharedEffects DEF BreadStart
<1>10. ASSUME BreadaAhead(p)
       PROVE  IF "DONE" \in bflags[ahead[p]]
                THEN Released(ahead[p], bflags[ahead[p]])
                ELSE Started(ahead[p], bflags[ahead[p]] \cup {"READ", "ASYNC"})
  <2>1. ahead[p] \in Buffer /\ ~ Queued(ahead[p]) /\ UNCHANGED <<bblk, bdata>>
    BY <1>10 DEF BreadaAhead, IndInv, Locals, Requests
  <2>2. CASE "DONE" \in bflags[ahead[p]]
    BY <1>10, <2>1, <2>2, SharedEffects DEF BreadaAhead
  <2>3. CASE "DONE" \notin bflags[ahead[p]]
    BY <1>10, <2>1, <2>3, SharedEffects DEF BreadaAhead
  <2> QED BY <2>2, <2>3
<1>11. ASSUME UseRelease(p) \/ BwriteDone(p)
       PROVE  Released(held[p], bflags[held[p]])
  <2>1. held[p] \in Buffer /\ ~ Queued(held[p])
    BY <1>1, <1>2, <1>11, OwnedFacts DEF UseRelease, BwriteDone, OwnPCs
  <2>2. \A c \in Buffer : c # held[p] => bdata'[c] = bdata[c]
    BY <1>0, <1>11, <2>1 DEF UseRelease, BwriteDone
  <2> QED BY <1>11, <2>1, <2>2, SharedEffects DEF UseRelease, BwriteDone, devVars
<1>12. ASSUME Bdwrite(p)
       PROVE  Released(held[p], bflags[held[p]] \cup {"DELWRI", "DONE"})
  <2>1. held[p] \in Buffer /\ ~ Queued(held[p])
    BY <1>2, <1>12 DEF Bdwrite
  <2>2. \A c \in Buffer : c # held[p] => bdata'[c] = bdata[c]
    BY <1>0, <1>12, <2>1 DEF Bdwrite, Modify
  <2> QED BY <1>12, <2>1, <2>2, SharedEffects DEF Bdwrite, devVars
<1>13. ASSUME Bawrite(p)
       PROVE  Started(held[p], WriteFlags(bflags[held[p]] \cup {"ASYNC"}))
  <2>1. held[p] \in Buffer /\ ~ Queued(held[p])
    BY <1>2, <1>13 DEF Bawrite
  <2>2. \A c \in Buffer : c # held[p] => bdata'[c] = bdata[c]
    BY <1>0, <1>13, <2>1 DEF Bawrite, Modify
  <2> QED BY <1>13, <2>1, <2>2, SharedEffects DEF Bawrite
<1>14. ASSUME Bwrite(p)
       PROVE  Started(held[p], WriteFlags(bflags[held[p]]))
  <2>1. held[p] \in Buffer /\ ~ Queued(held[p])
    BY <1>2, <1>14 DEF Bwrite
  <2>2. \A c \in Buffer : c # held[p] => bdata'[c] = bdata[c]
    BY <1>0, <1>14, <2>1 DEF Bwrite, Modify
  <2> QED BY <1>14, <2>1, <2>2, SharedEffects DEF Bwrite
<1> QED BY <1>3, <1>4, <1>5, <1>6, <1>7, <1>8, <1>9, <1>10, <1>11, <1>12,
           <1>13, <1>14

----------------------------------------------------------------------------
(* Ownership *)

\* p is responsible for b after the step.
OwnsNext(p, b) ==
  \/ held'[p] = b /\ pc'[p] \in OwnPCs
  \/ ahead'[p] = b /\ pc'[p] = "gotra"

\* One buffer changes its owner, or none does.
LEMMA OwnerChange ==
  ASSUME IndInv, NEW p \in Proc, Step(p) \/ Call(p), NEW b \in Buffer, OnlyAt(b),
         \A c \in Buffer : c # b => (OwnsNext(p, c) <=> Owns(p, c)),
         \/ Same(b) /\ (OwnsNext(p, b) <=> Owns(p, b))
         \/ /\ InFree(b) \/ Owns(p, b)
            /\ \/ /\ OwnsNext(p, b)
                  /\ "BUSY" \in bflags'[b] /\ "ASYNC" \notin bflags'[b]
               \/ /\ ~ OwnsNext(p, b)
                  /\ "BUSY" \in bflags'[b] => QueuedNext(b) /\ "ASYNC" \in bflags'[b],
         pc'[p] = "gotra" => held'[p] # ahead'[p]
  PROVE  OneOwner'
<1>1. /\ \A q \in Proc : \A c : Owns(q, c)' <=> OwnsNext(q, c)
      /\ \A c : Queued(c)' <=> QueuedNext(c)
  BY DEF Owns, OwnsNext, OwnPCs, Queued, QueuedNext
<1>2. /\ \A q \in Proc, c \in Buffer : q # p => (OwnsNext(q, c) <=> Owns(q, c))
      /\ \A q \in Proc : q # p =>
           pc'[q] = pc[q] /\ held'[q] = held[q] /\ ahead'[q] = ahead[q]
  BY OthersKept DEF Owns, OwnsNext, OwnPCs
<1>3. /\ \A c \in Buffer : "BUSY" \in bflags[c] =>
           \/ \E q \in Proc : Owns(q, c)
           \/ Queued(c) /\ "ASYNC" \in bflags[c]
      /\ \A q \in Proc, c \in Buffer : Owns(q, c) =>
           /\ "BUSY" \in bflags[c] /\ "ASYNC" \notin bflags[c]
           /\ \A r \in Proc : Owns(r, c) => r = q
      /\ \A q \in Proc : pc[q] = "gotra" => held[q] # ahead[q]
  BY DEF IndInv, OneOwner
<1>4. ASSUME InFree(b) \/ Owns(p, b), NEW q \in Proc, q # p
      PROVE  ~ Owns(q, b)
  BY <1>3, <1>4, OwnedFacts
<1>5. \A c \in Buffer : c # b => Same(c)
  BY DEF OnlyAt
<1>6. ASSUME NEW c \in Buffer, "BUSY" \in bflags'[c]
      PROVE  \/ \E q \in Proc : OwnsNext(q, c)
             \/ QueuedNext(c) /\ "ASYNC" \in bflags'[c]
  <2>1. CASE c # b \/ (Same(b) /\ (OwnsNext(p, b) <=> Owns(p, b)))
    <3>1. Same(c) /\ \A q \in Proc : OwnsNext(q, c) <=> Owns(q, c)
      BY <1>2, <1>5, <2>1
    <3> QED BY <1>3, <1>6, <3>1 DEF Same
  <2>2. CASE c = b
    <3>1. CASE Same(b) /\ (OwnsNext(p, b) <=> Owns(p, b))
      BY <2>1, <3>1
    <3>2. CASE ~ (Same(b) /\ (OwnsNext(p, b) <=> Owns(p, b)))
      BY <1>6, <2>2, <3>2
    <3> QED BY <3>1, <3>2
  <2> QED BY <2>1, <2>2
<1>7. ASSUME NEW q \in Proc, NEW c \in Buffer, OwnsNext(q, c)
      PROVE  /\ "BUSY" \in bflags'[c] /\ "ASYNC" \notin bflags'[c]
             /\ \A r \in Proc : OwnsNext(r, c) => r = q
  <2>1. CASE c # b \/ (Same(b) /\ (OwnsNext(p, b) <=> Owns(p, b)))
    <3>1. Same(c) /\ \A r \in Proc : OwnsNext(r, c) <=> Owns(r, c)
      BY <1>2, <1>5, <2>1
    <3> QED BY <1>3, <1>7, <3>1 DEF Same
  <2>2. CASE c = b
    <3>1. CASE Same(b) /\ (OwnsNext(p, b) <=> Owns(p, b))
      BY <2>1, <3>1
    <3>2. CASE ~ (Same(b) /\ (OwnsNext(p, b) <=> Owns(p, b)))
      <4>1. \A r \in Proc : r # p => ~ OwnsNext(r, b)
        BY <1>2, <1>4, <3>2
      <4> QED BY <1>7, <2>2, <3>2, <4>1
    <3> QED BY <3>1, <3>2
  <2> QED BY <2>1, <2>2
<1>8. \A q \in Proc : pc'[q] = "gotra" => held'[q] # ahead'[q]
  BY <1>2, <1>3
<1> QED BY <1>1, <1>6, <1>7, <1>8 DEF OneOwner

\* Each step hands a buffer over to exactly one owner, or keeps its owner.
LEMMA OwnerStep ==
  ASSUME IndInv, Next
  PROVE  OneOwner'
<1>0. /\ TypeOK /\ NBUF \in Nat \ {0} /\ 1 \in Buffer
      /\ bflags \in [Buffer -> SUBSET Flags]
      /\ pc \in [Proc -> PCs]
      /\ held \in [Proc -> Buffer \cup {NoBuf}]
      /\ ahead \in [Proc -> Buffer \cup {NoBuf}]
  BY ConstantsAssumption DEF IndInv, TypeOK, Buffer
<1>1. ASSUME NEW p \in Proc, Step(p) \/ Call(p), \A c \in Buffer : Same(c),
             \A c \in Buffer : OwnsNext(p, c) <=> Owns(p, c),
             pc'[p] = "gotra" => held'[p] # ahead'[p]
      PROVE  OneOwner'
  BY <1>0, <1>1, OwnerChange DEF OnlyAt
<1>2. ASSUME NEW p \in Proc, pc[p] \in OwnPCs
      PROVE  held[p] \in Buffer /\ Owns(p, held[p])
  BY <1>2 DEF IndInv, Locals, Owns, OwnPCs
<1>3. ASSUME NEW p \in Proc, pc[p] = "gotra"
      PROVE  ahead[p] \in Buffer /\ Owns(p, ahead[p]) /\ held[p] # ahead[p]
  BY <1>3 DEF IndInv, Locals, Owns, OneOwner
<1>4. ASSUME NEW p \in Proc, \/ GetBlkBusy(p) \/ GetBlkEmpty(p) \/ IOWaitSleep(p)
                             \/ BreadCached(p) \/ IOWaitDone(p) \/ BawriteError(p)
                             \/ BflushDone(p) \/ Call(p)
      PROVE  OneOwner'
  <2>1. \A c \in Buffer : Same(c)
    BY <1>4, Effects
  <2>2. CASE GetBlkBusy(p) \/ GetBlkEmpty(p) \/ IOWaitSleep(p)
    <3>1. UNCHANGED <<pc, held, ahead>>
      BY <2>2 DEF GetBlkBusy, GetBlkEmpty, IOWaitSleep
    <3> QED BY <1>1, <1>3, <2>1, <2>2, <3>1 DEF Step, Owns, OwnsNext, OwnPCs
  <2>3. CASE BreadCached(p) \/ IOWaitDone(p)
    <3>1. /\ UNCHANGED <<held, ahead>> /\ pc[p] \in {"got", "iowait"}
          /\ pc'[p] \in {"getra", "iowait", "use"}
      BY <1>0, <2>3 DEF BreadCached, IOWaitDone, Continue
    <3> QED BY <1>1, <2>1, <2>3, <3>1 DEF Step, Owns, OwnsNext, OwnPCs
  <2>4. CASE BawriteError(p) \/ BflushDone(p)
    <3>1. pc[p] \in {"awerr", "flush"} /\ pc'[p] = "user"
      BY <1>0, <2>4 DEF BawriteError, BflushDone, Return
    <3> QED BY <1>1, <2>1, <2>4, <3>1 DEF Step, Owns, OwnsNext, OwnPCs
  <2>5. CASE Call(p)
    <3>1. pc[p] = "user" /\ pc'[p] \in {"getblk", "flush"}
      BY <1>0, <2>5 DEF Call, ReadI, ReadIAhead, WriteI, IUpdate, Sync, Begin
    <3> QED BY <1>1, <2>1, <2>5, <3>1 DEF Step, Owns, OwnsNext, OwnPCs
  <2> QED BY <1>4, <2>2, <2>3, <2>4, <2>5
<1>5. ASSUME NEW p \in Proc, GetBlkDelwri(p) \/ BflushNext(p)
      PROVE  OneOwner'
  <2>1. PICK b \in Buffer : Flushed(b)
    BY <1>5, Effects
  <2>2. UNCHANGED <<pc, held, ahead>> /\ pc[p] \in {"getblk", "getra", "flush"}
    BY <1>5 DEF GetBlkDelwri, BflushNext
  <2>3. \A c \in Buffer : OwnsNext(p, c) <=> Owns(p, c)
    BY <2>2 DEF Owns, OwnsNext, OwnPCs
  <2>4. "BUSY" \in bflags'[b] /\ "ASYNC" \in bflags'[b] /\ InFree(b) /\ QueuedNext(b) /\ OnlyAt(b)
    BY <2>1 DEF Flushed, WriteFlags
  <2>5. ~ OwnsNext(p, b)
    BY <2>3, <2>4, OwnedFacts
  <2> QED BY <1>5, <2>2, <2>3, <2>4, <2>5, OwnerChange DEF Step
<1>6. ASSUME NEW p \in Proc, GetBlkMain(p)
      PROVE  OneOwner'
  <2>1. PICK b \in Buffer : Got(req[p].blk, b) /\ held'[p] = b
    BY <1>6, Effects
  <2>2. ahead' = ahead /\ pc[p] = "getblk" /\ pc'[p] = "got"
    BY <1>0, <1>6 DEF GetBlkMain, Continue
  <2>3. OwnsNext(p, b) /\ \A c \in Buffer : c # b => (OwnsNext(p, c) <=> Owns(p, c))
    BY <2>1, <2>2 DEF Owns, OwnsNext, OwnPCs
  <2>4. InFree(b) /\ OnlyAt(b) /\ "BUSY" \in bflags'[b] /\ "ASYNC" \notin bflags'[b]
    BY <2>1 DEF Got, IndInv, Lists, FlagsOK
  <2> QED BY <1>6, <2>2, <2>3, <2>4, OwnerChange DEF Step
<1>7. ASSUME NEW p \in Proc, GetBlkAhead(p)
      PROVE  OneOwner'
  <2>1. PICK b \in Buffer : Got(req[p].ra, b) /\ ahead'[p] = b
    BY <1>7, Effects
  <2>2. held' = held /\ pc[p] = "getra" /\ pc'[p] = "gotra"
    BY <1>0, <1>7 DEF GetBlkAhead, Continue
  <2>3. OwnsNext(p, b) /\ \A c \in Buffer : c # b => (OwnsNext(p, c) <=> Owns(p, c))
    BY <2>1, <2>2 DEF Owns, OwnsNext, OwnPCs
  <2>4. InFree(b) /\ OnlyAt(b) /\ "BUSY" \in bflags'[b] /\ "ASYNC" \notin bflags'[b]
    BY <2>1 DEF Got, IndInv, Lists, FlagsOK
  <2>5. held'[p] # ahead'[p]
    BY <1>2, <2>1, <2>2, <2>4, OwnedFacts DEF OwnPCs
  <2> QED BY <1>7, <2>2, <2>3, <2>4, <2>5, OwnerChange DEF Step
<1>8. ASSUME NEW p \in Proc, BreadStart(p) \/ Bwrite(p)
      PROVE  OneOwner'
  <2>1. PICK b \in Buffer : b = held[p] /\ Owns(p, b)
    BY <1>2, <1>8 DEF BreadStart, Bwrite, OwnPCs
  <2>2. UNCHANGED <<held, ahead>> /\ pc[p] \in {"got", "use"} /\ pc'[p] \in {"getra", "iowait", "bwait"}
    BY <1>0, <1>8 DEF BreadStart, Bwrite, Continue
  <2>3. \A c \in Buffer : OwnsNext(p, c) <=> Owns(p, c)
    BY <2>2 DEF Owns, OwnsNext, OwnPCs
  <2>4. OnlyAt(b) /\ "BUSY" \in bflags'[b] /\ "ASYNC" \notin bflags'[b]
    <3>1. "BUSY" \in bflags[b] /\ "ASYNC" \notin bflags[b]
      BY <2>1, OwnedFacts
    <3>2. CASE BreadStart(p)
      <4>1. Started(b, bflags[b] \cup {"READ"})
        BY <2>1, <3>2, Effects
      <4> QED BY <3>1, <4>1 DEF Started
    <3>3. CASE Bwrite(p)
      BY <2>1, <3>1, <3>3, Effects DEF Started, WriteFlags
    <3> QED BY <1>8, <3>2, <3>3
  <2> QED BY <1>8, <2>1, <2>2, <2>3, <2>4, OwnerChange DEF Step
<1>9. ASSUME NEW p \in Proc, BreadaAhead(p)
      PROVE  OneOwner'
  <2>1. PICK b \in Buffer : b = ahead[p] /\ Owns(p, b) /\ held[p] # b
    BY <1>3, <1>9 DEF BreadaAhead
  <2>2. held' = held /\ ahead'[p] = NoBuf /\ pc[p] = "gotra" /\ pc'[p] = "iowait"
    BY <1>0, <1>9 DEF BreadaAhead, Continue
  <2>3. ~ OwnsNext(p, b) /\ \A c \in Buffer : c # b => (OwnsNext(p, c) <=> Owns(p, c))
    BY <2>1, <2>2 DEF Owns, OwnsNext, OwnPCs
  <2>4. OnlyAt(b) /\ ("BUSY" \in bflags'[b] => QueuedNext(b) /\ "ASYNC" \in bflags'[b])
    BY <1>9, <2>1, Effects DEF Started, Released
  <2> QED BY <1>9, <2>1, <2>2, <2>3, <2>4, OwnerChange DEF Step
<1>10. ASSUME NEW p \in Proc, UseRelease(p) \/ Bdwrite(p) \/ BwriteDone(p) \/ Bawrite(p)
       PROVE  OneOwner'
  <2>1. PICK b \in Buffer : b = held[p] /\ Owns(p, b)
    BY <1>2, <1>10 DEF UseRelease, Bdwrite, BwriteDone, Bawrite, OwnPCs
  <2>2. pc[p] \in {"use", "bwait"} /\ pc'[p] \in {"user", "awerr"}
    BY <1>0, <1>10 DEF UseRelease, Bdwrite, BwriteDone, Bawrite, Return, Continue
  <2>3. ~ OwnsNext(p, b) /\ \A c \in Buffer : c # b => (OwnsNext(p, c) <=> Owns(p, c))
    BY <2>1, <2>2 DEF Owns, OwnsNext, OwnPCs
  <2>4. OnlyAt(b) /\ ("BUSY" \in bflags'[b] => QueuedNext(b) /\ "ASYNC" \in bflags'[b])
    BY <1>10, <2>1, Effects DEF Started, Released, WriteFlags
  <2> QED BY <1>10, <2>1, <2>2, <2>3, <2>4, OwnerChange DEF Step
<1>11. ASSUME NEW f, active = 1, Complete(Head(ioq), f), UNCHANGED <<bblk, pc, held, ahead>>,
              \A c \in Buffer : c # Head(ioq) => bdata'[c] = bdata[c],
              \A g : g # "ERROR" => (g \in f <=> g \in bflags[Head(ioq)])
       PROVE  OneOwner'
  <2>1. PICK b \in Buffer : b = Head(ioq) /\ Completed(b, f)
    BY <1>11, SharedEffects
  <2>2. /\ \A q \in Proc : \A c : Owns(q, c)' <=> Owns(q, c)
        /\ \A c : Queued(c)' <=> QueuedNext(c)
    BY <1>11 DEF Owns, OwnsNext, OwnPCs, Queued, QueuedNext
  <2>3. /\ "BUSY" \in bflags'[b] => "BUSY" \in bflags[b] /\ "ASYNC" \notin bflags[b]
        /\ "ASYNC" \notin bflags'[b]
        /\ "ASYNC" \notin bflags[b] /\ "BUSY" \in bflags[b] => "BUSY" \in bflags'[b]
    BY <1>11, <2>1 DEF Completed
  <2>4. \A c \in Buffer : c # b => Same(c)
    BY <2>1 DEF Completed, OnlyAt
  <2>5. OneOwner
    BY DEF IndInv
  <2>6. /\ \A c \in Buffer : "BUSY" \in bflags'[c] =>
             \/ \E q \in Proc : Owns(q, c)
             \/ QueuedNext(c) /\ "ASYNC" \in bflags'[c]
        /\ \A q \in Proc, c \in Buffer : Owns(q, c) =>
             "BUSY" \in bflags'[c] /\ "ASYNC" \notin bflags'[c]
    BY <2>3, <2>4, <2>5 DEF OneOwner, Same
  <2> QED BY <1>11, <2>2, <2>5, <2>6 DEF OneOwner
<1>12. ASSUME ATAHandler
       PROVE  OneOwner'
  <2>1. CASE ATAHandlerRetry
    <3>1. UNCHANGED <<bflags, ioq, pc, held, ahead>> /\ OneOwner
      BY <2>1 DEF ATAHandlerRetry, bufVars, procVars, IndInv
    <3> QED BY <3>1 DEF OneOwner, Owns, Queued
  <2>2. ASSUME Transfer(Head(ioq)) \/ bdata' = bdata, active = 1
        PROVE  \A c \in Buffer : c # Head(ioq) => bdata'[c] = bdata[c]
    BY <2>2 DEF Transfer, IndInv, TypeOK
  <2>3. CASE ATAHandlerDone
    BY <1>11, <2>2, <2>3 DEF ATAHandlerDone
  <2>4. CASE ATAHandlerFail
    BY <1>11, <2>2, <2>4 DEF ATAHandlerFail
  <2> QED BY <1>12, <2>1, <2>3, <2>4 DEF ATAHandler
<1> QED BY <1>4, <1>5, <1>6, <1>7, <1>8, <1>9, <1>10, <1>12 DEF Next, Step

----------------------------------------------------------------------------
(* The requests *)

\* What a step of p does to a buffer that p does not own and that is busy.
LEMMA BusyKept ==
  ASSUME IndInv, NEW p \in Proc, Step(p) \/ Call(p), NEW c \in Buffer,
         ~ InFree(c), ~ Owns(p, c)
  PROVE  Same(c)
<1>1. ASSUME pc[p] \in OwnPCs
      PROVE  held[p] # c
  BY <1>1 DEF Owns, OwnPCs
<1>2. ASSUME pc[p] = "gotra"
      PROVE  ahead[p] # c
  BY <1>2 DEF Owns
<1>3. CASE GetBlkDelwri(p) \/ BflushNext(p)
  BY <1>3, Effects DEF Flushed, OnlyAt
<1>4. CASE GetBlkMain(p) \/ GetBlkAhead(p)
  BY <1>4, Effects DEF Got, OnlyAt
<1>5. CASE BreadStart(p)
  <2>1. held[p] # c
    BY <1>1, <1>5 DEF BreadStart, OwnPCs
  <2> QED BY <1>5, <2>1, Effects DEF Started, OnlyAt
<1>6. CASE BreadaAhead(p)
  <2>1. ahead[p] # c
    BY <1>2, <1>6 DEF BreadaAhead
  <2> QED BY <1>6, <2>1, Effects DEF Started, Released, OnlyAt
<1>7. CASE Bawrite(p) \/ Bwrite(p)
  <2>1. held[p] # c
    BY <1>1, <1>7 DEF Bawrite, Bwrite, OwnPCs
  <2> QED BY <1>7, <2>1, Effects DEF Started, OnlyAt
<1>8. CASE UseRelease(p) \/ BwriteDone(p) \/ Bdwrite(p)
  <2>1. held[p] # c
    BY <1>1, <1>8 DEF UseRelease, BwriteDone, Bdwrite, OwnPCs
  <2> QED BY <1>8, <2>1, Effects DEF Released, OnlyAt
<1>9. CASE GetBlkBusy(p) \/ GetBlkEmpty(p) \/ BreadCached(p) \/ IOWaitSleep(p)
           \/ IOWaitDone(p) \/ BawriteError(p) \/ BflushDone(p) \/ Call(p)
  BY <1>9, Effects
<1> QED BY <1>3, <1>4, <1>5, <1>6, <1>7, <1>8, <1>9 DEF Step

\* What the disk interrupt does to the buffers: nothing, or it completes the
\* first request, with or without an error.
LEMMA DiskEffect ==
  ASSUME IndInv, ATAHandler
  PROVE  /\ UNCHANGED <<bblk, cur, pc, req, held, ahead, uerr, content>>
         /\ bad \subseteq bad'
         /\ \/ UNCHANGED <<disk, bflags, bdata, ioq, bad, wchan, freelist, freeWanted>>
            \/ \E b \in Buffer : \E f :
                 /\ b = Head(ioq) /\ active = 1 /\ Complete(b, f) /\ Completed(b, f)
                 /\ \A g : g # "ERROR" => (g \in f <=> g \in bflags[b])
                 /\ \/ f = bflags[b] /\ Transfer(b) /\ bad' = bad
                    \/ (Transfer(b) \/ UNCHANGED <<disk, bdata>>)
                         /\ bad' = bad \cup {bblk[b]}
<1>1. ASSUME Transfer(Head(ioq)) \/ bdata' = bdata
      PROVE  \A c \in Buffer : c # Head(ioq) => bdata'[c] = bdata[c]
  BY <1>1 DEF Transfer, IndInv, TypeOK
<1>2. CASE ATAHandlerDone
  <2>1. Head(ioq) \in Buffer /\ Completed(Head(ioq), bflags[Head(ioq)])
    BY <1>1, <1>2, SharedEffects DEF ATAHandlerDone
  <2> QED BY <1>2, <2>1 DEF ATAHandlerDone, histVars
<1>3. CASE ATAHandlerFail
  <2>1. /\ Head(ioq) \in Buffer
        /\ Completed(Head(ioq), bflags[Head(ioq)] \cup {"ERROR"})
    BY <1>1, <1>3, SharedEffects DEF ATAHandlerFail
  <2>2. \A g : g # "ERROR" =>
          (g \in bflags[Head(ioq)] \cup {"ERROR"} <=> g \in bflags[Head(ioq)])
    OBVIOUS
  <2>3. PICK b \in Buffer : b = Head(ioq)
    BY <2>1
  <2>4. PICK f : f = bflags[b] \cup {"ERROR"}
    OBVIOUS
  <2> QED BY <1>3, <2>1, <2>2, <2>3, <2>4 DEF ATAHandlerFail
<1>4. CASE ATAHandlerRetry
  BY <1>4 DEF ATAHandlerRetry, bufVars, procVars, histVars
<1> QED BY <1>2, <1>3, <1>4 DEF ATAHandler

\* What Requests says of a process after the step.
RequestNext(q) ==
    /\ pc'[q] \in {"got", "use"} => ~ QueuedNext(held'[q])
    /\ pc'[q] = "gotra" => ~ QueuedNext(ahead'[q])
    /\ pc'[q] \in {"getra", "gotra", "iowait", "bwait"} =>
         "DONE" \in bflags'[held'[q]] \/ QueuedNext(held'[q])
    /\ pc'[q] \in {"getra", "gotra", "iowait"} /\ QueuedNext(held'[q]) =>
         "READ" \in bflags'[held'[q]]
    /\ pc'[q] = "bwait" => "READ" \notin bflags'[held'[q]]
    /\ pc'[q] = "use" /\ ~ WholeBlock(q)' => "DONE" \in bflags'[held'[q]]
    /\ pc'[q] = "use" /\ uerr'[q] => req'[q].blk \in bad'
    /\ pc'[q] \in {"getblk", "got", "getra", "gotra", "iowait"} => ~ uerr'[q]

\* Each step leaves the request of a process where its next step expects it.
LEMMA RequestsStep ==
  ASSUME IndInv, Next
  PROVE  Requests'
<1>0. /\ TypeOK /\ Requests /\ Locals
      /\ bflags \in [Buffer -> SUBSET Flags]
      /\ pc \in [Proc -> PCs] /\ req \in [Proc -> Request]
      /\ uerr \in [Proc -> BOOLEAN]
      /\ held \in [Proc -> Buffer \cup {NoBuf}]
      /\ ahead \in [Proc -> Buffer \cup {NoBuf}]
      /\ bad \subseteq bad'
  <2>1. ASSUME NEW p \in Proc, Step(p) \/ Call(p)
        PROVE  bad' = bad
    BY <2>1 DEF Step, Call, GetBlkBusy, GetBlkEmpty, GetBlkDelwri, GetBlkMain,
       GetBlkAhead, BreadCached, BreadStart, BreadaAhead, IOWaitSleep,
       IOWaitDone, UseRelease, Bdwrite, Bawrite, BawriteError, Bwrite,
       BwriteDone, BflushNext, BflushDone, ReadI, ReadIAhead, WriteI, IUpdate,
       Sync, Begin, Modify, histVars
  <2> QED BY <2>1, DiskEffect DEF IndInv, TypeOK, Next
<1>1. (\A q \in Proc : RequestNext(q)) => Requests'
  BY DEF RequestNext, Requests, Queued, QueuedNext, WholeBlock
<1>2. ASSUME NEW p \in Proc, pc[p] \in OwnPCs
      PROVE  held[p] \in Buffer /\ Owns(p, held[p])
  BY <1>2 DEF IndInv, Locals, Owns, OwnPCs
<1>3. ASSUME NEW p \in Proc, pc[p] = "gotra"
      PROVE  ahead[p] \in Buffer /\ Owns(p, ahead[p]) /\ held[p] # ahead[p]
  BY <1>3 DEF IndInv, Locals, Owns, OneOwner
\* a process whose buffers the step leaves alone
<1>4. ASSUME NEW q \in Proc, pc'[q] = pc[q], req'[q] = req[q], held'[q] = held[q],
             ahead'[q] = ahead[q], uerr'[q] = uerr[q],
             pc[q] \in OwnPCs => Same(held[q]),
             pc[q] = "gotra" => Same(ahead[q])
      PROVE  RequestNext(q)
  BY <1>0, <1>4 DEF Requests, RequestNext, Same, OwnPCs, WholeBlock
<1>5. ASSUME NEW p \in Proc, Step(p) \/ Call(p), NEW q \in Proc, q # p
      PROVE  RequestNext(q)
  <2>1. ASSUME NEW c \in Buffer, Owns(q, c)
        PROVE  Same(c)
    <3>1. ~ InFree(c) /\ ~ Owns(p, c)
      BY <1>5, <2>1, OwnedFacts DEF IndInv, OneOwner
    <3> QED BY <1>5, <3>1, BusyKept
  <2> QED BY <1>2, <1>3, <1>4, <1>5, <2>1, OthersKept
<1>6. ASSUME NEW p \in Proc, Call(p)
      PROVE  RequestNext(p)
  <2>1. pc'[p] \in {"getblk", "flush"} /\ uerr'[p] = FALSE
    BY <1>0, <1>6 DEF Call, ReadI, ReadIAhead, WriteI, IUpdate, Sync, Begin
  <2> QED BY <2>1 DEF RequestNext
<1>7. ASSUME NEW p \in Proc, GetBlkBusy(p) \/ GetBlkEmpty(p) \/ IOWaitSleep(p)
      PROVE  RequestNext(p)
  <2>1. UNCHANGED <<pc, req, held, ahead, uerr>>
    BY <1>7 DEF GetBlkBusy, GetBlkEmpty, IOWaitSleep
  <2>2. \A c \in Buffer : Same(c)
    BY <1>7, Effects
  <2> QED BY <1>2, <1>3, <1>4, <2>1, <2>2
<1>8. ASSUME NEW p \in Proc, GetBlkDelwri(p) \/ BflushNext(p)
      PROVE  RequestNext(p)
  <2>1. UNCHANGED <<pc, req, held, ahead, uerr>>
        /\ pc[p] \in {"getblk", "getra", "flush"}
    BY <1>8 DEF GetBlkDelwri, BflushNext
  <2>2. PICK b \in Buffer : Flushed(b)
    BY <1>8, Effects
  <2>3. pc[p] \in OwnPCs => Same(held[p])
    <3>1. pc[p] \in OwnPCs => held[p] # b
      BY <1>2, <2>2, OwnedFacts DEF Flushed
    <3> QED BY <1>2, <2>2, <3>1 DEF Flushed, OnlyAt
  <2> QED BY <1>4, <2>1, <2>3
<1>9. ASSUME NEW p \in Proc, GetBlkMain(p)
      PROVE  RequestNext(p)
  <2>1. PICK b \in Buffer : Got(req[p].blk, b) /\ held'[p] = b
    BY <1>9, Effects
  <2>2. pc[p] = "getblk" /\ pc'[p] = "got" /\ uerr' = uerr
    BY <1>0, <1>9 DEF GetBlkMain, Continue
  <2> QED BY <1>0, <2>1, <2>2 DEF RequestNext, Got, Requests
<1>10. ASSUME NEW p \in Proc, GetBlkAhead(p)
       PROVE  RequestNext(p)
  <2>1. PICK b \in Buffer : Got(req[p].ra, b) /\ ahead'[p] = b
    BY <1>10, Effects
  <2>2. pc[p] = "getra" /\ pc'[p] = "gotra" /\ uerr' = uerr /\ held' = held
    BY <1>0, <1>10 DEF GetBlkAhead, Continue
  <2>3. held[p] \in Buffer /\ held[p] # b
    BY <1>2, <2>1, <2>2, OwnedFacts DEF Got, OwnPCs
  <2>4. Same(held[p]) /\ ~ QueuedNext(b)
    BY <2>1, <2>3 DEF Got, OnlyAt
  <2> QED BY <1>0, <2>1, <2>2, <2>4 DEF RequestNext, Same, Requests
<1>11. ASSUME NEW p \in Proc, BreadCached(p)
       PROVE  RequestNext(p)
  <2>1. /\ pc[p] = "got" /\ held' = held /\ uerr' = uerr /\ req' = req
        /\ \/ pc'[p] = "use" /\ (WholeBlock(p) \/ "DONE" \in bflags[held[p]])
           \/ pc'[p] \in {"getra", "iowait"} /\ "DONE" \in bflags[held[p]]
    BY <1>0, <1>11 DEF BreadCached, Continue, WholeBlock, ReadsAhead
  <2>2. held[p] \in Buffer /\ Same(held[p])
    BY <1>2, <1>11, <2>1, Effects DEF OwnPCs
  <2>3. ~ QueuedNext(held[p]) /\ ~ uerr[p]
    BY <1>0, <2>1, <2>2 DEF Requests, Same
  <2> QED BY <2>1, <2>2, <2>3 DEF RequestNext, Same, WholeBlock
<1>12. ASSUME NEW p \in Proc, BreadStart(p)
       PROVE  RequestNext(p)
  <2>1. pc[p] = "got" /\ held' = held /\ uerr' = uerr /\ pc'[p] \in {"getra", "iowait"}
    BY <1>0, <1>12 DEF BreadStart, Continue
  <2>2. QueuedNext(held[p]) /\ "READ" \in bflags'[held[p]]
    BY <1>12, Effects DEF Started
  <2>3. ~ uerr[p]
    BY <1>0, <2>1 DEF Requests
  <2> QED BY <2>1, <2>2, <2>3 DEF RequestNext
<1>13. ASSUME NEW p \in Proc, BreadaAhead(p)
       PROVE  RequestNext(p)
  <2>1. pc[p] = "gotra" /\ held' = held /\ uerr' = uerr /\ pc'[p] = "iowait"
    BY <1>0, <1>13 DEF BreadaAhead, Continue
  <2>2. held[p] \in Buffer /\ held[p] # ahead[p]
    BY <1>2, <1>3, <2>1 DEF OwnPCs
  <2>3. Same(held[p])
    BY <1>13, <2>2, Effects DEF Started, Released, OnlyAt
  <2> QED BY <1>0, <2>1, <2>3 DEF RequestNext, Same, Requests
<1>14. ASSUME NEW p \in Proc, IOWaitDone(p)
       PROVE  RequestNext(p)
  <2>1. /\ pc[p] = "iowait" /\ held' = held /\ pc'[p] = "use" /\ req' = req
        /\ uerr'[p] = (uerr[p] \/ "ERROR" \in bflags[held[p]])
        /\ "DONE" \in bflags[held[p]]
    BY <1>0, <1>14 DEF IOWaitDone, Continue, GetError
  <2>2. held[p] \in Buffer /\ Same(held[p]) /\ ~ Queued(held[p]) /\ ~ uerr[p]
    BY <1>0, <1>2, <1>14, <2>1, Effects, OwnedFacts DEF OwnPCs, Requests
  <2>3. uerr'[p] => req[p].blk \in bad
    BY <1>0, <2>1, <2>2 DEF IndInv, Lists, FlagsOK, Locals, OwnPCs
  <2> QED BY <1>0, <2>1, <2>2, <2>3 DEF RequestNext, Same
<1>15. ASSUME NEW p \in Proc, Bwrite(p)
       PROVE  RequestNext(p)
  <2>1. held' = held /\ pc'[p] = "bwait"
    BY <1>0, <1>15 DEF Bwrite, Continue
  <2>2. QueuedNext(held[p]) /\ "READ" \notin bflags'[held[p]]
    BY <1>15, Effects DEF Started, WriteFlags
  <2> QED BY <2>1, <2>2 DEF RequestNext
<1>16. ASSUME NEW p \in Proc, \/ UseRelease(p) \/ Bdwrite(p) \/ Bawrite(p)
                              \/ BawriteError(p) \/ BwriteDone(p) \/ BflushDone(p)
       PROVE  RequestNext(p)
  <2>1. pc'[p] \in {"user", "awerr"}
    BY <1>0, <1>16 DEF UseRelease, Bdwrite, Bawrite, BawriteError, BwriteDone,
       BflushDone, Return, Continue
  <2> QED BY <2>1 DEF RequestNext
<1>17. ASSUME ATAHandler, NEW q \in Proc
       PROVE  RequestNext(q)
  <2>1. UNCHANGED <<pc, req, held, ahead, uerr>>
    BY <1>17, DiskEffect
  <2>2. CASE UNCHANGED <<bflags, ioq, bblk, bdata>>
    <3>1. \A c \in Buffer : Same(c)
      BY <2>2, SharedEffects
    <3> QED BY <1>2, <1>3, <1>4, <2>1, <3>1
  <2>3. ASSUME NEW b \in Buffer, NEW f, Completed(b, f),
               \A g : g # "ERROR" => (g \in f <=> g \in bflags[b])
        PROVE  RequestNext(q)
    <3>1. CASE pc[q] \in OwnPCs /\ held[q] = b
      <4>1. /\ ~ QueuedNext(b) /\ Queued(b) /\ "DONE" \in bflags'[b]
            /\ "READ" \in bflags'[b] <=> "READ" \in bflags[b]
            /\ \A c \in Buffer : c # b => Same(c)
        BY <2>3 DEF Completed, OnlyAt
      <4>2. pc[q] = "gotra" => Same(ahead[q])
        BY <1>3, <3>1, <4>1
      <4> QED BY <1>0, <2>1, <3>1, <4>1, <4>2 DEF RequestNext, Requests, Same
    <3>2. CASE pc[q] = "gotra" /\ ahead[q] = b
      BY <1>0, <2>3, <3>2 DEF Completed, Requests
    <3>3. CASE ~ (pc[q] \in OwnPCs /\ held[q] = b) /\ ~ (pc[q] = "gotra" /\ ahead[q] = b)
      <4>1. \A c \in Buffer : c # b => Same(c)
        BY <2>3 DEF Completed, OnlyAt
      <4> QED BY <1>2, <1>3, <1>4, <2>1, <3>3, <4>1
    <3> QED BY <3>1, <3>2, <3>3
  <2> QED BY <1>17, <2>2, <2>3, DiskEffect
<1>18. ASSUME NEW p \in Proc, Step(p)
       PROVE  RequestNext(p)
  BY <1>18, <1>7, <1>8, <1>9, <1>10, <1>11, <1>12, <1>13, <1>14, <1>15, <1>16 DEF Step
<1>19. ASSUME NEW p \in Proc, Step(p) \/ Call(p)
       PROVE  \A q \in Proc : RequestNext(q)
  BY <1>5, <1>6, <1>18, <1>19
<1> QED BY <1>1, <1>17, <1>19 DEF Next

----------------------------------------------------------------------------
(* Sleeping and waking *)

\* What NoLostWakeup says of a process.
SleepOK(q) ==
    /\ wchan[q] = FreeList => freeWanted /\ pc[q] \in {"getblk", "getra"}
    /\ wchan[q] \in Buffer =>
         \/ /\ pc[q] \in {"iowait", "bwait"}
            /\ held[q] = wchan[q] /\ Queued(wchan[q])
         \/ /\ pc[q] \in {"getblk", "getra"}
            /\ {"BUSY", "WANTED"} \subseteq bflags[wchan[q]]

SleepNext(q) ==
    /\ wchan'[q] = FreeList => freeWanted' /\ pc'[q] \in {"getblk", "getra"}
    /\ wchan'[q] \in Buffer =>
         \/ /\ pc'[q] \in {"iowait", "bwait"}
            /\ held'[q] = wchan'[q] /\ QueuedNext(wchan'[q])
         \/ /\ pc'[q] \in {"getblk", "getra"}
            /\ "BUSY" \in bflags'[wchan'[q]] /\ "WANTED" \in bflags'[wchan'[q]]

\* A step that wakes nobody, and leaves alone the buffer on which q sleeps or
\* adds flags to it, leaves q with a wake-up to come.
LEMMA StaysAsleep ==
  ASSUME IndInv, NEW q \in Proc,
         wchan'[q] = wchan[q], pc'[q] = pc[q], held'[q] = held[q],
         freeWanted => freeWanted',
         \A c \in Buffer : wchan[q] = c =>
           /\ Queued(c) => QueuedNext(c)
           /\ {"BUSY", "WANTED"} \subseteq bflags[c] =>
                "BUSY" \in bflags'[c] /\ "WANTED" \in bflags'[c]
  PROVE  SleepNext(q)
<1>1. SleepOK(q)
  BY DEF IndInv, NoLostWakeup, SleepOK
<1>2. wchan[q] \in Chan /\ freeWanted \in BOOLEAN
  BY DEF IndInv, TypeOK
<1> QED BY <1>1, <1>2 DEF SleepOK, SleepNext

\* No step loses a wake-up.
LEMMA WakeupStep ==
  ASSUME IndInv, Next
  PROVE  NoLostWakeup'
<1>0. /\ TypeOK /\ Lists /\ NoLostWakeup /\ ConstantsAssumption
      /\ bflags \in [Buffer -> SUBSET Flags]
      /\ pc \in [Proc -> PCs] /\ wchan \in [Proc -> Chan]
      /\ held \in [Proc -> Buffer \cup {NoBuf}]
      /\ freeWanted \in BOOLEAN
      /\ \A q \in Proc : SleepOK(q)
      /\ freeWanted => freelist = << >>
  BY ConstantsAssumption DEF IndInv, TypeOK, NoLostWakeup, SleepOK
<1>1. ASSUME \A q \in Proc : SleepNext(q), freeWanted' => freelist' = << >>
      PROVE  NoLostWakeup'
  <2>1. (active = 1 <=> ioq # << >>)'
    BY ListsStep DEF Lists
  <2>2. (\A q \in Proc : SleepNext(q)) => \A q \in Proc : SleepOK(q)'
    BY DEF SleepNext, SleepOK, Queued, QueuedNext
  <2> QED BY <1>1, <2>1, <2>2 DEF NoLostWakeup, SleepOK
\* a process that runs
<1>2. ASSUME NEW p \in Proc, Running(p) \/ pc[p] = "user", wchan'[p] = wchan[p]
      PROVE  SleepNext(p)
  <2>1. wchan[p] = NoChan
    BY <1>0, <1>2 DEF Running, SleepOK, Chan
  <2> QED BY <1>0, <1>2, <2>1 DEF SleepNext, ConstantsAssumption
\* a step that changes nothing in a busy buffer but by adding to its flags
<1>3. ASSUME NEW p \in Proc, Step(p) \/ Call(p), wchan' = wchan, freeWanted' = freeWanted,
             Running(p) \/ pc[p] = "user",
             \A c \in Buffer : "BUSY" \in bflags[c] =>
               /\ Queued(c) => QueuedNext(c)
               /\ {"BUSY", "WANTED"} \subseteq bflags[c] =>
                    "BUSY" \in bflags'[c] /\ "WANTED" \in bflags'[c]
      PROVE  \A q \in Proc : SleepNext(q)
  <2>1. ASSUME NEW q \in Proc, q # p
        PROVE  SleepNext(q)
    <3>1. pc'[q] = pc[q] /\ held'[q] = held[q]
      BY <1>3, <2>1, OthersKept
    <3>2. \A c \in Buffer : Queued(c) => "BUSY" \in bflags[c]
      BY <1>0 DEF Lists, FlagsOK
    <3> QED BY <1>3, <3>1, <3>2, StaysAsleep
  <2> QED BY <1>2, <1>3, <2>1
\* a step that releases a buffer which it does not leave queued
<1>4. ASSUME NEW b \in Buffer, NEW f, Brelse(b, f), OnlyAt(b),
             "WANTED" \in bflags[b] => "WANTED" \in f,
             NEW q \in Proc, pc'[q] = pc[q], held'[q] = held[q],
             pc[q] \in {"iowait", "bwait"} => held[q] # b
      PROVE  SleepNext(q)
  <2> DEFINE S == (IF "WANTED" \in f THEN {b} ELSE {})
                    \cup (IF freeWanted THEN {FreeList} ELSE {})
  <2>1. wchan'[q] = IF wchan[q] \in S THEN NoChan ELSE wchan[q]
    BY <1>4 DEF Brelse, Woken
  <2>2. wchan[q] = FreeList => wchan[q] \in S
    BY <1>0 DEF SleepOK
  <2>3. wchan[q] = b => wchan[q] \in S
    BY <1>0, <1>4 DEF SleepOK
  <2>4. ASSUME NEW c \in Buffer, c # b, wchan'[q] = c
        PROVE  wchan[q] = c /\ Same(c)
    BY <1>0, <1>4, <2>1, <2>4 DEF OnlyAt, ConstantsAssumption
  <2>5. wchan'[q] # FreeList /\ wchan'[q] # b
    BY <1>0, <2>1, <2>2, <2>3 DEF ConstantsAssumption
  <2> HIDE DEF S
  <2>6. SleepOK(q)
    BY <1>0
  <2> QED BY <1>4, <2>4, <2>5, <2>6 DEF SleepNext, SleepOK, Same
<1>5. ASSUME NEW p \in Proc, GetBlkBusy(p)
      PROVE  NoLostWakeup'
  <2>1. PICK b \in Buffer : /\ "BUSY" \in bflags[b] /\ Sleep(p, b)
                            /\ bflags' = [bflags EXCEPT ![b] = @ \cup {"WANTED"}]
    BY <1>5 DEF GetBlkBusy
  <2>2. /\ UNCHANGED <<freelist, freeWanted, ioq, pc, held>>
        /\ pc[p] \in {"getblk", "getra"}
    BY <1>5 DEF GetBlkBusy, devVars
  <2>3. wchan' = [wchan EXCEPT ![p] = b]
    BY <2>1 DEF Sleep
  <2>4. "BUSY" \in bflags'[b] /\ "WANTED" \in bflags'[b]
    BY <1>0, <2>1
  <2>5. SleepNext(p)
    BY <1>0, <2>2, <2>3, <2>4 DEF SleepNext, ConstantsAssumption
  <2>6. \A c \in Buffer : Same(c)
    BY <1>5, Effects
  <2>7. ASSUME NEW q \in Proc, q # p
        PROVE  SleepNext(q)
    BY <1>0, <2>2, <2>3, <2>6, <2>7, StaysAsleep DEF Same
  <2> QED BY <1>0, <1>1, <2>2, <2>5, <2>7
<1>6. ASSUME NEW p \in Proc, GetBlkEmpty(p)
      PROVE  NoLostWakeup'
  <2>1. /\ wchan' = [wchan EXCEPT ![p] = FreeList] /\ freeWanted' = TRUE
        /\ UNCHANGED <<freelist, pc, held>> /\ freelist = << >>
        /\ pc[p] \in {"getblk", "getra"}
    BY <1>6 DEF GetBlkEmpty, Sleep
  <2>2. SleepNext(p)
    BY <1>0, <2>1 DEF SleepNext, ConstantsAssumption
  <2>3. \A c \in Buffer : Same(c)
    BY <1>6, Effects
  <2>4. ASSUME NEW q \in Proc, q # p
        PROVE  SleepNext(q)
    BY <1>0, <2>1, <2>3, <2>4, StaysAsleep DEF Same
  <2> QED BY <1>1, <2>1, <2>2, <2>4
<1>7. ASSUME NEW p \in Proc, IOWaitSleep(p)
      PROVE  NoLostWakeup'
  <2>1. /\ wchan' = [wchan EXCEPT ![p] = held[p]]
        /\ UNCHANGED <<freelist, freeWanted, ioq, pc, held>>
        /\ pc[p] \in {"iowait", "bwait"} /\ "DONE" \notin bflags[held[p]]
    BY <1>7 DEF IOWaitSleep, Sleep, bufVars, devVars
  <2>2. held[p] \in Buffer /\ Queued(held[p])
    BY <2>1 DEF IndInv, Locals, Requests, OwnPCs
  <2>3. \A c \in Buffer : Same(c)
    BY <1>7, Effects
  <2>4. SleepNext(p)
    BY <1>0, <2>1, <2>2, <2>3 DEF SleepNext, Same, ConstantsAssumption
  <2>5. ASSUME NEW q \in Proc, q # p
        PROVE  SleepNext(q)
    BY <1>0, <2>1, <2>3, <2>5, StaysAsleep DEF Same
  <2> QED BY <1>0, <1>1, <2>1, <2>4, <2>5
<1>8. ASSUME NEW p \in Proc, \/ BreadCached(p) \/ IOWaitDone(p) \/ BawriteError(p)
                             \/ BflushDone(p) \/ Call(p)
      PROVE  NoLostWakeup'
  <2>1. /\ UNCHANGED <<wchan, freelist, freeWanted>>
        /\ Step(p) \/ Call(p)
        /\ Running(p) \/ pc[p] = "user"
    BY <1>8 DEF Step, BreadCached, IOWaitDone, BawriteError, BflushDone, Call,
       ReadI, ReadIAhead, WriteI, IUpdate, Sync, Begin, bufVars
  <2>2. \A c \in Buffer : Same(c)
    BY <1>8, Effects
  <2>3. \A q \in Proc : SleepNext(q)
    BY <1>3, <2>1, <2>2 DEF Same
  <2> QED BY <1>0, <1>1, <2>1, <2>3
<1>9. ASSUME NEW p \in Proc, GetBlkDelwri(p) \/ BflushNext(p)
      PROVE  NoLostWakeup'
  <2>1. UNCHANGED <<wchan, freeWanted>> /\ Running(p) /\ Step(p)
    BY <1>9 DEF Step, GetBlkDelwri, BflushNext
  <2>2. PICK b \in Buffer : Flushed(b)
    BY <1>9, Effects
  <2>3. "BUSY" \notin bflags[b] /\ freelist # << >>
    BY <1>0, <2>2 DEF Flushed, Lists, FlagsOK, InFree
  <2>4. \A q \in Proc : SleepNext(q)
    BY <1>3, <2>1, <2>2, <2>3 DEF Flushed, OnlyAt, Same
  <2> QED BY <1>0, <1>1, <2>1, <2>3, <2>4
<1>10. ASSUME NEW p \in Proc, GetBlkMain(p) \/ GetBlkAhead(p)
       PROVE  NoLostWakeup'
  <2>1. UNCHANGED <<wchan, freeWanted>> /\ Running(p) /\ Step(p)
    BY <1>10 DEF Step, GetBlkMain, GetBlkAhead
  <2>0. PICK b \in Buffer : \E k : Got(k, b)
    BY <1>10, Effects
  <2>2. PICK k : Got(k, b)
    BY <2>0
  <2>3. "BUSY" \notin bflags[b] /\ freelist # << >>
    BY <1>0, <2>2 DEF Got, Lists, FlagsOK, InFree
  <2>4. \A q \in Proc : SleepNext(q)
    BY <1>3, <2>1, <2>2, <2>3 DEF Got, OnlyAt, Same
  <2> QED BY <1>0, <1>1, <2>1, <2>3, <2>4
<1>11. ASSUME NEW p \in Proc, \/ BreadStart(p) \/ Bawrite(p) \/ Bwrite(p)
                              \/ BreadaAhead(p) /\ "DONE" \notin bflags[ahead[p]]
       PROVE  NoLostWakeup'
  <2>1. UNCHANGED <<wchan, freelist, freeWanted>> /\ Running(p) /\ Step(p)
    BY <1>11 DEF Step, BreadStart, Bawrite, Bwrite, BreadaAhead
  <2>2. PICK b, f : /\ Started(b, f) /\ ("BUSY" \in bflags[b] => "BUSY" \in f)
                    /\ ("WANTED" \in bflags[b] => "WANTED" \in f)
    <3>1. CASE BreadStart(p)
      <4>1. Started(held[p], (bflags[held[p]] \cup {"READ"}))
        BY <3>1, Effects
      <4>2. /\ "BUSY" \in bflags[held[p]] => "BUSY" \in (bflags[held[p]] \cup {"READ"})
            /\ "WANTED" \in bflags[held[p]] => "WANTED" \in (bflags[held[p]] \cup {"READ"})
        OBVIOUS
      <4> QED BY <4>1, <4>2
    <3>2. CASE BreadaAhead(p) /\ "DONE" \notin bflags[ahead[p]]
      <4>1. Started(ahead[p], (bflags[ahead[p]] \cup {"READ", "ASYNC"}))
        BY <3>2, Effects
      <4>2. /\ "BUSY" \in bflags[ahead[p]] => "BUSY" \in (bflags[ahead[p]] \cup {"READ", "ASYNC"})
            /\ "WANTED" \in bflags[ahead[p]] => "WANTED" \in (bflags[ahead[p]] \cup {"READ", "ASYNC"})
        OBVIOUS
      <4> QED BY <4>1, <4>2
    <3>3. CASE Bawrite(p)
      <4>1. Started(held[p], WriteFlags(bflags[held[p]] \cup {"ASYNC"}))
        BY <3>3, Effects
      <4>2. /\ "BUSY" \in bflags[held[p]] => "BUSY" \in WriteFlags(bflags[held[p]] \cup {"ASYNC"})
            /\ "WANTED" \in bflags[held[p]] => "WANTED" \in WriteFlags(bflags[held[p]] \cup {"ASYNC"})
        BY DEF WriteFlags
      <4> QED BY <4>1, <4>2
    <3>4. CASE Bwrite(p)
      <4>1. Started(held[p], WriteFlags(bflags[held[p]]))
        BY <3>4, Effects
      <4>2. /\ "BUSY" \in bflags[held[p]] => "BUSY" \in WriteFlags(bflags[held[p]])
            /\ "WANTED" \in bflags[held[p]] => "WANTED" \in WriteFlags(bflags[held[p]])
        BY DEF WriteFlags
      <4> QED BY <4>1, <4>2
    <3> QED BY <1>11, <3>1, <3>2, <3>3, <3>4
  <2>3. \A q \in Proc : SleepNext(q)
    BY <1>3, <2>1, <2>2 DEF Started, OnlyAt, Same
  <2> QED BY <1>0, <1>1, <2>1, <2>3
<1>12. ASSUME NEW p \in Proc, NEW b \in Buffer, NEW f, Step(p), Running(p),
              Brelse(b, f), Released(b, f), Owns(p, b),
              bflags[b] \subseteq f
       PROVE  NoLostWakeup'
  <2>1. OnlyAt(b) /\ freeWanted' = FALSE
    BY <1>12 DEF Released, Brelse
  <2>2. ASSUME NEW q \in Proc, q # p
        PROVE  SleepNext(q)
    <3>1. pc'[q] = pc[q] /\ held'[q] = held[q]
      BY <1>12, <2>2, OthersKept
    <3>2. pc[q] \in {"iowait", "bwait"} => held[q] # b
      BY <1>12, <2>2 DEF IndInv, OneOwner, Owns
    <3> QED BY <1>4, <1>12, <2>1, <3>1, <3>2
  <2>3. wchan'[p] = wchan[p]
    BY <1>0, <1>12 DEF Brelse, Woken, Running
  <2> QED BY <1>1, <1>2, <1>12, <2>1, <2>2, <2>3
<1>13. ASSUME NEW p \in Proc, \/ UseRelease(p) \/ Bdwrite(p) \/ BwriteDone(p)
                              \/ BreadaAhead(p) /\ "DONE" \in bflags[ahead[p]]
       PROVE  NoLostWakeup'
  <2>1. Running(p) /\ Step(p)
    BY <1>13 DEF Step, UseRelease, Bdwrite, BwriteDone, BreadaAhead
  <2>2. CASE BreadaAhead(p) /\ "DONE" \in bflags[ahead[p]]
    <3>1. PICK b \in Buffer : b = ahead[p] /\ Owns(p, b)
      BY <2>2 DEF BreadaAhead, Owns, IndInv, Locals
    <3>2. Brelse(b, bflags[b]) /\ Released(b, bflags[b])
      BY <2>2, <3>1, Effects DEF BreadaAhead
    <3> QED BY <1>12, <2>1, <3>1, <3>2
  <2>3. CASE UseRelease(p) \/ Bdwrite(p) \/ BwriteDone(p)
    <3>1. PICK b \in Buffer : b = held[p] /\ Owns(p, b)
      BY <2>3 DEF UseRelease, Bdwrite, BwriteDone, Owns, OwnPCs, IndInv, Locals
    <3>2. PICK f : Brelse(b, f) /\ Released(b, f) /\ bflags[b] \subseteq f
      <4>1. CASE UseRelease(p) \/ BwriteDone(p)
        BY <3>1, <4>1, Effects DEF UseRelease, BwriteDone
      <4>2. CASE Bdwrite(p)
        <5> DEFINE g == bflags[b] \cup {"DELWRI", "DONE"}
        <5>1. Brelse(b, g) /\ Released(b, g)
          BY <3>1, <4>2, Effects DEF Bdwrite
        <5>2. bflags[b] \subseteq g
          OBVIOUS
        <5> QED BY <5>1, <5>2
      <4> QED BY <2>3, <4>1, <4>2
    <3> QED BY <1>12, <2>1, <3>1, <3>2
  <2> QED BY <1>13, <2>2, <2>3
<1>14. ASSUME ATAHandler
       PROVE  NoLostWakeup'
  <2>1. UNCHANGED <<pc, held>>
    BY <1>14, DiskEffect
  <2>2. CASE UNCHANGED <<bflags, bblk, bdata, ioq, wchan, freelist, freeWanted>>
    <3>1. \A c \in Buffer : Same(c)
      BY <2>2, SharedEffects
    <3>2. \A q \in Proc : SleepNext(q)
      BY <1>0, <2>1, <2>2, <3>1, StaysAsleep DEF Same
    <3> QED BY <1>0, <1>1, <2>2, <3>2
  <2>3. ASSUME NEW b \in Buffer, NEW f, Complete(b, f), Completed(b, f),
               \A g : g # "ERROR" => (g \in f <=> g \in bflags[b])
        PROVE  NoLostWakeup'
    <3>1. OnlyAt(b) /\ Queued(b)
      BY <2>3 DEF Completed
    <3>2. CASE "ASYNC" \in f
      <4>1. Brelse(b, f \cup {"DONE"})
        BY <2>3, <3>2 DEF Complete, IODone
      <4>2. \A q \in Proc : pc[q] \in {"iowait", "bwait"} => held[q] # b
        BY <2>3, <3>2, OwnedFacts DEF Owns, OwnPCs
      <4>3. \A q \in Proc : SleepNext(q)
        BY <1>4, <2>1, <2>3, <3>1, <4>1, <4>2
      <4>4. freeWanted' = FALSE
        BY <4>1 DEF Brelse
      <4> QED BY <1>1, <4>3, <4>4
    <3>3. CASE "ASYNC" \notin f
      <4>1. wchan' = Woken({b}) /\ UNCHANGED <<freelist, freeWanted>>
        BY <2>3, <3>3 DEF Complete, IODone
      <4>2. ASSUME NEW q \in Proc
            PROVE  SleepNext(q)
        <5>1. CASE wchan[q] = b
          BY <1>0, <4>1, <5>1 DEF Woken, SleepNext, ConstantsAssumption
        <5>2. CASE wchan[q] # b
          <6>1. wchan'[q] = wchan[q]
            BY <4>1, <5>2 DEF Woken
          <6>2. \A c \in Buffer : wchan[q] = c => Same(c)
            BY <3>1, <5>2 DEF OnlyAt
          <6> QED BY <2>1, <4>1, <6>1, <6>2, StaysAsleep DEF Same
        <5> QED BY <5>1, <5>2
      <4> QED BY <1>0, <1>1, <4>1, <4>2
    <3> QED BY <3>2, <3>3
  <2> QED BY <1>14, <2>2, <2>3, DiskEffect
<1>15. ASSUME NEW p \in Proc, Step(p) \/ Call(p)
       PROVE  NoLostWakeup'
  BY <1>15, <1>5, <1>6, <1>7, <1>8, <1>9, <1>10, <1>11, <1>13 DEF Step
<1> QED BY <1>14, <1>15 DEF Next

----------------------------------------------------------------------------
(* The contents of the blocks *)

ValidNext(b) == "DONE" \in bflags'[b] \/ (QueuedNext(b) /\ "READ" \notin bflags'[b])

\* b need not be written out before it is reused.
Clean(b) == "DELWRI" \notin bflags[b] /\ ~ Queued(b)
CleanNext(b) == "DELWRI" \notin bflags'[b] /\ ~ QueuedNext(b)

\* What NoLostWrite says of a block, before and after a step.
KeptSafe(k) ==
  /\ \A b \in Buffer : bblk[b] = k /\ Valid(b) => bdata[b] = content[k]
  /\ (\A b \in Buffer : bblk[b] = k /\ Valid(b) => Clean(b)) => disk[k] = content[k]
SafeNext(k) ==
  /\ \A b \in Buffer : bblk'[b] = k /\ ValidNext(b) => bdata'[b] = content'[k]
  /\ (\A b \in Buffer : bblk'[b] = k /\ ValidNext(b) => CleanNext(b))
       => disk'[k] = content'[k]

\* Writing the same bytes over equal blocks, or over a whole block, gives
\* equal blocks.
LEMMA MergeEqual ==
  ASSUME NEW d, NEW e, NEW parts, NEW v, parts = Part \/ d = e
  PROVE  Merge(d, parts, v) = Merge(e, parts, v)
BY DEF Merge

\* A step that changes one buffer, neither disk nor block contents, and
\* leaves the buffer valid only if it was, with the same bytes, and clean
\* only if it was clean or invalid.
LEMMA SafeKept ==
  ASSUME IndInv, NEW b \in Buffer, OnlyAt(b), NEW k \in Block, KeptSafe(k),
         disk' = disk, content'[k] = content[k],
         bblk[b] = k /\ Valid(b) /\ ~ Clean(b) =>
           bblk'[b] = k /\ ValidNext(b) /\ ~ CleanNext(b),
         bblk'[b] = k /\ ValidNext(b) =>
           bblk[b] = k /\ Valid(b) /\ bdata'[b] = bdata[b]
  PROVE  SafeNext(k)
<1>1. \A c \in Buffer : c # b => /\ bblk'[c] = bblk[c] /\ bdata'[c] = bdata[c]
                                 /\ ValidNext(c) <=> Valid(c)
                                 /\ CleanNext(c) <=> Clean(c)
  BY DEF OnlyAt, Same, Valid, ValidNext, Clean, CleanNext
<1>2. ASSUME NEW c \in Buffer, bblk'[c] = k, ValidNext(c)
      PROVE  bdata'[c] = content'[k]
  BY <1>1, <1>2 DEF KeptSafe
<1>3. ASSUME \A c \in Buffer : bblk'[c] = k /\ ValidNext(c) => CleanNext(c)
      PROVE  disk'[k] = content'[k]
  <2>1. \A c \in Buffer : bblk[c] = k /\ Valid(c) => Clean(c)
    BY <1>1, <1>3
  <2> QED BY <2>1 DEF KeptSafe
<1> QED BY <1>2, <1>3 DEF SafeNext

\* A write into the buffer b of block k, which then waits to be written out.
LEMMA SafeWritten ==
  ASSUME IndInv, NEW b \in Buffer, OnlyAt(b), NEW k \in Block,
         bblk[b] = k, bblk'[b] = k, ValidNext(b), ~ CleanNext(b),
         bdata'[b] = content'[k]
  PROVE  SafeNext(k)
<1>1. \A c \in Buffer : bblk'[c] = k => c = b
  BY ConstantsAssumption DEF IndInv, OneBufferPerBlock, OnlyAt, Same
<1> QED BY <1>1 DEF SafeNext

\* No step loses a write.
LEMMA WriteStep ==
  ASSUME IndInv, Next
  PROVE  NoLostWrite'
<1>0. /\ TypeOK /\ Lists /\ Requests /\ Locals /\ OneBufferPerBlock
      /\ \A b \in Buffer : FlagsOK(b)
      /\ bflags \in [Buffer -> SUBSET Flags]
      /\ bblk \in [Buffer -> Block \cup {NoBlock}]
      /\ bdata \in [Buffer -> Data] /\ disk \in [Block -> Data]
      /\ content \in [Block -> Data]
      /\ NBUF \in Nat \ {0} /\ 1 \in Buffer
  BY ConstantsAssumption DEF IndInv, TypeOK, Buffer, Lists
<1>1. \A k \in Block : k \notin bad => KeptSafe(k)
  BY DEF IndInv, NoLostWrite, KeptSafe, Clean
<1>2. ASSUME \A k \in Block : k \notin bad' => SafeNext(k)
      PROVE  NoLostWrite'
  BY <1>2 DEF NoLostWrite, SafeNext, ValidNext, Valid, CleanNext, Queued, QueuedNext
<1>3. ASSUME \A c \in Buffer : Same(c), UNCHANGED <<disk, content, bad>>
      PROVE  NoLostWrite'
  <2>1. OnlyAt(1) /\ Same(1)
    BY <1>0, <1>3 DEF OnlyAt
  <2>2. (ValidNext(1) <=> Valid(1)) /\ (CleanNext(1) <=> Clean(1)) /\ bblk'[1] = bblk[1]
        /\ bdata'[1] = bdata[1]
    BY <2>1 DEF Same, Valid, ValidNext, Clean, CleanNext
  <2>3. \A k \in Block : k \notin bad => SafeNext(k)
    BY <1>0, <1>1, <1>3, <2>1, <2>2, SafeKept
  <2> QED BY <1>2, <1>3, <2>3
<1>4. ASSUME NEW p \in Proc, \/ GetBlkBusy(p) \/ GetBlkEmpty(p) \/ BreadCached(p)
                             \/ IOWaitSleep(p) \/ IOWaitDone(p) \/ BawriteError(p)
                             \/ BflushDone(p) \/ Call(p)
      PROVE  NoLostWrite'
  <2>1. \A c \in Buffer : Same(c)
    BY <1>4, Effects
  <2>2. UNCHANGED <<disk, content, bad>>
    BY <1>4 DEF GetBlkBusy, GetBlkEmpty, BreadCached, IOWaitSleep, IOWaitDone,
       BawriteError, BflushDone, Call, ReadI, ReadIAhead, WriteI, IUpdate, Sync,
       Begin, devVars, histVars
  <2> QED BY <1>3, <2>1, <2>2
<1>5. ASSUME NEW p \in Proc, GetBlkDelwri(p) \/ BflushNext(p)
      PROVE  NoLostWrite'
  <2>1. PICK b \in Buffer : Flushed(b)
    BY <1>5, Effects
  <2>2. UNCHANGED <<disk, content, bad>>
    BY <1>5 DEF GetBlkDelwri, BflushNext, histVars
  <2>3. Valid(b) /\ ValidNext(b) /\ ~ CleanNext(b)
    BY <1>0, <2>1 DEF Flushed, FlagsOK, Valid, ValidNext, CleanNext, WriteFlags
  <2>4. OnlyAt(b) /\ bblk'[b] = bblk[b] /\ bdata'[b] = bdata[b]
    BY <2>1 DEF Flushed
  <2> QED BY <1>1, <1>2, <2>2, <2>3, <2>4, SafeKept
<1>6. ASSUME NEW p \in Proc, GetBlkMain(p) \/ GetBlkAhead(p)
      PROVE  NoLostWrite'
  <2>0. PICK b \in Buffer : \E k : Got(k, b)
    BY <1>6, Effects
  <2>1. PICK k : Got(k, b)
    BY <2>0
  <2>2. UNCHANGED <<disk, content, bad>>
    BY <1>6 DEF GetBlkMain, GetBlkAhead, devVars, histVars
  <2>3. CASE bblk[b] = k /\ bflags'[b] = bflags[b] \cup {"BUSY"}
    <3>1. (ValidNext(b) <=> Valid(b)) /\ (CleanNext(b) <=> Clean(b))
      BY <2>1, <2>3 DEF Got, Valid, ValidNext, Clean, CleanNext
    <3>2. OnlyAt(b) /\ bblk'[b] = bblk[b] /\ bdata'[b] = bdata[b]
      BY <2>1, <2>3 DEF Got
    <3> QED BY <1>1, <1>2, <2>2, <3>1, <3>2, SafeKept
  <2>4. CASE "DELWRI" \notin bflags[b] /\ bflags'[b] = {"BUSY"}
    <3>1. ~ ValidNext(b) /\ Clean(b)
      BY <2>1, <2>4 DEF Got, ValidNext, Clean
    <3>2. OnlyAt(b)
      BY <2>1 DEF Got
    <3> QED BY <1>1, <1>2, <2>2, <3>1, <3>2, SafeKept
  <2> QED BY <2>1, <2>3, <2>4 DEF Got
<1>7. ASSUME NEW p \in Proc, \/ BreadStart(p)
                             \/ BreadaAhead(p) /\ "DONE" \notin bflags[ahead[p]]
      PROVE  NoLostWrite'
  <2>1. PICK b \in Buffer : /\ OnlyAt(b) /\ ~ Queued(b) /\ "DONE" \notin bflags[b]
                            /\ "READ" \in bflags'[b] /\ "DONE" \notin bflags'[b]
    <3>1. CASE BreadStart(p)
      <4>1. held[p] \in Buffer /\ "DONE" \notin bflags[held[p]]
        BY <1>0, <3>1 DEF BreadStart, Locals, OwnPCs
      <4>2. Started(held[p], bflags[held[p]] \cup {"READ"})
        BY <3>1, Effects
      <4> QED BY <4>1, <4>2 DEF Started
    <3>2. CASE BreadaAhead(p) /\ "DONE" \notin bflags[ahead[p]]
      <4>1. ahead[p] \in Buffer
        BY <1>0, <3>2 DEF BreadaAhead, Locals
      <4>2. Started(ahead[p], bflags[ahead[p]] \cup {"READ", "ASYNC"})
        BY <3>2, Effects
      <4> QED BY <3>2, <4>1, <4>2 DEF Started
    <3> QED BY <1>7, <3>1, <3>2
  <2>2. UNCHANGED <<disk, content, bad>>
    BY <1>7 DEF BreadStart, BreadaAhead, histVars
  <2>3. ~ Valid(b) /\ ~ ValidNext(b)
    BY <2>1 DEF Valid, ValidNext
  <2> QED BY <1>1, <1>2, <2>1, <2>2, <2>3, SafeKept
<1>8. ASSUME NEW b \in Buffer, Released(b, bflags[b]), UNCHANGED <<disk, content, bad>>,
             bdata'[b] = bdata[b] \/ bblk[b] \in bad
      PROVE  NoLostWrite'
  <2>1. /\ OnlyAt(b) /\ ~ Queued(b) /\ ~ QueuedNext(b) /\ bblk'[b] = bblk[b]
        /\ bflags'[b] = bflags[b] \ {"WANTED", "BUSY", "ASYNC"}
    BY <1>8 DEF Released
  <2>2. (ValidNext(b) <=> Valid(b)) /\ (CleanNext(b) <=> Clean(b))
    BY <2>1 DEF Valid, ValidNext, Clean, CleanNext
  <2>3. ASSUME NEW k \in Block, k \notin bad
        PROVE  SafeNext(k)
    BY <1>1, <1>8, <2>1, <2>2, <2>3, SafeKept
  <2> QED BY <1>2, <1>8, <2>3
<1>9. ASSUME NEW p \in Proc, BreadaAhead(p) /\ "DONE" \in bflags[ahead[p]]
      PROVE  NoLostWrite'
  <2>1. PICK b \in Buffer : b = ahead[p]
    BY <1>0, <1>9 DEF BreadaAhead, Locals
  <2>2. Released(b, bflags[b])
    BY <1>9, <2>1, Effects
  <2>3. UNCHANGED <<disk, content, bad, bdata>>
    BY <1>9 DEF BreadaAhead, histVars
  <2> QED BY <1>8, <2>2, <2>3
<1>10. ASSUME NEW p \in Proc, UseRelease(p) \/ BwriteDone(p)
       PROVE  NoLostWrite'
  <2>1. PICK b \in Buffer : b = held[p] /\ bblk[b] = req[p].blk
    BY <1>0, <1>10 DEF UseRelease, BwriteDone, Locals, OwnPCs
  <2>2. Released(b, bflags[b])
    BY <1>10, <2>1, Effects
  <2>3. UNCHANGED <<disk, content, bad>>
    BY <1>10 DEF UseRelease, BwriteDone, devVars, histVars
  <2>4. bdata'[b] = bdata[b] \/ bblk[b] \in bad
    <3>1. CASE BwriteDone(p) \/ req[p].op # "write"
      BY <1>10, <3>1 DEF UseRelease, BwriteDone
    <3>2. CASE UseRelease(p) /\ req[p].op = "write"
      BY <1>0, <2>1, <3>2 DEF UseRelease, Requests
    <3> QED BY <1>10, <3>1, <3>2
  <2> QED BY <1>8, <2>2, <2>3, <2>4
\* a process has written into its buffer
<1>11. ASSUME NEW p \in Proc, Bdwrite(p) \/ Bawrite(p) \/ Bwrite(p)
       PROVE  NoLostWrite'
  <2>1. PICK b \in Buffer : b = held[p] /\ bblk[b] = req[p].blk
    BY <1>0, <1>11 DEF Bdwrite, Bawrite, Bwrite, Locals, OwnPCs
  <2>2. PICK k \in Block : k = req[p].blk
    BY <1>0, <1>11 DEF Bdwrite, Bawrite, Bwrite, Locals, BusyPCs, OwnPCs
  <2>3. /\ bdata'[b] = Merge(bdata[b], req[p].parts, req[p].val)
        /\ content' = [content EXCEPT ![k] = Merge(@, req[p].parts, req[p].val)]
        /\ bad' = bad /\ disk' = disk
    BY <1>0, <1>11, <2>1, <2>2 DEF Bdwrite, Bawrite, Bwrite, Modify, devVars
  <2>4. /\ OnlyAt(b) /\ bblk'[b] = bblk[b]
        /\ ValidNext(b) /\ ~ CleanNext(b)
    <3>1. CASE Bdwrite(p)
      <4>1. Released(b, bflags[b] \cup {"DELWRI", "DONE"})
        BY <2>1, <3>1, Effects
      <4> QED BY <4>1 DEF Released, ValidNext, CleanNext
    <3>2. CASE Bawrite(p)
      <4>1. Started(b, WriteFlags(bflags[b] \cup {"ASYNC"}))
        BY <2>1, <3>2, Effects
      <4> QED BY <4>1 DEF Started, ValidNext, CleanNext, WriteFlags
    <3>3. CASE Bwrite(p)
      <4>1. Started(b, WriteFlags(bflags[b]))
        BY <2>1, <3>3, Effects
      <4> QED BY <4>1 DEF Started, ValidNext, CleanNext, WriteFlags
    <3> QED BY <1>11, <3>1, <3>2, <3>3
  <2>5. k \notin bad => bdata'[b] = content'[k]
    <3>1. pc[p] = "use" /\ (WholeBlock(p) \/ "DONE" \in bflags[b])
      BY <1>0, <1>11, <2>1 DEF Bdwrite, Bawrite, Bwrite, Requests
    <3>2. content'[k] = Merge(content[k], req[p].parts, req[p].val)
      BY <1>0, <2>3
    <3>3. k \notin bad => bdata[b] = content[k] \/ req[p].parts = Part
      BY <1>1, <2>1, <2>2, <3>1 DEF WholeBlock, KeptSafe, Valid
    <3> QED BY <2>3, <3>2, <3>3, MergeEqual
  <2>6. k \notin bad => SafeNext(k)
    BY <2>1, <2>2, <2>4, <2>5, SafeWritten
  <2>7. ASSUME NEW j \in Block, j # k, j \notin bad
        PROVE  SafeNext(j)
    BY <1>0, <1>1, <2>1, <2>2, <2>3, <2>4, <2>7, SafeKept
  <2> QED BY <1>2, <2>3, <2>6, <2>7
\* the disk
<1>12. ASSUME NEW b \in Buffer, NEW f, Completed(b, f), content' = content,
              \A g : g # "ERROR" => (g \in f <=> g \in bflags[b]),
              \/ Transfer(b) /\ bad' = bad
              \/ (Transfer(b) \/ UNCHANGED <<disk, bdata>>)
                   /\ bad' = bad \cup {bblk[b]}
       PROVE  NoLostWrite'
  <2>1. /\ OnlyAt(b) /\ Queued(b) /\ ~ QueuedNext(b) /\ bblk'[b] = bblk[b]
        /\ "DONE" \in bflags'[b] /\ "DELWRI" \in bflags'[b] <=> "DELWRI" \in bflags[b]
    BY <1>12 DEF Completed
  <2>2. PICK k \in Block : k = bblk[b]
    BY <1>0, <2>1 DEF FlagsOK
  <2>3. \A c \in Buffer : bblk[c] = k => c = b
    BY <1>0, <2>2, ConstantsAssumption DEF OneBufferPerBlock
  <2>4. ASSUME NEW j \in Block, j # k, j \notin bad
        PROVE  SafeNext(j)
    <3>1. \A c \in Buffer : bblk'[c] = j =>
            /\ bblk[c] = j /\ bdata'[c] = bdata[c]
            /\ (ValidNext(c) <=> Valid(c)) /\ (CleanNext(c) <=> Clean(c))
      BY <2>1, <2>2, <2>4 DEF OnlyAt, Same, Valid, ValidNext, Clean, CleanNext
    <3>2. \A c \in Buffer : bblk[c] = j => bblk'[c] = j
      BY <2>1, <2>2, <2>4 DEF OnlyAt, Same
    <3>3. disk'[j] = disk[j]
      BY <1>0, <1>12, <2>2, <2>4 DEF Transfer
    <3> QED BY <1>1, <1>12, <2>4, <3>1, <3>2, <3>3 DEF SafeNext, KeptSafe
  <2>5. ASSUME k \notin bad'
        PROVE  SafeNext(k)
    <3>1. k \notin bad /\ Transfer(b)
      BY <1>12, <2>2, <2>5
    <3>2. KeptSafe(k)
      BY <1>1, <3>1
    <3>3. CASE "READ" \in bflags[b]
      <4>1. ~ Valid(b)
        BY <1>0, <2>1, <3>3 DEF FlagsOK, Valid
      <4>2. disk[k] = content[k]
        BY <2>3, <3>2, <4>1 DEF KeptSafe
      <4>3. bdata'[b] = disk[k] /\ disk' = disk
        BY <1>0, <2>2, <3>1, <3>3 DEF Transfer
      <4> QED BY <1>12, <2>1, <2>3, <4>2, <4>3 DEF SafeNext, OnlyAt, Same
    <3>4. CASE "READ" \notin bflags[b]
      <4>1. Valid(b)
        BY <2>1, <3>4 DEF Valid
      <4>2. bdata[b] = content[k]
        BY <2>2, <3>2, <4>1 DEF KeptSafe
      <4>3. disk'[k] = bdata[b] /\ bdata' = bdata
        BY <1>0, <2>2, <3>1, <3>4 DEF Transfer
      <4> QED BY <1>12, <2>1, <2>3, <4>2, <4>3 DEF SafeNext, OnlyAt, Same
    <3> QED BY <3>3, <3>4
  <2>6. \A j \in Block : j \notin bad' => SafeNext(j)
    <3>1. bad \subseteq bad'
      BY <1>12
    <3> QED BY <2>4, <2>5, <3>1
  <2> QED BY <1>2, <2>6
<1>13. ASSUME ATAHandler
       PROVE  NoLostWrite'
  <2>1. UNCHANGED <<bblk, content>>
    BY <1>13, DiskEffect
  <2>2. CASE UNCHANGED <<disk, bflags, bdata, ioq, bad>>
    <3>1. \A c \in Buffer : Same(c)
      BY <2>1, <2>2, SharedEffects
    <3> QED BY <1>3, <2>1, <2>2, <3>1
  <2>3. CASE ~ UNCHANGED <<disk, bflags, bdata, ioq, bad>>
    <3>0. PICK b \in Buffer : \E f :
            /\ Completed(b, f)
            /\ \A g : g # "ERROR" => (g \in f <=> g \in bflags[b])
            /\ \/ f = bflags[b] /\ Transfer(b) /\ bad' = bad
               \/ (Transfer(b) \/ UNCHANGED <<disk, bdata>>)
                    /\ bad' = bad \cup {bblk[b]}
      BY <1>13, <2>3, DiskEffect
    <3>1. PICK f :
            /\ Completed(b, f)
            /\ \A g : g # "ERROR" => (g \in f <=> g \in bflags[b])
            /\ \/ f = bflags[b] /\ Transfer(b) /\ bad' = bad
               \/ (Transfer(b) \/ UNCHANGED <<disk, bdata>>)
                    /\ bad' = bad \cup {bblk[b]}
      BY <3>0
    <3> QED BY <1>12, <2>1, <3>1
  <2> QED BY <2>2, <2>3
<1>14. ASSUME NEW p \in Proc, Step(p) \/ Call(p)
       PROVE  NoLostWrite'
  BY <1>14, <1>4, <1>5, <1>6, <1>7, <1>9, <1>10, <1>11 DEF Step
<1> QED BY <1>13, <1>14 DEF Next

----------------------------------------------------------------------------
(* The theorems *)

\* The machine starts with an empty cache, every buffer free, no request.
LEMMA InitIndInv ==
  ASSUME Init
  PROVE  IndInv
<1> USE ConstantsAssumption DEF Init
<1>1. TypeOK
  <2>1. NoRequest \in Request /\ AnyVal \in Val
    BY PlainType DEF NoRequest, AllOps
  <2>2. freelist \in Seq(Buffer)
    BY DEF Buffer
  <2>3. bdata \in [Buffer -> Data] /\ disk \in [Block -> Data]
    BY <2>1 DEF Data
  <2>4. pc \in [Proc -> PCs] /\ wchan \in [Proc -> Chan]
    BY DEF PCs, Chan
  <2>5. bblk \in [Buffer -> Block \cup {NoBlock}] /\ bflags \in [Buffer -> SUBSET Flags]
    OBVIOUS
  <2>6. errcnt \in 0 .. MaxRetry /\ active \in {0, 1} /\ ioq \in Seq(Buffer)
    OBVIOUS
  <2> QED BY <2>1, <2>2, <2>3, <2>4, <2>5, <2>6 DEF TypeOK
<1>2. \A b : ~ Queued(b)
  BY DEF Queued
<1>3. Len(freelist) = NBUF /\ \A b \in Buffer : InFree(b)
  BY DEF InFree, Buffer
<1>4. Lists
  BY <1>2, <1>3 DEF Lists, Distinct, FlagsOK
<1>5. Locals /\ Requests
  BY DEF Locals, Requests, OwnPCs, BusyPCs
<1>6. OneBufferPerBlock
  BY DEF OneBufferPerBlock
<1>7. OneOwner
  BY DEF OneOwner, Owns
<1>8. NoLostWakeup
  BY DEF NoLostWakeup
<1>9. NoLostWrite
  BY <1>2 DEF NoLostWrite, Valid
<1> QED BY <1>1, <1>4, <1>5, <1>6, <1>7, <1>8, <1>9 DEF IndInv

\* Every step of a process and every interrupt keeps the invariant.
LEMMA NextIndInv ==
  ASSUME IndInv, [Next]_vars
  PROVE  IndInv'
<1>1. CASE Next
  BY <1>1, TypeStep, LocalsStep, ListsStep, OneBufferStep, OwnerStep,
     RequestsStep, WakeupStep, WriteStep DEF IndInv
<1>2. CASE UNCHANGED vars
  <2> USE <1>2 DEF vars, bufVars, devVars, procVars, histVars
  <2>1. TypeOK' /\ OneBufferPerBlock'
    BY DEF IndInv, TypeOK, OneBufferPerBlock
  <2>2. Locals'
    BY DEF IndInv, Locals, WholeBlock
  <2>3. Lists'
    BY DEF IndInv, Lists, Distinct, FlagsOK, InFree, Queued
  <2>4. OneOwner'
    BY DEF IndInv, OneOwner, Owns, Queued
  <2>5. Requests'
    BY DEF IndInv, Requests, Queued, WholeBlock
  <2>6. NoLostWakeup'
    BY DEF IndInv, NoLostWakeup, Queued
  <2>7. NoLostWrite'
    BY DEF IndInv, NoLostWrite, Valid, Queued
  <2> QED BY <2>1, <2>2, <2>3, <2>4, <2>5, <2>6, <2>7 DEF IndInv
<1> QED BY <1>1, <1>2

\* IndInv is an inductive invariant of the cache.
THEOREM Invariance == Spec => []IndInv
<1>1. Init => IndInv
  BY InitIndInv
<1>2. IndInv /\ [Next]_vars => IndInv'
  BY NextIndInv
<1> QED BY <1>1, <1>2, PTL DEF Spec

\* Every variable of the cache keeps its type.
THEOREM TypeCorrect == Spec => []TypeOK
<1>1. IndInv => TypeOK
  BY DEF IndInv
<1> QED BY <1>1, Invariance, PTL

\* GetBlk never gives a block a second buffer, however its sleeps and the
\* delayed writes that it starts interleave with other processes.
THEOREM NoDuplicateBlock == Spec => []OneBufferPerBlock
<1>1. IndInv => OneBufferPerBlock
  BY DEF IndInv
<1> QED BY <1>1, Invariance, PTL

\* A busy buffer has exactly one owner, a process or an asynchronous transfer.
THEOREM Ownership == Spec => []OneOwner
<1>1. IndInv => OneOwner
  BY DEF IndInv
<1> QED BY <1>1, Invariance, PTL

\* The free list and the request queue, which share the pointers av_forw and
\* av_back of a buffer, have no buffer in common and hold none twice.
THEOREM DisjointLists == Spec => []ListsDisjoint
<1>1. IndInv => ListsDisjoint
  BY DEF IndInv, Lists, ListsDisjoint, Distinct, FlagsOK
<1> QED BY <1>1, Invariance, PTL

\* Whoever sleeps in GetBlk or IOWait has a wake-up to come.
THEOREM WakeupSafety == Spec => []NoLostWakeup
<1>1. IndInv => NoLostWakeup
  BY DEF IndInv
<1> QED BY <1>1, Invariance, PTL

\* The last contents written to a block are in its buffer or on the disk.
THEOREM WriteSafety == Spec => []NoLostWrite
<1>1. IndInv => NoLostWrite
  BY DEF IndInv
<1> QED BY <1>1, Invariance, PTL

\* Bread and Breada return the current contents of the block.
THEOREM ReadSafety == Spec => []ReadIsCurrent
<1>1. ASSUME IndInv, NEW p \in Proc, pc[p] = "use", ~ WholeBlock(p),
             req[p].blk \notin bad
      PROVE  bblk[held[p]] = req[p].blk /\ bdata[held[p]] = content[req[p].blk]
  <2>1. /\ held[p] \in Buffer /\ bblk[held[p]] = req[p].blk
        /\ req[p].blk \in Block
    BY <1>1 DEF IndInv, Locals, OwnPCs, BusyPCs
  <2>2. "DONE" \in bflags[held[p]]
    BY <1>1 DEF IndInv, Requests
  <2> QED BY <1>1, <2>1, <2>2 DEF IndInv, NoLostWrite, Valid
<1>2. IndInv => ReadIsCurrent
  BY <1>1 DEF ReadIsCurrent
<1> QED BY <1>2, Invariance, PTL

=============================================================================
