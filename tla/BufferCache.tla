---------------------------- MODULE BufferCache ----------------------------
(***************************************************************************)
(* The disk block cache of the kernel: class BufferManager                 *)
(* (dev/BufferManager.cpp), the request queue of the ATA disk              *)
(* (dev/BlockDevice.cpp) and its interrupt handler (dev/ATADriver.cpp),    *)
(* used by processes the way Inode::ReadI, Inode::WriteI, Inode::IUpdate   *)
(* (fs/INode.cpp) and FileSystem::Update (fs/FileSystem.cpp) use it.       *)
(*                                                                         *)
(* The kernel runs on one processor and does not preempt a process in      *)
(* kernel mode: `cur' is the process in the middle of a kernel call, and   *)
(* another one runs only after it sleeps or returns to user mode.  Between *)
(* two steps of a process the disk may interrupt.                          *)
(***************************************************************************)
EXTENDS Naturals, Sequences, FiniteSets

CONSTANTS
  Proc,        \* processes
  NBUF,        \* number of buffers (15 in BufferManager.h)
  Block,       \* block numbers of the disk
  WriteBlock,  \* the blocks that processes write to
  Val,         \* what they may write
  DiskImages,  \* the disks the machine may start with
  Ops,         \* the calls the processes make, a subset of AllOps
  MaxRetry,    \* tries repeated before an I/O is given up (10 in ATAHandler)
  HardErrors,  \* may an I/O fail for good?
  NoBlock,     \* b_dev = -1, and rablkno = 0
  Nobody,      \* no process in kernel mode
  NoChan,      \* p_wchan of a process that is not asleep
  FreeList     \* &bFreeList as a sleeping channel

Buffer  == 1 .. NBUF
NoBuf   == 0
Part    == {"lo", "hi"}      \* "hi" holds the last byte of the block
Data    == [Part -> Val]
Flags   == {"READ", "DONE", "ERROR", "BUSY", "WANTED", "ASYNC", "DELWRI"}
AllOps  == {"read", "reada", "write", "iupdate", "sync"}
Chan    == Buffer \cup {FreeList, NoChan}
PCs     == {"user", "getblk", "got", "getra", "gotra", "iowait", "use",
            "bwait", "awerr", "flush"}

ASSUME ConstantsAssumption ==
  /\ NBUF \in Nat \ {0}
  /\ MaxRetry \in Nat
  /\ HardErrors \in BOOLEAN
  /\ Ops \subseteq AllOps
  /\ WriteBlock \subseteq Block
  /\ DiskImages \subseteq [Block -> Data]
  /\ Val # {}
  /\ NoBlock \notin Block
  /\ Nobody \notin Proc
  /\ FreeList \notin Buffer
  /\ NoChan \notin Buffer
  /\ FreeList # NoChan

VARIABLES
  disk,        \* the sectors of the disk
  bblk,        \* b_blkno (NoBlock: the buffer is on no device)
  bflags,      \* b_flags, a set of flags
  bdata,       \* the 512 bytes at b_addr
  freelist,    \* bFreeList.av_forw ...: the free list, oldest first
  freeWanted,  \* B_WANTED in bFreeList.b_flags
  ioq,         \* d_actf ... d_actl: the I/O requests, oldest first
  active,      \* d_active
  errcnt,      \* d_errcnt
  cur,         \* the process in the middle of a kernel call
  pc,          \* where each process is
  wchan,       \* p_wchan
  req,         \* the arguments of the call
  held,        \* bp of Bread, Breada and Bwrite
  ahead,       \* abp of Breada
  uerr,        \* u_error = EIO
  content,     \* history: what the writes so far have made of each block
  bad          \* history: blocks that an I/O failed on for good

bufVars  == <<bblk, bflags, bdata, freelist, freeWanted>>
devVars  == <<disk, ioq, active, errcnt>>
procVars == <<cur, pc, wchan, req, held, ahead, uerr>>
histVars == <<content, bad>>
vars     == <<bufVars, devVars, procVars, histVars>>

Request == [op : AllOps, blk : Block \cup {NoBlock},
            ra : Block \cup {NoBlock}, parts : SUBSET Part, val : Val]

AnyVal == CHOOSE v \in Val : TRUE

Asked(op, k, r, parts, v) ==
  [op |-> op, blk |-> k, ra |-> r, parts |-> parts, val |-> v]

\* a request of which only the operation and the block matter
Plain(op, k) == Asked(op, k, NoBlock, {}, AnyVal)
NoRequest    == Plain("sync", NoBlock)

Merge(d, parts, v) == [i \in Part |-> IF i \in parts THEN v ELSE d[i]]

----------------------------------------------------------------------------
(* The free list and the request queue *)

\* s without its i-th element
Unlink(s, i) == [j \in 1 .. Len(s) - 1 |-> IF j < i THEN s[j] ELSE s[j + 1]]

InFree(b) == \E i \in 1 .. Len(freelist) : freelist[i] = b

\* NotAvail: take b off the free list; the caller sets B_BUSY with its flags
NotAvail(b) == \E i \in 1 .. Len(freelist) :
                 /\ freelist[i] = b
                 /\ freelist' = Unlink(freelist, i)

\* ATABlockDevice::Strategy: queue the request, start the disk if it is idle
Strategy(b) == /\ ioq' = Append(ioq, b)
               /\ active' = 1

InCore(k) == \E b \in Buffer : bblk[b] = k

----------------------------------------------------------------------------
(* Sleeping and waking *)

\* Process::Sleep: the process gives up the processor
Sleep(p, chan) == /\ wchan' = [wchan EXCEPT ![p] = chan]
                  /\ cur' = Nobody

\* ProcessManager::WakeUpAll on every channel of S
Woken(S) == [p \in Proc |-> IF wchan[p] \in S THEN NoChan ELSE wchan[p]]

\* mutant: Brelse forgets those who wait for any free buffer
BrelseNoFreeWake(b, f) ==
  /\ wchan' = Woken(IF "WANTED" \in f THEN {b} ELSE {})
  /\ freeWanted' = FALSE
  /\ bflags' = [bflags EXCEPT ![b] = f \ {"WANTED", "BUSY", "ASYNC"}]
  /\ freelist' = Append(freelist, b)

\* Brelse of a buffer whose flags have become f
Brelse(b, f) ==
  /\ wchan' = Woken((IF "WANTED" \in f THEN {b} ELSE {})
                     \cup (IF freeWanted THEN {FreeList} ELSE {}))
  /\ freeWanted' = FALSE
  /\ bflags' = [bflags EXCEPT ![b] = f \ {"WANTED", "BUSY", "ASYNC"}]
  /\ freelist' = Append(freelist, b)

\* the flags with which Bwrite hands a buffer to Strategy
WriteFlags(f) == f \ {"READ", "DONE", "ERROR", "DELWRI"}

----------------------------------------------------------------------------
(* Scheduling *)

\* p is the process that runs, or is chosen to run after a Sleep
Running(p) == cur \in {p, Nobody} /\ wchan[p] = NoChan

Continue(p, l) == /\ cur' = p
                  /\ pc' = [pc EXCEPT ![p] = l]

\* the call ends: back to user mode
Return(p) == /\ cur' = Nobody
             /\ pc' = [pc EXCEPT ![p] = "user"]
             /\ held' = [held EXCEPT ![p] = NoBuf]
             /\ req' = [req EXCEPT ![p] = NoRequest]

----------------------------------------------------------------------------
(* GetBlk, one action for each way through its loop *)

\* the block p asks GetBlk for
Wanted(p) == IF pc[p] = "getra" THEN req[p].ra ELSE req[p].blk

\* the block is cached but its buffer is busy: sleep, then search again
GetBlkBusy(p) ==
  /\ Running(p) /\ pc[p] \in {"getblk", "getra"}
  /\ \E b \in Buffer :
       /\ bblk[b] = Wanted(p) /\ "BUSY" \in bflags[b]
       /\ bflags' = [bflags EXCEPT ![b] = @ \cup {"WANTED"}]
       /\ Sleep(p, b)
  /\ UNCHANGED <<bblk, bdata, freelist, freeWanted, devVars, pc, req, held,
                 ahead, uerr, histVars>>

\* no buffer is free: sleep until Brelse
GetBlkEmpty(p) ==
  /\ Running(p) /\ pc[p] \in {"getblk", "getra"}
  /\ ~ InCore(Wanted(p)) /\ freelist = << >>
  /\ freeWanted' = TRUE
  /\ Sleep(p, FreeList)
  /\ UNCHANGED <<bblk, bflags, bdata, freelist, devVars, pc, req, held,
                 ahead, uerr, histVars>>

\* the oldest free buffer is a delayed write: write it out, search again
GetBlkDelwri(p) ==
  /\ Running(p) /\ pc[p] \in {"getblk", "getra"}
  /\ ~ InCore(Wanted(p)) /\ freelist # << >>
  /\ LET b == Head(freelist) IN
       /\ "DELWRI" \in bflags[b]
       /\ NotAvail(b)
       /\ bflags' = [bflags EXCEPT ![b] = WriteFlags(@ \cup {"BUSY", "ASYNC"})]
       /\ Strategy(b)
  /\ cur' = p
  /\ UNCHANGED <<bblk, bdata, freeWanted, disk, errcnt, pc, wchan, req, held,
                 ahead, uerr, histVars>>

\* for mutants: block k gets the oldest free buffer b, with flags f
Recycle(k, b, f) ==
  /\ freelist # << >> /\ b = Head(freelist)
  /\ bflags' = [bflags EXCEPT ![b] = f]
  /\ bblk' = [bblk EXCEPT ![b] = k]
  /\ NotAvail(b)

\* mutant: without searching the device queue again
GetBlkNoSearch(k, b) == "DELWRI" \notin bflags[b] /\ Recycle(k, b, {"BUSY"})

\* mutant: without writing out a delayed write
GetBlkDropsWrite(k, b) == ~ InCore(k) /\ Recycle(k, b, {"BUSY"})

\* mutant: without clearing the old flags
GetBlkKeepsFlags(k, b) ==
  /\ ~ InCore(k) /\ "DELWRI" \notin bflags[b]
  /\ Recycle(k, b, bflags[b] \cup {"BUSY"})

\* mutant: the buffer that was found stays on the free list
GetBlkNoUnlink(k, b) ==
  /\ bblk[b] = k \/ (~ InCore(k) /\ freelist # << >> /\ b = Head(freelist))
  /\ "BUSY" \notin bflags[b] /\ "DELWRI" \notin bflags[b]
  /\ bflags' = [bflags EXCEPT ![b] = @ \cup {"BUSY"}]
  /\ bblk' = [bblk EXCEPT ![b] = k]
  /\ UNCHANGED freelist

\* GetBlk(k) returns b: found on the device queue, or the oldest free buffer
GetBlk(k, b) ==
  /\ \/ /\ bblk[b] = k /\ "BUSY" \notin bflags[b]
        /\ bflags' = [bflags EXCEPT ![b] = @ \cup {"BUSY"}]
        /\ bblk' = bblk
     \/ /\ ~ InCore(k) /\ freelist # << >> /\ b = Head(freelist)
        /\ "DELWRI" \notin bflags[b]
        /\ bflags' = [bflags EXCEPT ![b] = {"BUSY"}]
        /\ bblk' = [bblk EXCEPT ![b] = k]
  /\ NotAvail(b)

GetBlkMain(p) ==
  /\ Running(p) /\ pc[p] = "getblk"
  /\ \E b \in Buffer : /\ GetBlk(req[p].blk, b)
                       /\ held' = [held EXCEPT ![p] = b]
  /\ Continue(p, "got")
  /\ UNCHANGED <<bdata, freeWanted, devVars, wchan, req, ahead, uerr, histVars>>

GetBlkAhead(p) ==
  /\ Running(p) /\ pc[p] = "getra"
  /\ \E b \in Buffer : /\ GetBlk(req[p].ra, b)
                       /\ ahead' = [ahead EXCEPT ![p] = b]
  /\ Continue(p, "gotra")
  /\ UNCHANGED <<bdata, freeWanted, devVars, wchan, req, held, uerr, histVars>>

----------------------------------------------------------------------------
(* Bread and Breada after GetBlk *)

\* a write of the whole block (WriteI) needs no read
WholeBlock(p) == req[p].op = "write" /\ req[p].parts = Part

\* the block that Breada reads ahead is neither 0 nor cached
ReadsAhead(p) == /\ req[p].op = "reada"
                 /\ req[p].ra # NoBlock /\ ~ InCore(req[p].ra)

\* GetBlk returned the buffer of a cached block: no I/O
BreadCached(p) ==
  /\ Running(p) /\ pc[p] = "got"
  /\ WholeBlock(p) \/ "DONE" \in bflags[held[p]]
  /\ Continue(p, IF ReadsAhead(p) THEN "getra"
                 ELSE IF req[p].op = "reada" THEN "iowait" ELSE "use")
  /\ UNCHANGED <<bufVars, devVars, wchan, req, held, ahead, uerr, histVars>>

\* start reading the block
BreadStart(p) ==
  /\ Running(p) /\ pc[p] = "got"
  /\ ~ WholeBlock(p) /\ "DONE" \notin bflags[held[p]]
  /\ bflags' = [bflags EXCEPT ![held[p]] = @ \cup {"READ"}]
  /\ Strategy(held[p])
  /\ Continue(p, IF ReadsAhead(p) THEN "getra" ELSE "iowait")
  /\ UNCHANGED <<bblk, bdata, freelist, freeWanted, disk, errcnt, wchan, req,
                 held, ahead, uerr, histVars>>

\* Breada with the buffer of the block to read ahead: release it if it is
\* valid, else start an asynchronous read; then wait for the first block
BreadaAhead(p) ==
  /\ Running(p) /\ pc[p] = "gotra"
  /\ LET b == ahead[p] IN
       \/ /\ "DONE" \in bflags[b]
          /\ Brelse(b, bflags[b])
          /\ UNCHANGED <<ioq, active>>
       \/ /\ "DONE" \notin bflags[b]
          /\ bflags' = [bflags EXCEPT ![b] = @ \cup {"READ", "ASYNC"}]
          /\ Strategy(b)
          /\ UNCHANGED <<freelist, freeWanted, wchan>>
  /\ ahead' = [ahead EXCEPT ![p] = NoBuf]
  /\ Continue(p, "iowait")
  /\ UNCHANGED <<bblk, bdata, disk, errcnt, req, held, uerr, histVars>>

\* mutant: an interrupt between the test of B_DONE and Sleep
IOWaitSleepLate(p) ==
  /\ Running(p) /\ pc[p] \in {"iowait", "bwait"}
  /\ Sleep(p, held[p])
  /\ UNCHANGED <<bufVars, devVars, pc, req, held, ahead, uerr, histVars>>

\* IOWait: the test of B_DONE and Sleep are one step, interrupts being off
IOWaitSleep(p) ==
  /\ Running(p) /\ pc[p] \in {"iowait", "bwait"}
  /\ "DONE" \notin bflags[held[p]]
  /\ Sleep(p, held[p])
  /\ UNCHANGED <<bufVars, devVars, pc, req, held, ahead, uerr, histVars>>

\* GetError
GetError(p) == uerr' = [uerr EXCEPT ![p] = @ \/ "ERROR" \in bflags[held[p]]]

IOWaitDone(p) ==
  /\ Running(p) /\ pc[p] = "iowait"
  /\ "DONE" \in bflags[held[p]]
  /\ GetError(p)
  /\ Continue(p, "use")
  /\ UNCHANGED <<bufVars, devVars, wchan, req, held, ahead, histVars>>

----------------------------------------------------------------------------
(* What ReadI, WriteI and IUpdate do with the buffer *)

\* the bytes copied to user space, or the write given up after EIO: Brelse.
\* WriteI copies into the buffer before it looks at u_error.
UseRelease(p) ==
  /\ Running(p) /\ pc[p] = "use"
  /\ req[p].op \in {"read", "reada"} \/ (req[p].op = "write" /\ uerr[p])
  /\ bdata' = IF req[p].op = "write"
                THEN [bdata EXCEPT ![held[p]] =
                        Merge(@, req[p].parts, req[p].val)]
                ELSE bdata
  /\ Brelse(held[p], bflags[held[p]])
  /\ Return(p)
  /\ UNCHANGED <<bblk, devVars, ahead, uerr, histVars>>

\* the copy into the buffer, and the history of the block
Modify(p) ==
  /\ bdata' = [bdata EXCEPT ![held[p]] = Merge(@, req[p].parts, req[p].val)]
  /\ content' = [content EXCEPT ![req[p].blk] =
                   Merge(@, req[p].parts, req[p].val)]
  /\ bad' = bad

\* WriteI short of the end of the block: Bdwrite
Bdwrite(p) ==
  /\ Running(p) /\ pc[p] = "use"
  /\ req[p].op = "write" /\ ~ uerr[p] /\ "hi" \notin req[p].parts
  /\ Modify(p)
  /\ Brelse(held[p], bflags[held[p]] \cup {"DELWRI", "DONE"})
  /\ Return(p)
  /\ UNCHANGED <<bblk, devVars, ahead, uerr>>

\* mutant: Bawrite without B_ASYNC
BawriteNoAsync(p) ==
  /\ Running(p) /\ pc[p] = "use"
  /\ req[p].op = "write" /\ ~ uerr[p] /\ "hi" \in req[p].parts
  /\ Modify(p)
  /\ bflags' = [bflags EXCEPT ![held[p]] = WriteFlags(@)]
  /\ Strategy(held[p])
  /\ Return(p)
  /\ UNCHANGED <<bblk, freelist, freeWanted, disk, errcnt, wchan, ahead, uerr>>

\* WriteI up to the end of the block: Bawrite, that is Bwrite with B_ASYNC;
\* Bwrite looks for an error unless the write was delayed before
Bawrite(p) ==
  /\ Running(p) /\ pc[p] = "use"
  /\ req[p].op = "write" /\ ~ uerr[p] /\ "hi" \in req[p].parts
  /\ Modify(p)
  /\ bflags' = [bflags EXCEPT ![held[p]] = WriteFlags(@ \cup {"ASYNC"})]
  /\ Strategy(held[p])
  /\ \/ "DELWRI" \in bflags[held[p]] /\ Return(p)
     \/ /\ "DELWRI" \notin bflags[held[p]]
        /\ Continue(p, "awerr")
        /\ UNCHANGED <<held, req>>
  /\ UNCHANGED <<bblk, freelist, freeWanted, disk, errcnt, wchan, ahead, uerr>>

\* the end of an asynchronous Bwrite: GetError of a buffer that is in
\* transfer, or already released
BawriteError(p) ==
  /\ Running(p) /\ pc[p] = "awerr"
  /\ GetError(p)
  /\ Return(p)
  /\ UNCHANGED <<bufVars, devVars, wchan, ahead, histVars>>

\* IUpdate: a synchronous Bwrite
Bwrite(p) ==
  /\ Running(p) /\ pc[p] = "use"
  /\ req[p].op = "iupdate"
  /\ Modify(p)
  /\ bflags' = [bflags EXCEPT ![held[p]] = WriteFlags(@)]
  /\ Strategy(held[p])
  /\ Continue(p, "bwait")
  /\ UNCHANGED <<bblk, freelist, freeWanted, disk, errcnt, wchan, req, held,
                 ahead, uerr>>

BwriteDone(p) ==
  /\ Running(p) /\ pc[p] = "bwait"
  /\ "DONE" \in bflags[held[p]]
  /\ GetError(p)
  /\ Brelse(held[p], bflags[held[p]])
  /\ Return(p)
  /\ UNCHANGED <<bblk, bdata, devVars, ahead, histVars>>

----------------------------------------------------------------------------
(* Bflush: write out the first delayed write, search again from the start *)

Delayed == {i \in 1 .. Len(freelist) : "DELWRI" \in bflags[freelist[i]]}

BflushNext(p) ==
  /\ Running(p) /\ pc[p] = "flush"
  /\ \E i \in Delayed :
       /\ \A j \in Delayed : i <= j
       /\ freelist' = Unlink(freelist, i)
       /\ LET b == freelist[i] IN
            /\ bflags' = [bflags EXCEPT ![b] =
                            WriteFlags(@ \cup {"BUSY", "ASYNC"})]
            /\ Strategy(b)
  /\ cur' = p
  /\ UNCHANGED <<bblk, bdata, freeWanted, disk, errcnt, pc, wchan, req, held,
                 ahead, uerr, histVars>>

BflushDone(p) ==
  /\ Running(p) /\ pc[p] = "flush"
  /\ Delayed = {}
  /\ Return(p)
  /\ UNCHANGED <<bufVars, devVars, wchan, ahead, uerr, histVars>>

----------------------------------------------------------------------------
(* A process enters the kernel.  Select prefers a process woken in the     *)
(* kernel (a negative p_pri) to one in user mode.                          *)

Begin(p) ==
  /\ cur = Nobody /\ pc[p] = "user"
  /\ \A q \in Proc : pc[q] = "user" \/ wchan[q] # NoChan
  /\ uerr' = [uerr EXCEPT ![p] = FALSE]
  /\ cur' = p
  /\ UNCHANGED <<bufVars, devVars, wchan, held, ahead, histVars>>

\* ReadI of a block out of sequence: Bread
ReadI(p) ==
  /\ "read" \in Ops /\ Begin(p)
  /\ \E k \in Block : req' = [req EXCEPT ![p] = Plain("read", k)]
  /\ pc' = [pc EXCEPT ![p] = "getblk"]

\* ReadI in sequence: Breada, which becomes a Bread when the block is cached
ReadIAhead(p) ==
  /\ "reada" \in Ops /\ Begin(p)
  /\ \E k \in Block, r \in Block \cup {NoBlock} :
       /\ r # k
       /\ req' = [req EXCEPT ![p] =
                    IF InCore(k) THEN Plain("read", k)
                    ELSE Asked("reada", k, r, {}, AnyVal)]
  /\ pc' = [pc EXCEPT ![p] = "getblk"]

\* WriteI of some bytes of a block
WriteI(p) ==
  /\ "write" \in Ops /\ Begin(p)
  /\ \E k \in WriteBlock, s \in SUBSET Part \ {{}}, v \in Val :
       req' = [req EXCEPT ![p] = Asked("write", k, NoBlock, s, v)]
  /\ pc' = [pc EXCEPT ![p] = "getblk"]

\* IUpdate of a disk inode, a part of a block
IUpdate(p) ==
  /\ "iupdate" \in Ops /\ Begin(p)
  /\ \E k \in WriteBlock, i \in Part, v \in Val :
       req' = [req EXCEPT ![p] = Asked("iupdate", k, NoBlock, {i}, v)]
  /\ pc' = [pc EXCEPT ![p] = "getblk"]

\* Update ends with Bflush(NODEV)
Sync(p) ==
  /\ "sync" \in Ops /\ Begin(p)
  /\ req' = [req EXCEPT ![p] = NoRequest]
  /\ pc' = [pc EXCEPT ![p] = "flush"]

----------------------------------------------------------------------------
(* The disk interrupt: ATAHandler *)

\* IODone of a buffer whose flags have become f
IODone(b, f) ==
  \/ /\ "ASYNC" \in f
     /\ Brelse(b, f \cup {"DONE"})
  \/ /\ "ASYNC" \notin f
     /\ bflags' = [bflags EXCEPT ![b] = (f \cup {"DONE"}) \ {"WANTED"}]
     /\ wchan' = Woken({b})
     /\ UNCHANGED <<freelist, freeWanted>>

\* the request leaves the queue, IODone, the next request is started
Complete(b, f) ==
  /\ errcnt' = 0
  /\ ioq' = Tail(ioq)
  /\ active' = IF Tail(ioq) = << >> THEN 0 ELSE 1
  /\ IODone(b, f)

\* what the transfer does to the buffer or to the disk
Transfer(b) ==
  \/ /\ "READ" \in bflags[b]
     /\ bdata' = [bdata EXCEPT ![b] = disk[bblk[b]]]
     /\ disk' = disk
  \/ /\ "READ" \notin bflags[b]
     /\ disk' = [disk EXCEPT ![bblk[b]] = bdata[b]]
     /\ bdata' = bdata

ATAHandlerDone ==
  /\ active = 1
  /\ Transfer(Head(ioq))
  /\ Complete(Head(ioq), bflags[Head(ioq)])
  /\ UNCHANGED <<bblk, cur, pc, req, held, ahead, uerr, histVars>>

ATAHandlerRetry ==
  /\ active = 1
  /\ errcnt < MaxRetry
  /\ errcnt' = errcnt + 1
  /\ UNCHANGED <<bufVars, disk, ioq, active, procVars, histVars>>

\* given up: B_ERROR; the transfer may have happened or not
ATAHandlerFail ==
  /\ HardErrors /\ active = 1
  /\ errcnt = MaxRetry
  /\ LET b == Head(ioq) IN
       /\ Transfer(b) \/ UNCHANGED <<disk, bdata>>
       /\ Complete(b, bflags[b] \cup {"ERROR"})
       /\ bad' = bad \cup {bblk[b]}
  /\ UNCHANGED <<bblk, cur, pc, req, held, ahead, uerr, content>>

ATAHandler == ATAHandlerDone \/ ATAHandlerRetry \/ ATAHandlerFail

----------------------------------------------------------------------------
Init ==
  /\ disk \in DiskImages
  /\ content = disk
  /\ bad = {}
  /\ bblk = [b \in Buffer |-> NoBlock]
  /\ bflags = [b \in Buffer |-> {}]
  /\ bdata = [b \in Buffer |-> [i \in Part |-> AnyVal]]
  /\ freelist = [i \in 1 .. NBUF |-> i]
  /\ freeWanted = FALSE
  /\ ioq = << >> /\ active = 0 /\ errcnt = 0
  /\ cur = Nobody
  /\ pc = [p \in Proc |-> "user"]
  /\ wchan = [p \in Proc |-> NoChan]
  /\ req = [p \in Proc |-> NoRequest]
  /\ held = [p \in Proc |-> NoBuf]
  /\ ahead = [p \in Proc |-> NoBuf]
  /\ uerr = [p \in Proc |-> FALSE]

\* a step of a process inside a call
Step(p) ==
  \/ GetBlkBusy(p) \/ GetBlkEmpty(p) \/ GetBlkDelwri(p)
  \/ GetBlkMain(p) \/ GetBlkAhead(p)
  \/ BreadCached(p) \/ BreadStart(p) \/ BreadaAhead(p)
  \/ IOWaitSleep(p) \/ IOWaitDone(p)
  \/ UseRelease(p) \/ Bdwrite(p) \/ Bawrite(p) \/ BawriteError(p)
  \/ Bwrite(p) \/ BwriteDone(p)
  \/ BflushNext(p) \/ BflushDone(p)

Call(p) == ReadI(p) \/ ReadIAhead(p) \/ WriteI(p) \/ IUpdate(p) \/ Sync(p)

Next == (\E p \in Proc : Step(p) \/ Call(p)) \/ ATAHandler

Spec == Init /\ [][Next]_vars

\* The processor never idles while a process can run, and a request given to
\* the disk ends in an interrupt.
FairSpec == /\ Spec
            /\ \A p \in Proc : WF_vars(Step(p))
            /\ WF_vars(ATAHandler)

----------------------------------------------------------------------------
(* Invariants *)

TypeOK ==
  /\ disk \in [Block -> Data]
  /\ bblk \in [Buffer -> Block \cup {NoBlock}]
  /\ bflags \in [Buffer -> SUBSET Flags]
  /\ bdata \in [Buffer -> Data]
  /\ freelist \in Seq(Buffer)
  /\ freeWanted \in BOOLEAN
  /\ ioq \in Seq(Buffer)
  /\ active \in {0, 1}
  /\ errcnt \in 0 .. MaxRetry
  /\ cur \in Proc \cup {Nobody}
  /\ pc \in [Proc -> PCs]
  /\ wchan \in [Proc -> Chan]
  /\ req \in [Proc -> Request]
  /\ held \in [Proc -> Buffer \cup {NoBuf}]
  /\ ahead \in [Proc -> Buffer \cup {NoBuf}]
  /\ uerr \in [Proc -> BOOLEAN]
  /\ content \in [Block -> Data]
  /\ bad \subseteq Block

Queued(b) == \E i \in 1 .. Len(ioq) : ioq[i] = b

\* p is responsible for b: it has got it from GetBlk and will release it or
\* hand it to an asynchronous transfer.  ("awerr" has handed it over.)
Owns(p, b) ==
  \/ held[p] = b /\ pc[p] \in {"got", "getra", "gotra", "iowait", "use", "bwait"}
  \/ ahead[p] = b /\ pc[p] = "gotra"

\* the buffer holds the contents of its block
Valid(b) == "DONE" \in bflags[b] \/ (Queued(b) /\ "READ" \notin bflags[b])

\* GetBlk never gives a block two buffers, although it sleeps and evicts
\* between its search of the device queue and its choice of a free buffer.
OneBufferPerBlock ==
  \A b, c \in Buffer : bblk[b] = bblk[c] /\ bblk[b] # NoBlock => b = c

\* A busy buffer has exactly one owner: one process, or the disk if the
\* transfer is asynchronous (IODone will release it).  So none leaks, none is
\* released twice, and no process works on the buffer of another.
OneOwner ==
  /\ \A b \in Buffer : "BUSY" \in bflags[b] =>
       \/ \E p \in Proc : Owns(p, b)
       \/ Queued(b) /\ "ASYNC" \in bflags[b]
  /\ \A p \in Proc, b \in Buffer : Owns(p, b) =>
       /\ "BUSY" \in bflags[b] /\ "ASYNC" \notin bflags[b]
       /\ \A q \in Proc : Owns(q, b) => q = p
  /\ \A p \in Proc : pc[p] = "gotra" => held[p] # ahead[p]

\* The free list holds each buffer that is not busy, once, and no other;
\* the request queue holds no buffer twice: av_forw serves both lists.
ListsDisjoint ==
  /\ \A b \in Buffer : InFree(b) <=> "BUSY" \notin bflags[b]
  /\ \A i, j \in 1 .. Len(freelist) : freelist[i] = freelist[j] => i = j
  /\ \A i, j \in 1 .. Len(ioq) : ioq[i] = ioq[j] => i = j
  /\ \A b \in Buffer : Queued(b) =>
       /\ "BUSY" \in bflags[b] /\ "DONE" \notin bflags[b]
       /\ bblk[b] # NoBlock

\* No wake-up is lost.  A process asleep in IOWait waits for a request that
\* is still queued while the disk is active; one asleep on a busy buffer has
\* B_WANTED set there, and one asleep on the free list in bFreeList.
NoLostWakeup ==
  /\ active = 1 <=> ioq # << >>
  /\ freeWanted => freelist = << >>
  /\ \A p \in Proc :
       /\ wchan[p] = FreeList => freeWanted /\ pc[p] \in {"getblk", "getra"}
       /\ wchan[p] \in Buffer =>
            \/ /\ pc[p] \in {"iowait", "bwait"}
               /\ held[p] = wchan[p] /\ Queued(wchan[p])
            \/ /\ pc[p] \in {"getblk", "getra"}
               /\ {"BUSY", "WANTED"} \subseteq bflags[wchan[p]]

\* No write is lost: the current contents of a block are in its buffer if
\* that is valid, and on the disk if no buffer holds them or the buffer is
\* neither a delayed write nor in transfer (it may be reused at any time).
NoLostWrite ==
  \A k \in Block \ bad :
    /\ \A b \in Buffer : bblk[b] = k /\ Valid(b) => bdata[b] = content[k]
    /\ (\A b \in Buffer : bblk[b] = k /\ Valid(b) =>
           "DELWRI" \notin bflags[b] /\ ~ Queued(b)) => disk[k] = content[k]

\* What a process finds in the buffer that Bread gives it is what the writes
\* so far have made of the block (but see NoErrorReuse for failed blocks).
ReadIsCurrent ==
  \A p \in Proc :
    pc[p] = "use" /\ ~ WholeBlock(p) /\ req[p].blk \notin bad =>
      /\ bblk[held[p]] = req[p].blk
      /\ bdata[held[p]] = content[req[p].blk]

\* Brelse says that the minor number of a buffer with B_ERROR is changed so
\* that no later process uses the wrong data in it: what a process gets
\* without EIO is the contents of its block, after a failed I/O too.
NoErrorReuse ==
  \A p \in Proc :
    pc[p] = "use" /\ ~ WholeBlock(p) /\ ~ uerr[p] =>
      bdata[held[p]] = content[req[p].blk]

\* Every call ends: no process sleeps for ever in GetBlk or in IOWait, and
\* none is passed over for ever by the others.
CallsEnd == \A p \in Proc : pc[p] # "user" ~> pc[p] = "user"
=============================================================================
