# A verification of the UNIX V6++ kernel

This directory holds TLA+ models of the UNIX V6++ kernel (`src/oos2/src`), the
TLC configurations that check them on small instances, and proofs that TLAPS
checks. UNIX V6++ is a rewrite of UNIX V6 in C++ for the x86 PC. The modelled
sources are those of `src/oos2`; `src/oos1` is an earlier version of the same
kernel, whose buffer cache, file system and inode table are the same files. The
rest of the repository is tools (Bochs, MinGW, NASM, disk image builders).

All line numbers below are lines of the files in `src/oos2/src`.

## 1. The system and its parts

The kernel runs on one processor and does not preempt a process in kernel mode.
A process gives up the processor where it calls `Process::Sleep`
(proc/Process.cpp:70), in `Exit` and on the way back to user mode; `WakeUpAll`
makes every process runnable that sleeps on an address. So kernel code is
atomic from one possible sleep to the next, except that interrupts (disk, clock,
keyboard) come in between where they are enabled. Nearly everything below is
exposed to the same hazard: state that was tested before a sleep is used after
it, and the sleep is hidden inside a call such as `Bread` or `IPut`.

| Part | State | Operations | Interacts with | What makes it correct | Module |
| --- | --- | --- | --- | --- | --- |
| Buffer cache (dev/BufferManager.cpp) | buffers with flags, device queue, free list | GetBlk, Bread, Breada, Bwrite, Bdwrite, Bawrite, Bflush, Brelse, IOWait, IODone | disk driver; called by everything that does I/O | a block has one buffer, a busy buffer one owner; reads see the last write; no lost wake-up; calls end | `BufferCache` |
| Disk driver (dev/ATADriver.cpp, dev/BlockDevice.cpp) | request queue, active flag, error count | Strategy, Start, ATAHandler | interrupts IOWait; calls IODone | every request is answered once, after at most ten retries | `BufferCache` |
| Free blocks, superblock (fs/FileSystem.cpp) | stack s_free, chain of groups on the disk, s_flock, s_fmod | Alloc, Free, Update | cache; Bmap, ITrunc | a block is in one file or free once; none is lost; the disk gets every change | `FreeBlocks` |
| Free inodes (fs/FileSystem.cpp) | s_inode, s_ilock, modes on the disk | IAlloc, IFree, LoadSuperBlock | inode table, cache | an inode is given out once, also after a crash; ENOSPC is true | `InodeAlloc` |
| Inode table (fs/OpenFileManager.cpp, fs/INode.cpp) | 100 entries with count, lock, copy of the disk inode | IGet, IPut, NFlock, Prele, IUpdate, UpdateInodeTable | cache, free inodes; every file operation | exact counts, one copy, no lost change, freed only when unnamed | `InodeTable` |
| Block map (fs/INode.cpp) | i_addr, indirect blocks | Bmap, ITrunc, ReadI, WriteI | Alloc, Free, cache | offsets map to distinct blocks; all are freed | - |
| Open files (fs/OpenFileManager.cpp, fs/File.cpp) | File entries with f_count, f_offset; descriptors | FAlloc, CloseF, Dup | inode table, fork, exit | counts; nothing leaks when a table is full | CloseF in `Pipe`, `InodeTable` |
| Pipes (fs/FileManager.cpp) | an inode of 3072 bytes, offsets, bits for waiting sides | ReadP, WriteP, CloseF | inode lock, signals | a FIFO of bytes; nobody sleeps for ever | `Pipe` |
| Directories (fs/FileManager.cpp) | entries of 32 bytes with continuation slots | NameI, WriteDir, MakNode, Link, UnLink | inode table, cache | a name leads to the file that was created with it; link counts are the numbers of names | `Directory`, `NameMap` |
| Processes (proc/) | process table, parent links, states, signals | Fork, Exit, Wait, Kill, PSignal, Sleep | swap space, cache, open files | each zombie is collected once; each waiter is woken; SIGKILL kills | `Processes` |
| Scheduler, swapper, clock (proc/ProcessManager.cpp, interrupt/TimeInterrupt.cpp) | SLOAD, p_time, RunIn, RunOut, SwBuf, tout | Sched, XSwap, Swap, Expand, Clock, sleep() | memory and swap allocators | images are whole and in one place; who is ready comes in; who sleeps wakes | `Swapper` |
| Text segments, exec (proc/Text.cpp, proc/ProcessManager.cpp) | x_count, x_ccount, ExeCnt | Exec, XFree, XccDec | inode table, allocators | counts; the limit of processes in Exec is given back | - |
| Allocators (mm/) | maps of free areas | Alloc (next fit), Free | memory, swap space | areas do not overlap, nothing is lost, a failure is true | `Allocator`, `Pool` |
| Terminal (tty/, dev/CharDevice.cpp) | raw, canonical and output queues, count of delimiters | TTRead, TTWrite, TTyInput, Canon | keyboard interrupt, signals | lines arrive whole; readers are woken | ctrl-c in `Processes` |
| Entry and machine (interrupt/, machine/, boot/) | registers, descriptor tables | Trap, exceptions, boot | - | straight-line code | - |
| Library, shell, programs, tests (lib/, shell/, program/, test/) | user mode | - | system calls | - | - |

What is hard to test in each of them is listed with its line in
`PROJECT.json` under `hazards`.


## 2. Modules

| Module | Models | State and actions |
| --- | --- | --- |
| `BufferCache` | dev/BufferManager.cpp, the queue of dev/BlockDevice.cpp, the interrupt of dev/ATADriver.cpp, the callers in fs/INode.cpp and FileSystem::Update | 2.1 |
| `FreeBlocks` | Alloc, Free and the superblock part of Update in fs/FileSystem.cpp | 2.2 |
| `InodeTable` | fs/OpenFileManager.cpp:87-285, locks and copies of fs/INode.cpp, the calls open, close, read, write, unlink, sync | 2.3 |
| `Pipe` | ReadP, WriteP (fs/FileManager.cpp:436-533), CloseF, Plock | 2.4 |
| `InodeAlloc` | IAlloc, IFree, LoadSuperBlock and Update of fs/FileSystem.cpp, with creat, open, close, unlink and a crash | 2.5 |
| `Directory`, `NameMap` | the search of NameI, and Open, Creat, MkNod, Link, UnLink, MakNode, WriteDir of fs/FileManager.cpp; the map it implements | 2.6 |
| `Allocator`, `Pool` | mm/Allocator.cpp, mm/PageManager.cpp, mm/SwapperManager.cpp, Process::Expand; the promise it implements | 2.7 |
| `Processes` | Fork, Wait, Kill, Exit, Sleep, PSignal, PSig of proc/, ctrl-c of tty/Keyboard.cpp | 2.8 |
| `Swapper` | Sched, XSwap, NewProc, Expand, Sleep and SetRun of proc/, Swap of dev/BufferManager.cpp, the second of interrupt/TimeInterrupt.cpp, the call sleep(n) | 2.9 |
| `MC...` | - | model values and symmetry sets for TLC |
| `BufferCacheProofs`, `FreeBlocksProofs`, `InodeTableProofs`, `PipeProofs`, `InodeAllocProofs`, `DirectoryProofs`, `ProcessesProofs`, `MemoryProofs` | - | the inductive invariants of the modules they are named for (`MemoryProofs`: of `Allocator` and `Swapper`), and the theorems (section 5) |

An action runs from one sleep to the next, as the kernel does. Operators whose
comment begins with "mutant:" are wrong versions of the definition that follows
them; they are not part of a specification and exist to show that the properties
can fail (`mutants` in `PROJECT.json`).

How the modules fit together: `BufferCache` shows that a transfer reads what was
last written and ends, so the modules of the file system take a transfer as one step
during which the process sleeps. `FreeBlocks` and `InodeAlloc` share the superblock
but no field of it; `InodeTable` has the entries and their locks, `InodeAlloc` the modes
and the free list, with what the other has in detail as one step. `Directory`
takes inodes from `InodeAlloc` as a set. `Swapper` counts the pages whose
places `Allocator` manages, and has the images of processes whose life is in
`Processes`.

### 2.1 BufferCache

A buffer is an index; `bblk`, `bflags`, `bdata` are b_blkno with b_dev, b_flags
and the bytes at b_addr. `freelist` and `ioq` are the two linked lists as
sequences, `active` and `errcnt` the device table. The data of a block has two
parts, so that a partial write differs from a full one, and "hi" stands for the
part with the last byte, on which `WriteI` decides between an asynchronous and a
delayed write. `cur` is the process in kernel mode: only it moves until it sleeps
or returns, and the disk may interrupt between two of its steps. The steps are
cut finer than the kernel's sleeps need, namely where interrupts are enabled.
`content` and `bad` are history: what writes have made of each block, and blocks
on which a transfer failed for good.

The calls are those that the file system makes: a read (with or without
read-ahead), a write of part of a block or of a whole one, an update of an inode
(read, modify, synchronous write), and sync (`Bflush`). The retry limit is
`MaxRetry`, ten in the code.

### 2.2 FreeBlocks

`free` is s_free[0 .. s_nfree-1] as a sequence; `table[b]` is the stack that a
free block holds for the next group; `End` is block number 0. `used` are the
blocks in files, `blk[p]` the block a process has in hand inside a call, `saved`
the stack in the superblock on the disk. Alloc and Free sleep on s_flock, in Bread
or GetBlk, and in Bwrite, and the actions are cut there. `wild` becomes true when
Alloc reads s_free[-1]; the code then goes on with a wild block number, and the
model stops, so that deadlock is not checked and the properties speak of the time
before. A run starts with a full disk: all blocks in files and the stack at its end
mark, from which every list that Alloc and Free can build is reached.

### 2.3 InodeTable

`number`, `count`, `flags`, `node` are the entries of m_Inode; `disk` the inodes
on the disk; `named` the inodes that directory entries name; `latest` is history.
`node` keeps what the properties tell apart: whether the inode is allocated, its
link count, and a number of writes that stands for size and addresses. Each
process has at most one open file. NameI gives open and unlink the number of a
named inode, and the name may be gone when IGet runs. A process that finds an
inode locked in IGet sleeps for ever, as in the code (see 6); deadlock is therefore
not checked.

### 2.4 Pipe

The bytes are numbered in the order they are written, so that order, loss and
duplication show in `got`. Readers share one File and writers the other one, as
after fork; `open` is the set of processes that have not closed. ReadI and WriteI
are one transfer under the lock. A signal may end each sleep of priority
PPIPE. When all has been written and read, processes may wait for ever; deadlock is not
checked for that reason.

### 2.5 InodeAlloc

`s_inode`, `s_ninode`, `s_ilock`, `s_fmod` are the superblock in memory and `saved`
the one on the disk, which Update writes in two sectors with a sleep before
each; `Split` is the number of entries of s_inode in the first sector. `core` and
`disk` hold the mode and the link count of each inode in memory and on the disk.
IAlloc sleeps on s_ilock, in Bread for each block of inodes it searches, in IGet, and
in IPut of an inode that turned out to be in use; what lies between two sleeps is
`Take`, the loop down the list, and `IAllocSearch` with `ScanBlock`. `files` is
history: how many files an inode has been given to and not been taken from.
`Crash` loses what is in memory; the system starts with `saved` and with any
set of directory entries of inodes that have links on the disk. The loop does not
look whether the list is empty, and reads s_inode[-1] when every inode it
names is in use: the process is then "wild" and the model stops, so deadlock is not
checked.

### 2.6 Directory

`dir` is the file as a sequence of slots of 32 bytes. An entry with a long name takes
several of them; the continuation slots hold characters, and a search that came
upon one would take the characters for an inode number: `AsEntry` and `AsRest` say
what each kind of slot looks like when it is read as the other one. NameI holds the
lock of the directory from `StartSearch` on and reads one entry per action;
`off`, `cnt` and `free` are u_IOParam.m_Offset, m_Count and freeEntryOffset. `blk` is
the block in pBuf, because NameI reads a block only when the offset comes to its
first slot. `Uses` stands for use_entries, which the code computes from what follows the path
in memory. UnLink clears the entry after it has given up the lock, at the place that its
search noted. What follows a creat without a free inode is in the model: the
directory stays locked (line 860). A creat whose name is there goes on, after it has unlocked the directory, to
`Truncate`: Open1 calls ITrunc, which gives the file a link count of 1 (fs/INode.cpp:620) whatever
it was. `LeaveFile` are the ways past that assignment: MkNod, which fails, a file that may not be written, and
devices. `reset` is history: the files whose count was another number then, until the inode is freed
and given to a new file. They are what `LinkCounts` leaves out; for them the comment of i_nlink in
include/INode.h:136 is wrong (6, row n).

`NameMap` is what a directory promises: creat, link and unlink change
the entry of their own name, and a search that ends finds what the map holds then. `IsMap` says
that `Directory` implements it, with `InoOf` as the refinement mapping.

### 2.7 Allocator

`map` is the array of free areas up to its end mark; `beginNode` is where the next-fit search
begins; `held` the area of each client, with its size in bytes, since
the managers round sizes up and addresses down. Calls do not sleep, so each is
one action. `Expand` shrinks, grows by way of a second area, or gives the image to the
swapper. `Pool` knows only the set of free units: a request gets any run of free
units, or fails if there is none. `IsPool` says that the map implements it.

### 2.8 Processes

Slots of the process table with `pid`, `ppid`, `sig`, `addr`; `pc` is p_stat together
with the place in the kernel. Exit and Wait are two steps, with the transfer of the
user structure between them; Sleep is two steps, because ctrl-c can come between its
look at the signals and the instruction that shuts interrupts out. `adopted` is history: the zombies
that process 1 inherited, for which nobody wakes it. `Overlap = FALSE` keeps
others from forking while a process is between the two steps of Wait
(see 6, row j).

### 2.9 Swapper

`load` is SLOAD, `time` p_time; `mem` and `swp` are the pages a process has in
memory and in the swap area. `pc[0]` is where Sched is. XSwap is a step before and one
after the transfer of Swap; a process that finds SwBuf busy sleeps and tries
again. `parent` is the process in whose place a child written out by NewProc sleeps.
Sleepers of sleep(n) share Time::tout; `tout` and `left[p]` count the
seconds that remain. A full swap area is a panic, after which the model stops; deadlock is
not checked for that reason.

## 3. Runs

Each run asks one question. The states are distinct states that TLC finds.

| Run | Instance | What it shows | States |
| --- | --- | --- | --- |
| `cache_shared` | 2 processes, 2 buffers, 3 blocks of which one is written, 1 retry, any transfer may fail once, and those of one block for good | one buffer per block, one owner per busy buffer, lists agree with flags, no wake-up and no write lost, reads are current, on the error paths too | 943 000 |
| `cache_live` | 2 processes, 3 buffers, 4 blocks, fairness | reads with read-ahead and inode updates end | 298 000 |
| `free_shared` | 3 processes, 3 blocks, stacks of 2, fairness | every block in one place, chain intact, ENOSPC only when full, s_fmod covers changes, the lock is released | 159 000 |
| `inode_shared` | 3 processes, 2 files, 2 entries, no sync | one copy, identity of open files, no lost change, no lost wake-up, frees only unnamed files | 686 000 |
| `inode_stress` | 2 processes, 2 files, 1 entry, read errors and sync | counts are exact also when the table is full, reads fail and sync locks entries | 2 550 000 |
| `inode_sleep` | 2 opens of one file, fairness | *violation*, the finding of section 6 | |
| `pipe_shared` | 1 reader, 2 writers, pipe of 2 bytes, writes of up to 3, signals and closes, fairness | FIFO without loss, no lost wake-up, writes end | 161 000 |
| `dir_names` | 2 processes, 2 names of two slots that begin alike, 2 files, a file of 6 slots, fairness | a new name gets free room, link counts of files that no creat has reset, the map of `NameMap`, searches end | 155 000 |
| `map_alloc` | 3 clients, 7 units of 2 bytes, areas of up to 6 bytes | the map is merged and fits its array, and implements `Pool` | 11 500 |
| `proc_life` | process 1 and 3 slots, 3 blocks of swap area, 5 process numbers, ctrl-c, fairness | the tree of processes, no zombie overlooked, the swap area, SIGKILL | 249 000 |
| `inode_free` | 2 processes, 3 inodes in 2 blocks, list of 2, one crash | one file per inode, sound list, waiters woken, ENOSPC is true | 378 000 |
| `swap_shared` | Sched and 3 processes of up to 2 pages, 3 pages of memory and of swap area, sleeps of up to 2 seconds, fairness | images whole, SwBuf, sleepers wake in time, Sched serves | 478 000 |

Deadlock is checked in `cache_shared`, `cache_live`, `map_alloc` and `proc_life`: there some step is
always possible. It is not checked where the system may really stop, as section 2 says for
each module: behind a wild read or a panic, behind IGet's sleep, in a pipe when the bounded
number of bytes is sent, and in a directory that a failed creat left locked.

### Bounds, and why they are enough

- **Cache.** A hazard of the cache is a conflict of a process that sleeps, one that takes what it
  waits for, and the disk. Two buffers for three blocks, with asynchronous writes that keep a
  buffer after their process returned, make the free list run empty, make GetBlk evict a delayed
  write and wait for a busy buffer, all at once. One value besides the initial one and two parts
  per block tell a lost write from a kept one. One retry shows that the count is kept and reset. `OneBad` bounds the blocks that fail for good
  to one: what an error does to a buffer does not depend on other blocks' errors. Without errors three processes
  hold the same invariants (656 000 states). The disk
  begins with one block that differs from the others, so that bytes of a wrong block are
  noticed. The proofs (section 5) remove all of these bounds.
- **Free blocks.** Stacks of two entries are the smallest in which the bottom entry differs from the
  top one; with three blocks the list has up to two groups and a refill, a spill and a save overlap.
  `NICFREE` is 100 in the code.
- **Inode table.** Three processes on two files: one that releases, one that opens in between, one
  that reads or writes. One write per file tells an old copy from a new one. `inode_stress` has one
  entry for two files, so that IGet meets a full table.
- **Pipe.** Writes of three bytes into a pipe of two are cut, and seven bytes let a writer wait for
  room more than once. Bytes are bounded in total, so `WritesEnd` speaks of waiting for room and for
  the reader; it cannot show one writer that is overtaken by the other for ever.
- **Directory.** Two names with the same first slot are told apart only by their continuation slots.
  Six slots hold more than the entries of both names, so that free entries are reused, and entries begin in
  either block of four slots. Behind the end of the file, where a search gets that passed over a free entry, its slots are zero and
  fit a name only if `Uses` is 0. One process unlinks, because two
  that unlink one name take its link off twice (6, row l), and the other one links; both create, so that a creat
  truncates a file while its links change, before a link is counted, and after its name was removed. Names of one length, because names of different lengths
  share slots (6, row f).
- **Allocator.** Seven units and three areas of up to three units: a freed area meets a
  free one before it, after it, on both sides and on none. Sizes are in bytes and two bytes are a
  unit, so that rounding matters; images shrink to whole units (6, row g). `MAPSIZE` is one more than the
  nodes three areas can leave, as in the code, where there are more entries than processes.
- **Processes.** Three slots besides process 1 give a parent, its child and a grandchild, an
  orphan and a zombie with children at once, and a slot that is used again. Five numbers
  allow one reuse. Blocks are as many as processes that can be dead; with fewer the kernel panics in Exit.
- **Free inodes.** Three inodes in two blocks: the search sleeps in the middle. A list of two entries is smaller
  than the disk, as 100 is, and is split between the sectors of the superblock. The same
  properties hold with four inodes (9.8 million states) and with three processes (6.5 million).
- **Swapper.** Three pages for three processes of up to two pages: memory is full with two of
  them, the swap area can be full, and a process ready in the swap area fits or does not fit.
  Times of up to 2 let Sched tell who has waited longest; sleeps of different lengths overlap.
  Without sleep(n), images of three pages in four of memory and five of swap area hold the
  same properties (608 000 states).

Processes are interchangeable, and in the cache so are the blocks that are only
read; symmetry over them is used only in runs that check no liveness.

### Fairness

- `BufferCache`: weak fairness of each process's steps (`ProcessManager::Swtch`
  idles only if no process can run, and priorities age by the clock) and of the disk
  interrupt (a started transfer is answered). No fairness on the beginning of calls. `CallsEnd` is
  checked for reads with read-ahead and inode updates. It does not hold with a process that
  writes again and again: a Bawrite buffer is released by the interrupt, the sleeper wakes, and the
  writer, which is not asleep, may have taken the buffer again before the sleeper runs. V6 has no
  queue of waiters, and the code promises no order. `CallsEnd` also needs more buffers than processes that read
  ahead, as each of them holds one buffer while it waits for the next one (15 buffers in the code).
- `FreeBlocks`: a process inside a call goes on, since transfers end (`cache_live`). No fairness on
  new calls.
- `InodeTable`: the same; only `inode_sleep` uses it.
- `Pipe`: calls go on, and readers call read again as long as they have the pipe open. The last is an
  assumption about the programs: without it nobody makes room and no kernel could let the writer end.
- `Directory`: strong fairness of each process's steps. A process that waits for the lock is
  woken each time it is given up and gets it unless another one is faster; the code
  promises no order here, so that nobody is overtaken for ever is an assumption about the scheduler, and
  `CallsEnd` is about the search itself.
- `Processes`: transfers end, and whoever is ready in the kernel or has a signal to see runs. No
  fairness on the calls of programs, nor on ctrl-c.
- `Swapper`: the disk answers, the clock runs, and a process that returns from a transfer or from
  sleep(n) gets the processor, as does Sched, whose priority is the highest. No fairness on what
  programs do.

## 4. What could break the properties

Each property of a passing run has a mutant in `PROJECT.json`: a change to one
mapped definition, of the kind that a slip in that code would be (a search that
is not repeated after a sleep, a wake-up left out, a lock taken late, a flag not cleared,
an offset off by one). TLC finds the property violated with it under the same configuration.

`TypeOK` of every module, and the invariants that no run names (`OneUse` of `Allocator`,
`NoLostWakeup` of `FreeBlocks`, `Exclusive` of `Pipe`), hold in the configurations
above too; section 5 has their proofs.

## 5. Proofs

Every model has its proofs; those of `Allocator` and `Swapper` are in one module,
`MemoryProofs` (hence the names `MapInit`, `MapNext` and `MapSpec` in `Allocator`). What is proved holds for every value of
the constants that the module's named assumption allows: any number of processes,
buffers, blocks, inodes, any size of a table. The assumptions ask for what the code has:
sets that are not empty, numbers that are positive, model values outside the sets they mark the
absence of; that the processes are finitely many (`InodeTable`, `InodeAlloc`, `Directory`: their
counts are numbers of processes) and that the table has entries 0 and 1 (`Swapper`).

A safety property becomes a theorem along the same path everywhere: a conjunction
of named parts, which contains the property or implies it, is true initially and kept
by every step; each part is the answer to a step that would break the property
otherwise.

Some theorems have a hypothesis. Each excludes a case in which the property really
fails, or in which the model cannot say more:

| Hypothesis | In | Without it |
| --- | --- | --- |
| `Exclusion`: one reader, or no end is closed | `PipeProofs`, all | the last close of an end unlocks the pipe whoever holds it (IPut, fs/OpenFileManager.cpp:238): two readers may then be in the pipe at once and read the same bytes. The closing itself, with one reader, is covered. |
| `"sync" \notin Ops` | `InodeTableProofs`: `OneCopyOfAnInode`, `OpenFilesStay`, `ChangesReachTheDisk`, `NamedFilesAreKept` | section 6, d. `CountsAreReferences`, `NobodySleepsForEver` and `TypeCorrect` hold with sync. |
| `HardErrors = FALSE` | `NamedFilesAreKept` | section 6, k |
| `WholeUnits`: images shrink to whole units | `MemoryProofs`, all of the allocator | section 6, g |
| `RoomInArray`: a node per client and two more | `ArrayIsLongEnough`, `MapTypeCorrect` | Free does not look for the end of the array. Of n areas in use at most n + 1 gaps are free; the kernel has 512 nodes (include/PageManager.h) for 100 processes and their texts. |
| `TableHasRoom`: an entry of the inode table for each process | `NoSpaceIsRight` | With a full table IAlloc takes a number off the list, IGet fails with ENFILE, and the number is lost. In the model a process has one inode at a time; in the kernel a process may hold several, so NINODE = 100 entries can run out. |
| `~ Overlap`: no fork while another process reads in Wait | `SwapAreaIsExact`, `TypeCorrect` of `ProcessesProofs` | section 6, j. `TreeOfProcesses` and `ChildIsNotLost` do not need it. |
| `~ Ctrlc` | `OnlyCtrlcIsLost` | section 6, i |
| `OneLength`: all names take the same number of slots, that number divides a block, and a search asks for fewer slots than an entry has (or entries have one slot) | `DirectoryProofs`, all | With names of different lengths section 6, f. An entry across the end of a block may be read from the wrong block, since NameI reads a block only when the offset comes to its first slot and steps over that slot with a free entry. A search that asks for too many slots passes over the free entries without counting their slots, and when it ends behind the end of the file, that is where the new name goes. Names of up to 24 characters take one slot, for which only the first part asks anything. |
| `OneRemover`: one process at most unlinks | `LinkCountsAreNames`, `DirectoryIsMap` | section 6, l (row n needs no hypothesis: `LinkCounts` leaves out the files in `reset`). `NewNameHasRoom` and `TypeCorrect` do not need it. |

### 5.1 BufferCacheProofs

`TypeOK`, `OneBufferPerBlock`, `OneOwner`, `ListsDisjoint`, `NoLostWakeup`,
`NoLostWrite` and `ReadIsCurrent`, with and without hard errors. The properties are not inductive
alone. `IndInv` adds

- `Locals`: what a program point knows of the locals of its call, above all that the
  buffer a process holds still is the buffer of the block it asked for;
- `Lists`: the flags of a buffer agree with the lists it is on: free if and only if not busy,
  queued only if busy and not done, ASYNC only while queued, a delayed write only
  if the contents are valid, B_ERROR only on a block in `bad`;
- `Requests`: where the request of a process may be: a process that is about to
  wait holds a buffer that is done or queued, so that IOWait's test and sleep miss no
  interrupt, and one that uses a buffer has its transfer behind it.

The argument goes one conjunct at a time (`TypeStep`, `ListsStep`, `LocalsStep`,
`OneBufferStep`, `OwnerStep`, `RequestsStep`, `WakeupStep`, `WriteStep`), each with one
step per action. What they share is collected first: the list lemmas
(`UnlinkProps`, `AppendProps`, `TailProps`), how an action changes the lists
(`ListEffects`), what it leaves alone for other processes (`OthersKept`,
`SharedEffects`, `Effects`) and who may change owner (`OwnerChange`).
The heart is `OwnerStep` with `LocalsStep`: GetBlk gives a buffer to a process
only in the step that sets B_BUSY on a buffer that was free, so nobody else owned it;
and only the owner, or the interrupt for an asynchronous transfer, releases it.

### 5.2 FreeBlocksProofs

`OneHome`, `ChainIntact`, `SavedWhenClean`, `NoLostWakeup`, `TypeOK`, and the action property
`FullMeansFull`, without a hypothesis. `IndInv` adds `Locked` (one process at a time has the
stack locked, and the stack is empty while it waits for the disk), `Tables` (only the
block at the bottom of a stack holds a stack), `AtMostOne` and `AtLeastOne` (which together
are `OneHome`, split because a step moves a block out of one place and into another)
and `NoCycle`: there is a rank in which a block is below the block its stack is kept in.
`NoCycle` is what `ChainIntact` says without recursion; the rank is
chosen anew when Free pushes a whole stack out to a block. All this holds until a second Alloc meets a
full disk (`wild`; section 6, b).

### 5.3 InodeTableProofs

`BaseInv` (types, the shape of a process's references, `Counted`, `NoLostWakeup`) is inductive for
all operations and errors. `Counted` says that i_count is the cardinality of the set of processes
that refer to the entry, so it needs the lemmas on finite sets, and it gives the bound of `TypeOK`.
`IndInv` adds, without sync, what an entry in use holds (`EntryOK`: its fields are the latest ones
once they have been read; what the disk lacks is marked IUPD), what a process knows of its
inode (`CallOK`) and what the disk has of an inode out of memory (`FileOK`). `OneCopy`,
`KeepsIdentity`, `NoLostUpdate` and `FreedIsUnnamed` follow.

### 5.4 PipeProofs

`Fifo`, `NoLostWakeup`, `Exclusive`, `TypeOK`. `Numbered` states where the bytes are: those in the file are the last
ones sent, those before the offset the last ones received. `Locking` and `Counted` are needed because the
last close of an end unlocks the pipe under a transfer of the other end: the transfer
that goes on without the lock is the only one left.

### 5.5 InodeAllocProofs

`OneFile`, `SearchWakes`, `ListSound`, `TypeOK` and the action property `NoSpaceIsTrue`, across any number of
crashes. `BaseInv` is about references (`Counted`, `Alone`) and about the one search of the disk
(`Scanner`); `Modes` says that the mode of an inode, in memory or else on the disk, tells whether a
file has it. That is what makes `OneFile` survive a crash that leaves an old list: IAlloc
looks at the mode before it takes a number. `Sound` (`ListSound` and what it needs) holds until the first crash.
For `NoSpaceIsTrue` there is `Searched`: behind the search every free inode is on the list,
or was taken or freed meanwhile.

### 5.6 MemoryProofs, the allocator

`MapIsPool` is the refinement: the map of free areas, with next fit, merging, and Expand in place, implements
`Pool`, which knows only which units are free. It is proved step by step: Init maps to Init, each
step of Alloc, Free and Expand to a step of `Pool`, the returned 0 to a pool without a run that is long enough. The
invariant is `Sorted` (in order, none empty, no two touching), `OneUse` and `Covered` (each unit is free or in an area).
`Merged` and `MapFits` follow; the latter since `Sorted` lets a gap lie only between areas in use.
Division by `UNIT` has lemmas of its own (`Division`, `Times`, `Quotient`), because the provers
do not handle products of variables.

### 5.7 ProcessesProofs

Without a hypothesis: `ParentAlive`, from `Numbers` (a number is given once, and a parent is older than
its children), and `NoLostChild`, from `Asleep` (a parent that sleeps, or is about to, has nothing to find:
Wait looks and sleeps with no process between, and Exit wakes the parent). With `~ Overlap`: `SwapExact`, for which each block belongs to one dead process. With `~ Ctrlc`:
`NoLostSignal`.

### 5.8 MemoryProofs, the swapper

`Images`, `SwapWakes`, `SleepersWake`, `TypeOK`, without a hypothesis. `Images` says that pages add
up over the process table. `Total` is a fold over a set of any size, so what a step does to it is
proved by induction: the library's induction theorems take an operator, so `NatSet` derives induction for a
set of naturals from well-foundedness, `TotalIsSum` shows with it that the recursive function
inside the fold exists, and `TotalChange` what the sum becomes when one process's pages change.
The invariant adds `Places` (what a process does and where; who is not in memory is ready in user
mode, so nothing sleeps out there), `Parents` (the parent of a child that is being written out waits idle,
and for one child), `Parts` (the pages of an image while it is written or read) and `Buffer`
(`SwapWakes`, and that B_WANTED stays set while somebody sleeps for the buffer).

### 5.9 DirectoryProofs

`IsMap` (the refinement), `LinkCounts`, `FoundRoom`, `TypeOK`. The file is an array of slots, and only the way it was
written divides it into entries; `Shape` says that each multiple of the entry's length is the start of a free
entry (`Empty`) or of a name of one file (`Has`), and `Unique` that a name is there once. For these to survive a
step, `Knows` has what each process knows of the call it is in:

- `Searching`: the offset is at the start of an entry, or behind the end; the slots that are still to be counted reach
  to the end of the file, and further only if a free entry was passed, for those are counted as one slot; the
  free entry that is remembered is still free; the block in the buffer is that of the offset, so
  that what the search reads are the slots of the file (`SlotRead`, `PiecesRead`, `EntryRead`); and none of the entries
  it has passed has the name (`Absent`).
- `Placed`: the place for a new name is a free entry or the end of the file, and the name is not there.
- for unlink, that its offset is behind an entry.

`Frame` shows what one process knows to be kept by the steps of others: while one has the directory locked the
file changes in one way only, an UnLink that frees an entry. `FoundRoom` follows. Two invariants rest on this one.
`Held`: the entry that unlink is about to clear, without the lock, still is the one it found; this is where one
remover is needed. `Counted`: link counts agree with the entries, as cardinalities
of `Links` and `Linking`, for all files but those in `reset`. A file leaves `reset` when MakNode gets
its inode anew and no entry has it, so the proof shows that the count of the new file is right whatever the old one's was. `NameOf` says what the map holds for a name in terms of entries; with it each action is a step of `NameMap`
(`SearchMap`, `EnterMap`, `RemoveMap`, `NextMap`). Offsets are handled without products: `Starts` and `Blocks` collect
what is used of division by the length of an entry and of a block.

### 5.10 What is only model-checked

Liveness (`CallsEnd`, `LockReleased`, `WritesEnd`, `KillEnds`, `SchedServes`): the prover
handles neither fairness nor ENABLED. Every other property of a passing run is a theorem, under the hypotheses above.

## 6. Where the code and its comments disagree

`inode_sleep` is a run of its own and listed under `findings`: IGet sleeps on the address of
its local variable, `(unsigned long)&pInode` (fs/OpenFileManager.cpp:120), and Prele and IPut wake
sleepers on the inode, so the sleeper is never woken.

The following were met while modelling. Each can be seen with the configuration named and one
change to it; TLC then finds the named definition violated.

| | Definition | Configuration and change | The code |
| --- | --- | --- | --- |
| a | `BufferCache!NoErrorReuse` | CacheShared, `Ops = {"read"}` | Brelse discards the result of `SetMinor`, which its comment at 155 relies on: a block whose read failed is found in the cache as valid (dev/BufferManager.cpp:160) |
| b | `FreeBlocks!AllocFromStack` | FreeShared | the second Alloc on a full disk finds s_nfree 0 and reads s_free[-1] (fs/FileSystem.cpp:356) |
| c | `InodeTable!Exclusive` | InodeShared | IPut clears the lock of whoever holds it, so reads and writes of a file that another process closes are not exclusive (fs/OpenFileManager.cpp:238; fs/FileManager.cpp:356 says that the lock is for that) |
| d | `InodeTable!KeepsIdentity` | InodeShared, "sync" for "unlink" in `Ops` | UpdateInodeTable unlocks an inode that IPut is releasing (fs/OpenFileManager.cpp:256; comment at 210) |
| e | `InodeAlloc!ListNotEmpty` | InodeFree | after a crash the saved list may name only inodes in use; the loop then goes below it (fs/FileSystem.cpp:276; the comment at 270 excludes it) |
| f | `Directory!FoundRoom` | DirNames, `Name <- MixedNames`, `Kinds <- OneProc`, `Proc = {p1}` | the slots that a new name needs are counted from u_dirp, which is past the name by then, so a long name goes to a short free entry and overwrites the next one (fs/FileManager.cpp:708; comment at 674) |
| g | `Allocator!OneUse` | MapAlloc, `ShrinkTo = {1, 2, 3, 4, 5}` | Expand gives back from an address that is rounded down, a unit that the image still uses (proc/Process.cpp:146) |
| h | `Swapper!SchedMakesRoom` | SwapShared, as a PROPERTY | `==` binds tighter than `&`, so the two searches for a process to write out find none (proc/ProcessManager.cpp:267, 285; comment at 259) |
| i | `Processes!NoLostSignal` | ProcLife | ctrl-c between IsSig and CLI in Sleep (proc/Process.cpp:81, 91) leaves the process asleep with a signal |
| j | `Processes!SwapExact` | ProcLife, `Overlap = TRUE` | Wait gives the slot back and then reads p_addr of it after a sleep (proc/ProcessManager.cpp:375) |
| k | `InodeTable!FreedIsUnnamed` | InodeStress, as a PROPERTY | IGet releases an entry whose read failed with the link count of its former owner (fs/OpenFileManager.cpp:182) |
| l | `Directory!LinkCounts`, `IsMap` | DirNames, `Kinds <- BothUnlink` | two unlinks find the same entry before either clears it (fs/FileManager.cpp:1139) |
| m | `Directory!CallsEnd` | DirNames, `SPB = 2` | NameI reads the block where the new name would end while it holds the same block (fs/FileManager.cpp:719) |
| n | `Directory!AllCountsNames` | DirNames, as an INVARIANT | creat of a name that is there sets the file's link count to 1 in ITrunc (fs/INode.cpp:620; include/INode.h:136 calls i_nlink the number of the file's path names). After `link a b; creat a; unlink a` the file is freed and b still names it; and a creat that finds a file just before its last name is removed leaves it with a count of 1 and no name |

Read in the code and not shown by a run: a longer name matches an entry that it begins with, since
only the entry's characters are compared (fs/FileManager.cpp:767); MakNode without a free inode leaves the
directory locked (860); zombies that process 1 inherits do not wake it
(proc/Process.cpp:264); Link clears ILOCK by hand and counts the link after it unlocked the inode
(fs/FileManager.cpp:1096, 1123); creat may take the number of an inode that unlink
is still writing and then sleeps for ever in IGet; Update may write a superblock whose stack is
half changed, since it tests s_flock before it sleeps in GetBlk (fs/FileSystem.cpp:157).

## 7. Not modelled

- Cache: `ClrBuf`, Strategy's rejection of a block past the end of the disk, IDE and DMA registers.
- Free blocks: I/O errors in Alloc (it would be left with what a failed Bread holds), a reboot
  after a crash (`InodeAlloc` has it for the inodes), mounted file systems.
- Inodes: mount points, the parents NameI walks through, Files shared after fork or dup,
  transfer errors while inodes are allocated.
- Directories: paths of more than one component and the step from a parent to its child
  (fs/FileManager.cpp:823), the entries "." and "..", permissions. What further calls do with an inode that was
  freed while a name of it was left (6, row n): the model keeps the count that IPut found, where
  the code has 1 and mode 0 on the disk.
- Pipe: `Pipe()` and its failures half way, reads of zero bytes, two readers.
- Processes: signal handlers, process groups of terminals, debugging, the images (in `Swapper`),
  zombies that process 1 has to collect for ever.
- Swapper: text segments and their sharing, the priorities of Swtch, a clock interrupt
  inside the clock's own work of a second (a second is one step), failed transfers.
- Block map (Bmap, ITrunc), File table (FAlloc), Text and Exec, terminal queues, kernel
  allocators: control that can be modelled and is not yet.
- Address spaces and page tables, boot, descriptor tables, register pushing: straight-line
  code on the hardware's state, without a choice that a model checker could explore.
- User library, shell, programs and tests: they run in user mode and are clients; the calls they
  make are the actions of the modules.
- `src/oos1`: an earlier version of the same kernel. Tools under `src/` (Bochs, MinGW, NASM and others)
  are vendored and not part of the kernel.

## 8. What comes next

Weaker hypotheses where the code allows them: what `InodeTable` keeps with sync and which part
of `Pipe` holds with several readers that close; what `Directory` keeps with names of different lengths; from `Images`, that
every process in the swap area can be brought in when the memory is empty. None of the modules
declares a RECURSIVE operator, and each has its constants' assumptions named.
