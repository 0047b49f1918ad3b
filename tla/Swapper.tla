----------------------------- MODULE Swapper -----------------------------
(***************************************************************************)
(* Process images between memory and the swap area: ProcessManager::Sched, *)
(* XSwap and the part of NewProc for a full memory                         *)
(* (proc/ProcessManager.cpp), Process::Expand, Sleep and SetRun            *)
(* (proc/Process.cpp), the transfers of BufferManager::Swap with its one   *)
(* buffer SwBuf (dev/BufferManager.cpp), the second of the clock           *)
(* (interrupt/TimeInterrupt.cpp), and the call sleep(n), whose sleepers    *)
(* share one time to be woken at (interrupt/SystemCall.cpp).               *)
(*                                                                         *)
(* An action runs from one sleep to the next; interrupts may come between. *)
(* Memory and swap area are counts of pages: Allocator has their maps.     *)
(* Text segments, failed transfers (panics) and zombies are left out.      *)
(***************************************************************************)
EXTENDS Naturals, FiniteSets, FiniteSetsExt, Functions

CONSTANTS
  NPROC,     \* entries of the process table; 0 is Sched's, 1 is there from the start
  MaxSize,   \* the largest p_size
  Mem,       \* pages of user memory
  SwapArea,  \* pages of the swap area
  MaxTime,   \* the largest p_time (127)
  MaxSleep   \* bound: the longest sleep(n)

ASSUME ConstantsAssumption ==
  /\ {NPROC, MaxSize, Mem, SwapArea, MaxTime} \subseteq Nat \ {0}
  /\ MaxSleep \in Nat
  /\ NPROC >= 2 /\ MaxSize <= Mem

User  == 1 .. NPROC - 1
Slots == 0 .. NPROC - 1
Stats == {"SNULL", "SRUN", "SSLEEP", "SWAIT", "SIDL"}
\* where a process is in the kernel: inside Swap it waits for SwBuf or for the
\* transfer; "tout" is sleep(n); only Sched is in "loop", "RunIn" and "RunOut"
PCs   == {"user", "swbuf", "swio", "tout", "panic", "loop", "RunIn", "RunOut"}

VARIABLES
  stat,      \* p_stat
  load,      \* SLOAD of p_flag
  size,      \* p_size
  time,      \* p_time
  mem,       \* pages of memory that are allocated for the process
  swp,       \* pages of the swap area that are allocated for the process
  parent,    \* the process in NewProc as whose child this one is written out
  pc,
  selected,  \* pSelected of Sched
  freeMem, freeSwap,
  RunIn, RunOut,
  SwBuf,     \* its flags B_BUSY, B_WANTED and B_DONE
  tout,      \* Time::tout - Time::time, 0 if that is past
  left       \* wakeTime - Time::time for a process in sleep(n), 0 if past

flags  == <<RunIn, RunOut>>
images == <<load, size, time, mem, swp, parent>>
clock  == <<tout, left>>
vars   == <<stat, images, pc, selected, freeMem, freeSwap, flags, SwBuf, clock>>

NoProc == 0

\* Select: p may run.  (Process 0 is always in memory.)
CanRun(p) == stat[p] = "SRUN" /\ load[p]

\* in user mode, or in a call that has nothing to do with swapping
InUser(p) == p # 0 /\ CanRun(p) /\ pc[p] = "user"

\* p_stat after WakeUpAll of the sleepers at the places L
WokenAt(L) == [p \in Slots |-> IF pc[p] \in L /\ stat[p] \in {"SSLEEP", "SWAIT"}
                               THEN "SRUN" ELSE stat[p]]

----------------------------------------------------------------------------
(* BufferManager::Swap *)

\* Start the transfer and sleep until it is done, or sleep until SwBuf is not
\* busy; st is p_stat before.
SwapBuf(p, st) ==
  /\ stat' = [st EXCEPT ![p] = "SSLEEP"]
  /\ IF "BUSY" \in SwBuf
     THEN /\ SwBuf' = SwBuf \cup {"WANTED"}
          /\ pc' = [pc EXCEPT ![p] = "swbuf"]
     ELSE /\ SwBuf' = {"BUSY"}
          /\ pc' = [pc EXCEPT ![p] = "swio"]

\* the disk interrupt: IODone wakes all who sleep on SwBuf
IODone ==
  /\ "BUSY" \in SwBuf /\ "DONE" \notin SwBuf
  /\ SwBuf' = {"BUSY", "DONE"}
  /\ stat' = WokenAt({"swbuf", "swio"})
  /\ UNCHANGED <<images, pc, selected, freeMem, freeSwap, flags, clock>>

\* mutant: the flag is not set again by a process that finds SwBuf busy
SwapAgainOnce(p) ==
  /\ pc[p] = "swbuf" /\ CanRun(p)
  /\ IF "BUSY" \in SwBuf
     THEN stat' = [stat EXCEPT ![p] = "SSLEEP"] /\ UNCHANGED <<pc, SwBuf>>
     ELSE SwapBuf(p, stat)
  /\ UNCHANGED <<images, selected, freeMem, freeSwap, flags, clock>>

\* back from the sleep on a busy SwBuf
SwapAgain(p) ==
  /\ pc[p] = "swbuf" /\ CanRun(p)
  /\ SwapBuf(p, stat)
  /\ UNCHANGED <<images, selected, freeMem, freeSwap, flags, clock>>

\* back from the sleep on the transfer: SwBuf is given up; L are the places
\* where processes are woken besides, st is p_stat before
SwapEnd(p, L, st) ==
  /\ pc[p] = "swio" /\ CanRun(p) /\ "DONE" \in SwBuf
  /\ SwBuf' = {"DONE"}
  /\ stat' = [q \in Slots |->
                IF pc[q] \in L \cup (IF "WANTED" \in SwBuf THEN {"swbuf"} ELSE {})
                   /\ st[q] = "SSLEEP"
                THEN "SRUN" ELSE st[q]]

----------------------------------------------------------------------------
(* ProcessManager::XSwap, and who calls it *)

\* XSwap of p until the image is written; what p has in memory stays
XSwap(p, st) ==
  \/ /\ size'[p] <= freeSwap
     /\ freeSwap' = freeSwap - size'[p]
     /\ swp' = [swp EXCEPT ![p] = size'[p]]
     /\ SwapBuf(p, st)
  \/ /\ size'[p] > freeSwap
     /\ pc' = [pc EXCEPT ![p] = "panic"]
     /\ UNCHANGED <<stat, swp, freeSwap, SwBuf>>

\* mutant: Sched is not told
XSwapDoneSilent(p) ==
  /\ SwapEnd(p, {}, [stat EXCEPT ![parent[p]] = IF parent[p] = NoProc THEN @ ELSE "SRUN"])
  /\ freeMem' = freeMem + mem[p]
  /\ mem' = [mem EXCEPT ![p] = 0]
  /\ load' = [load EXCEPT ![p] = FALSE]
  /\ time' = [time EXCEPT ![p] = 0]
  /\ parent' = [parent EXCEPT ![p] = NoProc]
  /\ pc' = [pc EXCEPT ![p] = "user"]
  /\ UNCHANGED <<size, swp, selected, freeSwap, flags, clock>>

\* The rest of XSwap, and of Expand or NewProc.  A child in NewProc has no
\* memory; it slept in the place of its parent, who goes on.
XSwapDone(p) ==
  /\ p # 0
  /\ SwapEnd(p, IF RunOut THEN {"RunOut"} ELSE {},
             [stat EXCEPT ![parent[p]] = IF parent[p] = NoProc THEN @ ELSE "SRUN"])
  /\ RunOut' = FALSE
  /\ freeMem' = freeMem + mem[p]
  /\ mem' = [mem EXCEPT ![p] = 0]
  /\ load' = [load EXCEPT ![p] = FALSE]
  /\ time' = [time EXCEPT ![p] = 0]
  /\ parent' = [parent EXCEPT ![p] = NoProc]
  /\ pc' = [pc EXCEPT ![p] = "user"]
  /\ UNCHANGED <<size, swp, selected, freeSwap, RunIn, clock>>

\* Expand to n pages: the image is copied to a new place, or there is none
\* and the process swaps itself out
Grow(p, n) ==
  /\ InUser(p) /\ n \in size[p] + 1 .. MaxSize
  /\ size' = [size EXCEPT ![p] = n]
  /\ \/ /\ n <= freeMem
        /\ freeMem' = freeMem - n + size[p]
        /\ mem' = [mem EXCEPT ![p] = n]
        /\ UNCHANGED <<stat, swp, pc, freeSwap, SwBuf>>
     \/ /\ n > freeMem
        /\ XSwap(p, stat)
        /\ UNCHANGED <<mem, freeMem>>
  /\ UNCHANGED <<load, time, parent, selected, flags, clock>>

Shrink(p, n) ==
  /\ InUser(p) /\ n \in 1 .. size[p] - 1
  /\ size' = [size EXCEPT ![p] = n]
  /\ mem' = [mem EXCEPT ![p] = n]
  /\ freeMem' = freeMem + size[p] - n
  /\ UNCHANGED <<stat, load, time, swp, parent, pc, selected, freeSwap, flags, SwBuf, clock>>

\* The first free entry becomes the child: Clone, and the image is copied in
\* memory, or written out.  (Panic without an entry: Fork has looked.)
NewProc(p) ==
  /\ InUser(p)
  /\ \E c \in User :
       /\ stat[c] = "SNULL" /\ \A d \in User : stat[d] = "SNULL" => c <= d
       /\ size' = [size EXCEPT ![c] = size[p]]
       /\ load' = [load EXCEPT ![c] = TRUE]
       /\ time' = [time EXCEPT ![c] = 0]
       /\ \/ /\ size[p] <= freeMem
             /\ mem' = [mem EXCEPT ![c] = size[p]]
             /\ freeMem' = freeMem - size[p]
             /\ stat' = [stat EXCEPT ![c] = "SRUN"]
             /\ UNCHANGED <<swp, parent, pc, freeSwap, SwBuf>>
          \/ /\ size[p] > freeMem
             /\ parent' = [parent EXCEPT ![c] = p]
             /\ XSwap(c, [stat EXCEPT ![p] = "SIDL"])
             /\ UNCHANGED <<mem, freeMem>>
  /\ UNCHANGED <<selected, flags, clock>>

\* Exit gives the memory back
Exit(p) ==
  /\ InUser(p) /\ p # 1
  /\ stat' = [stat EXCEPT ![p] = "SNULL"]
  /\ freeMem' = freeMem + mem[p]
  /\ mem' = [mem EXCEPT ![p] = 0]
  /\ size' = [size EXCEPT ![p] = 0]
  /\ load' = [load EXCEPT ![p] = FALSE]
  /\ time' = [time EXCEPT ![p] = 0]
  /\ UNCHANGED <<swp, parent, pc, selected, freeSwap, flags, SwBuf, clock>>

\* Sleep with a low priority lets Sched look again.
SleepWait(p) ==
  /\ stat' = [WokenAt(IF RunIn THEN {"RunIn"} ELSE {}) EXCEPT ![p] = "SWAIT"]
  /\ RunIn' = FALSE
  /\ UNCHANGED <<images, selected, freeMem, freeSwap, RunOut, SwBuf>>

\* for the terminal, a pipe or a child
Sleep(p) == InUser(p) /\ SleepWait(p) /\ UNCHANGED <<pc, clock>>

\* a round of the loop of sleep(n): n seconds are left
SleepFor(p, n) ==
  /\ tout' = (IF tout = 0 \/ tout > n THEN n ELSE tout)
  /\ SleepWait(p)

SleepCall(p, n) ==
  /\ InUser(p)
  /\ left' = [left EXCEPT ![p] = n]
  /\ SleepFor(p, n)
  /\ pc' = [pc EXCEPT ![p] = "tout"]

\* mutant: tout is set only before the loop
SleepAgainOnce(p) ==
  /\ pc[p] = "tout" /\ CanRun(p) /\ left[p] # 0
  /\ SleepWait(p)
  /\ UNCHANGED <<pc, clock>>

\* woken for another process
SleepAgain(p) ==
  /\ pc[p] = "tout" /\ CanRun(p) /\ left[p] # 0
  /\ SleepFor(p, left[p])
  /\ UNCHANGED <<pc, left>>

SleepReturn(p) ==
  /\ pc[p] = "tout" /\ CanRun(p) /\ left[p] = 0
  /\ pc' = [pc EXCEPT ![p] = "user"]
  /\ UNCHANGED <<stat, images, selected, freeMem, freeSwap, flags, SwBuf, clock>>

\* SetRun, by a terminal or another process; a signal ends sleep(n).  (WokenAt
\* needs no such look at SLOAD: who sleeps is in memory.)
SetRun(p) ==
  LET swapped == RunOut /\ ~ load[p] IN
  /\ stat[p] = "SWAIT"
  /\ stat' = [WokenAt(IF swapped THEN {"RunOut"} ELSE {}) EXCEPT ![p] = "SRUN"]
  /\ RunOut' = (RunOut /\ ~ swapped)
  /\ pc' = [pc EXCEPT ![p] = "user"]
  /\ left' = [left EXCEPT ![p] = 0]
  /\ UNCHANGED <<images, selected, freeMem, freeSwap, RunIn, SwBuf, tout>>

Less(n) == IF n = 0 THEN 0 ELSE n - 1

\* the end of a second in Time::Clock
Second ==
  /\ time' = [p \in Slots |-> IF stat[p] = "SNULL" THEN time[p] ELSE Min({time[p] + 1, MaxTime})]
  /\ tout' = Less(tout)
  /\ left' = [p \in Slots |-> Less(left[p])]
  /\ stat' = WokenAt((IF tout = 1 THEN {"tout"} ELSE {}) \cup (IF RunIn THEN {"RunIn"} ELSE {}))
  /\ RunIn' = FALSE
  /\ UNCHANGED <<load, size, mem, swp, parent, pc, selected, freeMem, freeSwap, RunOut, SwBuf>>

----------------------------------------------------------------------------
(* ProcessManager::Sched *)

\* the processes that are ready in the swap area
Ready == {p \in User : stat[p] = "SRUN" /\ ~ load[p]}

\* pSelected: the first of those that have been there longest
Longest == CHOOSE p \in Ready :
             \A q \in Ready : time[q] < time[p] \/ (time[q] = time[p] /\ p <= q)

SchedAt(S) == pc[0] \in S /\ stat[0] = "SRUN"

\* a round of Sched begins, after a transfer or a sleep
Round == SchedAt({"loop", "RunIn", "RunOut"})

\* nobody to bring in
SchedIdle ==
  /\ Round /\ Ready = {}
  /\ RunOut' = TRUE
  /\ stat' = [stat EXCEPT ![0] = "SSLEEP"] /\ pc' = [pc EXCEPT ![0] = "RunOut"]
  /\ UNCHANGED <<images, selected, freeMem, freeSwap, RunIn, SwBuf, clock>>

\* No room.  In both tests for a process to throw out, == binds tighter than
\* &: they are false for every process, and Sched just waits.
SchedFull ==
  /\ Round /\ Ready # {}
  /\ size[Longest] > freeMem
  /\ RunIn' = TRUE
  /\ stat' = [stat EXCEPT ![0] = "SSLEEP"] /\ pc' = [pc EXCEPT ![0] = "RunIn"]
  /\ UNCHANGED <<images, selected, freeMem, freeSwap, RunOut, SwBuf, clock>>

\* there is room: read the image
SchedIn ==
  /\ Round /\ Ready # {}
  /\ size[Longest] <= freeMem
  /\ selected' = Longest
  /\ freeMem' = freeMem - size[Longest]
  /\ mem' = [mem EXCEPT ![Longest] = size[Longest]]
  /\ SwapBuf(0, stat)
  /\ UNCHANGED <<load, size, time, swp, parent, freeSwap, flags, clock>>

\* mutant: the pages of the swap area are kept
SchedInDoneKeeps ==
  /\ SwapEnd(0, {}, stat)
  /\ swp' = [swp EXCEPT ![selected] = 0]
  /\ load' = [load EXCEPT ![selected] = TRUE]
  /\ time' = [time EXCEPT ![selected] = 0]
  /\ pc' = [pc EXCEPT ![0] = "loop"]
  /\ UNCHANGED <<size, mem, parent, selected, freeMem, freeSwap, flags, clock>>

SchedInDone ==
  /\ SwapEnd(0, {}, stat)
  /\ freeSwap' = freeSwap + size[selected]
  /\ swp' = [swp EXCEPT ![selected] = 0]
  /\ load' = [load EXCEPT ![selected] = TRUE]
  /\ time' = [time EXCEPT ![selected] = 0]
  /\ pc' = [pc EXCEPT ![0] = "loop"]
  /\ UNCHANGED <<size, mem, parent, selected, freeMem, flags, clock>>

Sched == SchedIdle \/ SchedFull \/ SchedIn \/ SchedInDone

----------------------------------------------------------------------------
\* Process 1 is in memory, the others are to come.
Init ==
  /\ stat = [p \in Slots |-> IF p <= 1 THEN "SRUN" ELSE "SNULL"]
  /\ load = [p \in Slots |-> p <= 1]
  /\ size = [p \in Slots |-> IF p = 1 THEN 1 ELSE 0]
  /\ time = [p \in Slots |-> 0]
  /\ mem = size
  /\ swp = [p \in Slots |-> 0]
  /\ parent = [p \in Slots |-> NoProc]
  /\ pc = [p \in Slots |-> IF p = 0 THEN "loop" ELSE "user"]
  /\ selected = NoProc
  /\ freeMem = Mem - 1 /\ freeSwap = SwapArea
  /\ RunIn = FALSE /\ RunOut = FALSE
  /\ SwBuf = {}
  /\ tout = 0 /\ left = [p \in Slots |-> 0]

\* a process inside Swap or sleep(n) goes on
Goes(p) == SwapAgain(p) \/ XSwapDone(p) \/ SleepAgain(p) \/ SleepReturn(p)

Next ==
  \/ IODone \/ Second \/ Sched
  \/ \E p \in Slots : SwapAgain(p)
  \/ \E p \in User :
       \/ XSwapDone(p) \/ NewProc(p) \/ Exit(p) \/ Sleep(p) \/ SetRun(p)
       \/ SleepAgain(p) \/ SleepReturn(p)
       \/ \E n \in 1 .. MaxSize : Grow(p, n) \/ Shrink(p, n)
       \/ \E n \in 1 .. MaxSleep : SleepCall(p, n)

Running == \A p \in Slots : pc[p] # "panic"

Spec == Init /\ [][Running /\ Next]_vars

\* The disk answers, the clock runs, and who is ready gets the processor:
\* process 0, and processes that return from a transfer, before all others.
FairSpec ==
  /\ Spec
  /\ WF_vars(Running /\ IODone) /\ WF_vars(Running /\ Second)
  /\ WF_vars(Running /\ (Sched \/ SwapAgain(0)))
  /\ \A p \in User : WF_vars(Running /\ Goes(p))

----------------------------------------------------------------------------
(* Properties *)

TypeOK ==
  /\ stat \in [Slots -> Stats] /\ load \in [Slots -> BOOLEAN]
  /\ {size, mem, swp} \subseteq [Slots -> 0 .. MaxSize]
  /\ time \in [Slots -> 0 .. MaxTime]
  /\ parent \in [Slots -> Slots] /\ selected \in Slots
  /\ pc \in [Slots -> PCs]
  /\ freeMem \in 0 .. Mem /\ freeSwap \in 0 .. SwapArea
  /\ {RunIn, RunOut} \subseteq BOOLEAN
  /\ SwBuf \subseteq {"BUSY", "WANTED", "DONE"}
  /\ tout \in 0 .. MaxSleep /\ left \in [Slots -> 0 .. MaxSleep]

InSwap(p) == pc[p] \in {"swbuf", "swio"}

\* p is being read in
Entering(p) == p = selected /\ InSwap(0)

Total(f) == FoldFunctionOnSet(+, 0, f, User)

\* The whole image of every process is in memory or in the swap area, in both
\* only during a transfer; no page is lost or counted twice.
Images ==
  /\ \A p \in User : stat[p] # "SNULL" /\ ~ InSwap(p) /\ ~ Entering(p) /\ pc[p] # "panic" =>
       /\ mem[p] = IF load[p] THEN size[p] ELSE 0
       /\ swp[p] = IF load[p] THEN 0 ELSE size[p]
  /\ freeMem + Total(mem) = Mem
  /\ freeSwap + Total(swp) = SwapArea

\* SwBuf serves one transfer at a time, and whoever sleeps on it, for a
\* transfer or for its end, is woken by an interrupt or by its holder.
SwapWakes ==
  LET Holder == {p \in Slots : pc[p] = "swio"} IN
  /\ Cardinality(Holder) <= 1
  /\ "BUSY" \in SwBuf <=> Holder # {}
  /\ \A p \in Holder : stat[p] = "SSLEEP" => "DONE" \notin SwBuf
  /\ \A p \in Slots : pc[p] = "swbuf" /\ stat[p] = "SSLEEP" =>
       /\ Holder # {}
       /\ "DONE" \in SwBuf => "WANTED" \in SwBuf

\* One time to be woken at is enough for all that are in sleep(n): while a
\* process sleeps there, tout is to come, and no later than the process asked
\* for, although each wake-up is for all and each sleeper may move tout.
SleepersWake ==
  \A p \in User : pc[p] = "tout" /\ stat[p] = "SWAIT" => tout \in 1 .. left[p]

\* Sched brings processes in whenever it can: it is never for ever asleep, or
\* busy with nothing, while the process that has waited longest would fit.
SchedServes ==
  Ready # {} /\ ~ InSwap(0) /\ size[Longest] <= freeMem
    ~> \/ InSwap(0)
       \/ Ready = {} \/ size[Longest] > freeMem
       \/ ~ Running

\* Sched says that it makes room by writing out processes that sleep: a
\* process that is ready in the swap area gets into memory.
SchedMakesRoom == \A p \in User : p \in Ready ~> load[p] \/ ~ Running
=============================================================================
