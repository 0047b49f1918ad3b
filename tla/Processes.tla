------------------------------ MODULE Processes ------------------------------
(***************************************************************************)
(* The life of processes: Fork and NewProc, Wait and Kill                  *)
(* (proc/ProcessManager.cpp), Clone, Exit, Sleep, PSignal and PSig         *)
(* (proc/Process.cpp), and ctrl-c (tty/Keyboard.cpp).                      *)
(*                                                                         *)
(* The kernel is not preempted: an action runs until the process sleeps or *)
(* is back in user mode.  Only interrupts come in between, and ctrl-c is   *)
(* one: Sleep is two steps, because it looks for a signal first and shuts  *)
(* interrupts out later.  Exit and Wait sleep for the disk while they      *)
(* write and read the user structure of the dead process, one block of the *)
(* swap area.  Process 0, the scheduler, is left out; process 1 does not   *)
(* exit, and gets no signals.                                              *)
(***************************************************************************)
EXTENDS Integers, FiniteSets

CONSTANTS
  NPROC,    \* slots of the process table, from 1 on
  Blocks,   \* blocks of the swap area
  MaxPid,   \* bound: the last process number
  Overlap,  \* may a process fork while another one is reading in Wait?
  Ctrlc     \* does anybody type ctrl-c?

ASSUME ProcessesAssumption ==
  /\ NPROC \in Nat \ {0} /\ MaxPid \in Nat \ {0}
  /\ Overlap \in BOOLEAN /\ Ctrlc \in BOOLEAN
  /\ 0 \notin Blocks

Slots == 1 .. NPROC
Image == 0  \* p_addr of a process that is not a zombie: its image in memory

VARIABLES
  pc,       \* where the process in a slot is; "none" is SNULL, "zombie" SZOMB,
            \* "asleep" SWAIT in Wait
  pid,      \* p_pid
  ppid,     \* p_ppid
  sig,      \* p_sig
  addr,     \* p_addr: for a zombie the block of its user structure
  blk,      \* blkno of Exit
  reaps,    \* the slot whose zombie Wait has found
  swap,     \* the free blocks of the swap area
  nextPid,  \* m_NextUniquePid
  adopted   \* history: the zombies that process 1 got from dead parents

vars == <<pc, pid, ppid, sig, addr, blk, reaps, swap, nextPid, adopted>>

PCs  == {"none", "user", "wait", "toSleep", "asleep", "reap", "exit", "zombie"}
Sigs == {"no", "int", "kill"}

Goto(s, l) == pc' = [pc EXCEPT ![s] = l]

\* a process may act unless one is on its way to sleep and has the processor
CanAct(s) == \A t \in Slots \ {s} : pc[t] # "toSleep"

Min(S) == CHOOSE i \in S : \A j \in S : i <= j

Free      == {s \in Slots : pc[s] = "none"}
Zombies   == {s \in Slots : pc[s] = "zombie"}
\* slots whose p_ppid names the process in slot s
Children(s) == {t \in Slots : ppid[t] = pid[s]}

\* pc when the processes S that sleep in Wait are woken
Woken(S) == [s \in Slots |-> IF s \in S /\ pc[s] = "asleep" THEN "wait" ELSE pc[s]]

----------------------------------------------------------------------------
(* ProcessManager::Fork *)

\* The first free slot becomes the child.  Its p_sig is what the slot holds.
Fork(s) ==
  LET t == Min(Free) IN
  /\ pc[s] = "user" /\ CanAct(s) /\ sig[s] = "no"
  /\ Free # {} /\ nextPid <= MaxPid
  /\ Overlap \/ \A r \in Slots : pc[r] # "reap"
  /\ pc' = [pc EXCEPT ![t] = "user"]
  /\ pid' = [pid EXCEPT ![t] = nextPid]
  /\ ppid' = [ppid EXCEPT ![t] = pid[s]]
  /\ addr' = [addr EXCEPT ![t] = Image]
  /\ nextPid' = nextPid + 1
  /\ UNCHANGED <<sig, blk, reaps, swap, adopted>>

----------------------------------------------------------------------------
(* Process::Exit *)

\* A block for the user structure is taken and written; without one the
\* kernel panics.  Which block it is makes no difference.
Exit(s) ==
  /\ pc[s] = "user" /\ CanAct(s) /\ s # 1
  /\ sig' = [sig EXCEPT ![s] = "no"]
  /\ swap # {}
  /\ LET b == CHOOSE b \in swap : TRUE
     IN  swap' = swap \ {b} /\ blk' = [blk EXCEPT ![s] = b]
  /\ Goto(s, "exit")
  /\ UNCHANGED <<pid, ppid, addr, reaps, nextPid, adopted>>

\* mutant: the parent is woken before the process is a zombie, while the
\* user structure is being written, and not afterwards
ExitDoneSilent(s) ==
  /\ pc[s] = "exit" /\ CanAct(s)
  /\ addr' = [addr EXCEPT ![s] = blk[s]]
  /\ blk' = [blk EXCEPT ![s] = Image]
  /\ Goto(s, "zombie")
  /\ ppid' = [t \in Slots |-> IF t \in Children(s) THEN 1 ELSE ppid[t]]
  /\ adopted' = adopted \cup (Children(s) \cap Zombies)
  /\ UNCHANGED <<pid, sig, reaps, swap, nextPid>>

\* mutant: the children keep their parent
ExitDoneOrphans(s) ==
  /\ pc[s] = "exit" /\ CanAct(s)
  /\ addr' = [addr EXCEPT ![s] = blk[s]]
  /\ blk' = [blk EXCEPT ![s] = Image]
  /\ pc' = [Woken({t \in Slots : pid[t] = ppid[s]}) EXCEPT ![s] = "zombie"]
  /\ UNCHANGED <<pid, ppid, sig, reaps, swap, nextPid, adopted>>

\* The structure is written: the process becomes a zombie, its parent is
\* woken, and process 1 becomes the parent of its children.
ExitDone(s) ==
  /\ pc[s] = "exit" /\ CanAct(s)
  /\ addr' = [addr EXCEPT ![s] = blk[s]]
  /\ blk' = [blk EXCEPT ![s] = Image]
  /\ pc' = [Woken({t \in Slots : pid[t] = ppid[s]}) EXCEPT ![s] = "zombie"]
  /\ ppid' = [t \in Slots |-> IF t \in Children(s) THEN 1 ELSE ppid[t]]
  /\ adopted' = adopted \cup (Children(s) \cap Zombies)
  /\ UNCHANGED <<pid, sig, reaps, swap, nextPid>>

----------------------------------------------------------------------------
(* ProcessManager::Wait *)

\* the table is looked through, in a new call or after a sleep
Waiting(s) == pc[s] \in {"user", "wait"} /\ CanAct(s) /\ sig[s] = "no"

\* There is a zombie: its slot is given back, and its block is read.
WaitFinds(s) ==
  LET Dead == Children(s) \cap Zombies
      t    == Min(Dead) IN
  /\ Waiting(s) /\ Dead # {}
  /\ pc' = [pc EXCEPT ![s] = "reap", ![t] = "none"]
  /\ pid' = [pid EXCEPT ![t] = 0]
  /\ ppid' = [ppid EXCEPT ![t] = -1]
  /\ sig' = [sig EXCEPT ![t] = "no"]
  /\ reaps' = [reaps EXCEPT ![s] = t]
  /\ adopted' = adopted \ {t}
  /\ UNCHANGED <<addr, blk, swap, nextPid>>

\* mutant: the block is not given back
WaitDoneKeeps(s) ==
  /\ pc[s] = "reap" /\ CanAct(s)
  /\ Goto(s, "user")
  /\ UNCHANGED <<pid, ppid, sig, addr, blk, reaps, swap, nextPid, adopted>>

\* The block is read and given back: the block that p_addr of the slot names
\* now.
WaitDone(s) ==
  /\ pc[s] = "reap" /\ CanAct(s)
  /\ swap' = swap \cup {addr[reaps[s]]}
  /\ reaps' = [reaps EXCEPT ![s] = 0]
  /\ Goto(s, "user")
  /\ UNCHANGED <<pid, ppid, sig, addr, blk, nextPid, adopted>>

\* no children: ECHILD
WaitNone(s) ==
  /\ Waiting(s) /\ Children(s) = {}
  /\ Goto(s, "user")
  /\ UNCHANGED <<pid, ppid, sig, addr, blk, reaps, swap, nextPid, adopted>>

\* No child has ended: Sleep has seen no signal and is about to sleep.
WaitSleeps(s) ==
  /\ Waiting(s) /\ Children(s) # {} /\ Children(s) \cap Zombies = {}
  /\ Goto(s, "toSleep")
  /\ UNCHANGED <<pid, ppid, sig, addr, blk, reaps, swap, nextPid, adopted>>

\* interrupts are shut out, and the process sleeps
Sleep(s) ==
  /\ pc[s] = "toSleep"
  /\ Goto(s, "asleep")
  /\ UNCHANGED <<pid, ppid, sig, addr, blk, reaps, swap, nextPid, adopted>>

\* woken with a signal: the call ends (aRetU)
WaitEnds(s) ==
  /\ pc[s] = "wait" /\ CanAct(s) /\ sig[s] # "no"
  /\ Goto(s, "user")
  /\ UNCHANGED <<pid, ppid, sig, addr, blk, reaps, swap, nextPid, adopted>>

----------------------------------------------------------------------------
(* Signals *)

\* mutant: the sleepers are not woken
PSignalAsleep(S, n) ==
  /\ sig' = [s \in Slots |-> IF s \in S /\ sig[s] # "kill" THEN n ELSE sig[s]]
  /\ pc' = pc

\* PSignal for the processes S: SIGKILL stays, and who sleeps in Wait is woken
PSignal(S, n) ==
  /\ sig' = [s \in Slots |-> IF s \in S /\ sig[s] # "kill" THEN n ELSE sig[s]]
  /\ pc' = Woken(S)

\* kill of another process by its number
Kill(s, t) ==
  /\ pc[s] = "user" /\ CanAct(s) /\ sig[s] = "no"
  /\ s # t /\ pid[t] > 1
  /\ PSignal({t}, "kill")
  /\ UNCHANGED <<pid, ppid, addr, blk, reaps, swap, nextPid, adopted>>

\* ctrl-c: SIGINT for everybody but processes 0 and 1, at any time
Interrupt ==
  /\ Ctrlc
  /\ PSignal({s \in Slots : pid[s] > 1}, "int")
  /\ UNCHANGED <<pid, ppid, addr, blk, reaps, swap, nextPid, adopted>>

\* A signal is seen when the process is about to return to user mode (or is
\* interrupted there): it exits.  Handlers are left out.
PSig(s) == sig[s] # "no" /\ Exit(s)

----------------------------------------------------------------------------
Init ==
  /\ pc = [s \in Slots |-> IF s = 1 THEN "user" ELSE "none"]
  /\ pid = [s \in Slots |-> IF s = 1 THEN 1 ELSE 0]
  /\ ppid = [s \in Slots |-> IF s = 1 THEN 0 ELSE -1]
  /\ sig = [s \in Slots |-> "no"]
  /\ addr = [s \in Slots |-> Image]
  /\ blk = [s \in Slots |-> Image]
  /\ reaps = [s \in Slots |-> 0]
  /\ swap = Blocks
  /\ nextPid = 2
  /\ adopted = {}

\* what a process must do once it is in the kernel or has a signal
Goes(s) == \/ ExitDone(s) \/ WaitDone(s) \/ Sleep(s) \/ PSig(s)
           \/ WaitEnds(s)
           \/ pc[s] = "wait" /\ (WaitFinds(s) \/ WaitNone(s) \/ WaitSleeps(s))

Next == \/ Interrupt
        \/ \E s \in Slots :
             \/ Fork(s) \/ Exit(s) \/ ExitDone(s)
             \/ WaitFinds(s) \/ WaitDone(s) \/ WaitNone(s) \/ WaitSleeps(s)
             \/ WaitEnds(s) \/ Sleep(s) \/ \E t \in Slots : Kill(s, t)

Spec == Init /\ [][Next]_vars

\* the disk answers, and the scheduler runs every process that is ready
FairSpec == Spec /\ \A s \in Slots : WF_vars(Goes(s))

----------------------------------------------------------------------------
(* Properties *)

TypeOK ==
  /\ pc \in [Slots -> PCs] /\ sig \in [Slots -> Sigs]
  /\ pid \in [Slots -> 0 .. MaxPid] /\ ppid \in [Slots -> -1 .. MaxPid]
  /\ addr \in [Slots -> Blocks \cup {Image}] /\ blk \in [Slots -> Blocks \cup {Image}]
  /\ reaps \in [Slots -> 0 .. NPROC]
  /\ swap \subseteq Blocks
  /\ nextPid \in 2 .. MaxPid + 1
  /\ adopted \subseteq Zombies

\* a process, dead or alive
Used == Slots \ Free
Alive == Used \ Zombies

\* Processes form a tree with process 1 at its root: numbers are unique, and
\* every process, zombies included, has a parent that is alive and can wait
\* for it, whatever exits and is waited for in which order.
ParentAlive ==
  /\ \A s, t \in Used : pid[s] = pid[t] => s = t
  /\ \A s \in Used \ {1} : \E t \in Alive : pid[t] = ppid[s]

\* No child is overlooked: a parent sleeps in Wait only if it has children
\* and none of them is a zombie, apart from the zombies process 1 was given
\* by their dying parents, which does not wake it.
NoLostChild ==
  \A s \in Slots : pc[s] = "asleep" =>
    /\ Children(s) # {}
    /\ Children(s) \cap Zombies \subseteq (IF s = 1 THEN adopted ELSE {})

\* the blocks that processes have: those of zombies, of processes that exit,
\* and of zombies whose slot Wait has given back already
Owners(b) ==
    {s \in Zombies : addr[s] = b}
  \cup {s \in Slots : pc[s] = "exit" /\ blk[s] = b}
  \cup {s \in Slots : pc[s] = "reap" /\ addr[reaps[s]] = b}

\* Every block of the swap area is free or belongs to one dead process, and
\* none is lost: what Exit takes Wait gives back.
SwapExact ==
  /\ \A b \in Blocks : Cardinality(Owners(b)) = (IF b \in swap THEN 0 ELSE 1)
  /\ swap \subseteq Blocks

\* SIGKILL ends a process, whatever it does and whatever comes after it.
KillEnds ==
  \A s \in Slots : sig[s] = "kill" /\ pc[s] # "zombie" ~> pc[s] = "zombie"

\* A process does not sleep in Wait with a signal that it has not seen
\* (Process.cpp, line 78).
NoLostSignal == \A s \in Slots : pc[s] = "asleep" => sig[s] = "no"
=============================================================================
