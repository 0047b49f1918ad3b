-------------------------- MODULE ProcessesProofs --------------------------
(***************************************************************************)
(* The safety properties of Processes, proved for every size of the        *)
(* process table and of the swap area and every number of process numbers. *)
(***************************************************************************)
EXTENDS Processes, FiniteSetTheorems, WellFoundedInduction, TLAPS

----------------------------------------------------------------------------
(* The inductive invariant of the process tree *)

\* The block that Wait gives back may be none at all if a process may fork
\* while another one is reading in Wait; TypeOK, which excludes this, is
\* therefore part of the invariant of the swap area below.
Types ==
  /\ pc \in [Slots -> PCs] /\ sig \in [Slots -> Sigs]
  /\ pid \in [Slots -> 0 .. MaxPid] /\ ppid \in [Slots -> -1 .. MaxPid]
  /\ addr \in [Slots -> Blocks \cup {Image}] /\ blk \in [Slots -> Blocks \cup {Image}]
  /\ reaps \in [Slots -> 0 .. NPROC]
  /\ \A s \in Slots : pc[s] = "reap" => reaps[s] # 0
  /\ swap \subseteq Blocks \cup {Image}
  /\ nextPid \in 2 .. MaxPid + 1
  /\ adopted \subseteq Zombies

\* a number is given once, and a parent is older than its children
Numbers ==
  /\ pc[1] \notin {"none", "exit", "zombie"} /\ pid[1] = 1 /\ ppid[1] = 0
  /\ \A s \in Slots :
       IF pc[s] = "none" THEN pid[s] = 0 /\ ppid[s] = -1
       ELSE pid[s] \in 1 .. nextPid - 1 /\ ppid[s] < pid[s]

\* a parent that sleeps, or is about to, has nothing to find
Asleep ==
  \A s \in Slots : pc[s] \in {"toSleep", "asleep"} =>
    /\ Children(s) # {}
    /\ Children(s) \cap Zombies \subseteq (IF s = 1 THEN adopted ELSE {})

TreeInv == Types /\ Numbers /\ ParentAlive /\ Asleep

----------------------------------------------------------------------------
(* Lemmas *)

\* The search of the table finds a slot.
LEMMA MinIn ==
  ASSUME NEW S, S \subseteq Nat, S # {}
  PROVE  Min(S) \in S
<1>1. PICK x \in S : \A y \in S : ~ (<<y, x>> \in OpToRel(<, Nat))
  BY NatLessThanWellFounded, WFMin
<1>2. \A y \in S : ~ (y < x)
  BY <1>1 DEF OpToRel
<1>3. \A y \in S : x <= y
  BY <1>2
<1> QED BY <1>3 DEF Min

\* the first process
LEMMA TreeInit == ASSUME Init PROVE TreeInv
<1>1. 1 \in Slots
  BY ProcessesAssumption DEF Slots
<1>2. Types
  BY ProcessesAssumption DEF Init, Types, PCs, Sigs, Image
<1>3. Numbers
  BY <1>1 DEF Init, Numbers
<1>4. ParentAlive
  BY <1>1 DEF Init, ParentAlive, Used, Free, Alive
<1>5. Asleep
  BY DEF Init, Asleep
<1> QED BY <1>2, <1>3, <1>4, <1>5 DEF TreeInv

\* A step that moves processes neither into nor out of the table, and lets
\* nobody sleep over a child, leaves the tree alone.
LEMMA TreeKept ==
  ASSUME TreeInv, Types', UNCHANGED <<pid, ppid, nextPid, adopted>>,
         \A s \in Slots : (pc'[s] = "none") <=> (pc[s] = "none"),
         \A s \in Slots : (pc'[s] = "zombie") <=> (pc[s] = "zombie"),
         \A s \in Slots : pc'[s] \in {"toSleep", "asleep"} =>
           \/ pc[s] \in {"toSleep", "asleep"}
           \/ Children(s) # {} /\ Children(s) \cap Zombies = {},
         pc'[1] # "exit"
  PROVE  TreeInv'
<1> USE DEF TreeInv
<1>1. Free' = Free /\ Zombies' = Zombies /\ Used' = Used /\ Alive' = Alive
  BY DEF Free, Zombies, Used, Alive
<1>2. \A s \in Slots : Children(s)' = Children(s)
  BY DEF Children
<1>3. 1 \in Slots
  BY ProcessesAssumption DEF Slots
<1>4. Numbers'
  BY <1>3 DEF Numbers
<1>5. ParentAlive'
  BY <1>1 DEF ParentAlive
<1>6. Asleep'
  BY <1>1, <1>2 DEF Asleep
<1> QED BY <1>4, <1>5, <1>6

----------------------------------------------------------------------------
(* Every step preserves the tree *)

\* a child is made
LEMMA TreeFork == ASSUME TreeInv, NEW s \in Slots, Fork(s) PROVE TreeInv'
<1> USE DEF TreeInv
<1> DEFINE t == Min(Free)
<1>a. t \in Slots /\ pc[t] = "none"
  <2>1. Free \subseteq Nat /\ Free # {}
    BY DEF Free, Slots, Fork
  <2> QED BY <2>1, MinIn DEF Free
<1>b. /\ pc[s] = "user" /\ CanAct(s) /\ nextPid <= MaxPid
      /\ pc' = [pc EXCEPT ![t] = "user"]
      /\ pid' = [pid EXCEPT ![t] = nextPid]
      /\ ppid' = [ppid EXCEPT ![t] = pid[s]]
      /\ addr' = [addr EXCEPT ![t] = Image]
      /\ nextPid' = nextPid + 1
      /\ UNCHANGED <<sig, blk, reaps, swap, adopted>>
  BY DEF Fork
<1> HIDE DEF t
<1>c. 1 \in Slots /\ t # 1 /\ s # t
  BY <1>a, <1>b, ProcessesAssumption DEF Slots, Numbers
<1>d. pid[s] \in 1 .. nextPid - 1 /\ nextPid \in 2 .. MaxPid
  BY <1>b DEF Numbers, Types
<1>e. Zombies' = Zombies /\ Used' = Used \cup {t} /\ Alive' = Alive \cup {t}
  BY <1>a, <1>b DEF Zombies, Used, Free, Alive, Types
<1>1. Types'
  <2>1. nextPid \in 0 .. MaxPid /\ pid[s] \in -1 .. MaxPid
        /\ nextPid + 1 \in 2 .. MaxPid + 1
    BY <1>d, ProcessesAssumption
  <2> QED BY <1>a, <1>b, <1>e, <2>1 DEF Types, PCs
<1>2. Numbers'
  BY <1>a, <1>b, <1>c, <1>d DEF Types, Numbers
<1>3. ParentAlive'
  <2>1. \A u \in Used : u # t /\ pid[u] \in 1 .. nextPid - 1 /\ pid'[u] = pid[u]
                        /\ ppid'[u] = ppid[u]
    BY <1>a, <1>b DEF Used, Free, Numbers, Types
  <2>2. pid'[t] = nextPid /\ ppid'[t] = pid[s] /\ s \in Alive
    BY <1>a, <1>b DEF Types, Alive, Used, Free, Zombies
  <2>3. ASSUME NEW u \in Used', NEW v \in Used', pid'[u] = pid'[v] PROVE u = v
    BY <1>d, <1>e, <2>1, <2>2, <2>3 DEF ParentAlive
  <2>4. \A u \in Alive : u \in Used
    BY DEF Alive
  <2>5. ASSUME NEW u \in Used', u # 1
        PROVE  \E v \in Alive' : pid'[v] = ppid'[u]
    <3>1. CASE u = t
      BY <1>e, <2>1, <2>2, <2>4, <3>1
    <3>2. CASE u # t
      BY <1>e, <2>1, <2>4, <2>5, <3>2 DEF ParentAlive
    <3> QED BY <3>1, <3>2
  <2> QED BY <2>3, <2>5 DEF ParentAlive
<1>4. Asleep'
  <2> SUFFICES ASSUME NEW u \in Slots, pc'[u] \in {"toSleep", "asleep"}
               PROVE  /\ Children(u)' # {}
                      /\ Children(u)' \cap Zombies' \subseteq
                           (IF u = 1 THEN adopted' ELSE {})
    BY DEF Asleep
  <2>1. u # t /\ pc[u] = pc'[u] /\ pid'[u] = pid[u]
    BY <1>a, <1>b DEF Types
  <2>2. Children(u) \subseteq Slots /\ t \notin Children(u)
    BY <1>a, <2>1 DEF Children, Numbers, Types
  <2>3. Children(u)' \subseteq Children(u) \cup {t}
        /\ Children(u) \subseteq Children(u)'
    BY <1>a, <1>b, <2>1, <2>2 DEF Children, Types
  <2>4. t \notin Zombies
    BY <1>a DEF Zombies
  <2> QED BY <1>b, <1>e, <2>1, <2>3, <2>4 DEF Asleep
<1> QED BY <1>1, <1>2, <1>3, <1>4

\* a process becomes a zombie
LEMMA TreeExitDone == ASSUME TreeInv, NEW s \in Slots, ExitDone(s) PROVE TreeInv'
<1> USE DEF TreeInv
<1>a. /\ pc[s] = "exit" /\ \A t \in Slots \ {s} : pc[t] # "toSleep"
      /\ addr' = [addr EXCEPT ![s] = blk[s]]
      /\ blk' = [blk EXCEPT ![s] = Image]
      /\ ppid' = [t \in Slots |-> IF t \in Children(s) THEN 1 ELSE ppid[t]]
      /\ adopted' = adopted \cup (Children(s) \cap Zombies)
      /\ UNCHANGED <<pid, sig, reaps, swap, nextPid>>
  BY DEF ExitDone, CanAct
<1>b. /\ pc' \in [Slots -> PCs] /\ pc'[s] = "zombie"
      /\ \A t \in Slots \ {s} :
           \/ pc'[t] = pc[t]
           \/ pc[t] = "asleep" /\ pc'[t] = "wait"
      /\ \A t \in Slots \ {s} : pid[t] = ppid[s] => pc'[t] # "asleep"
  BY DEF ExitDone, Woken, Types, PCs
<1>c. 1 \in Slots /\ s # 1
  BY <1>a, ProcessesAssumption DEF Slots, Numbers
<1>d. Zombies' = Zombies \cup {s} /\ Used' = Used /\ Alive' = Alive \ {s}
      /\ s \in Used /\ 1 \in Alive
  BY <1>a, <1>b, <1>c DEF Zombies, Used, Free, Alive, Numbers
<1>e. \A t \in Slots : t \in Children(s) =>
        t \in Used /\ pid[t] # 1 /\ pid[t] > 1 /\ t # s
  <2>1. pid[s] \in Nat /\ pid[s] >= 1
    BY <1>a DEF Numbers, Types
  <2> QED BY <2>1 DEF Children, Numbers, Used, Free, Types
<1>1. Types'
  <2>1. ppid' \in [Slots -> -1 .. MaxPid]
    BY <1>a, ProcessesAssumption DEF Types
  <2>2. adopted' \subseteq Zombies'
    BY <1>a, <1>d DEF Types
  <2> QED BY <1>a, <1>b, <2>1, <2>2 DEF Types
<1>2. Numbers'
  <2>1. pc'[1] \notin {"none", "exit", "zombie"} /\ pid'[1] = 1 /\ ppid'[1] = 0
    <3>1. 1 \notin Children(s)
      BY <1>c, <1>e DEF Numbers
    <3> QED BY <1>a, <1>b, <1>c, <3>1 DEF Numbers
  <2>2. ASSUME NEW t \in Slots
        PROVE IF pc'[t] = "none" THEN pid'[t] = 0 /\ ppid'[t] = -1
              ELSE pid'[t] \in 1 .. nextPid' - 1 /\ ppid'[t] < pid'[t]
    <3>1. pc'[t] = "none" <=> pc[t] = "none"
      BY <1>a, <1>b
    <3>2. CASE t \in Children(s)
      BY <1>a, <1>e, <3>1, <3>2 DEF Numbers, Types, Used, Free
    <3>3. CASE t \notin Children(s)
      BY <1>a, <3>1, <3>3 DEF Numbers
    <3> QED BY <3>2, <3>3
  <2> QED BY <2>1, <2>2 DEF Numbers
<1>3. ParentAlive'
  <2>1. ASSUME NEW u \in Used, u # 1
        PROVE  \E v \in Alive' : pid'[v] = ppid'[u]
    <3>1. CASE u \in Children(s)
      BY <1>a, <1>d, <1>c, <2>1, <3>1 DEF Numbers, Children
    <3>2. CASE u \notin Children(s)
      <4>1. PICK v \in Alive : pid[v] = ppid[u]
        BY <2>1 DEF ParentAlive
      <4>2. u \in Slots /\ v # s
        BY <3>2, <4>1, <2>1 DEF Children, Used
      <4> QED BY <1>a, <1>d, <3>2, <4>1, <4>2
    <3> QED BY <3>1, <3>2
  <2> QED BY <1>a, <1>d, <2>1 DEF ParentAlive
<1>4. Asleep'
  <2> SUFFICES ASSUME NEW u \in Slots, pc'[u] \in {"toSleep", "asleep"}
               PROVE  /\ Children(u)' # {}
                      /\ Children(u)' \cap Zombies' \subseteq
                           (IF u = 1 THEN adopted' ELSE {})
    BY DEF Asleep
  <2>1. u # s /\ pc[u] = "asleep" /\ pc'[u] = "asleep" /\ pid[u] # ppid[s]
    BY <1>a, <1>b
  <2>2. pid[u] # pid[s] /\ (pid[u] = 1 <=> u = 1)
    <3>1. u \in Used /\ s \in Used /\ 1 \in Used
      BY <1>c, <1>d, <2>1 DEF Used, Free, Alive
    <3> QED BY <2>1, <3>1 DEF ParentAlive, Numbers
  <2>3. s \notin Children(u)
    BY <2>1 DEF Children
  <2>4. Children(u)' = IF u = 1 THEN Children(u) \cup Children(s) ELSE Children(u)
    BY <1>a, <2>2 DEF Children, Types
  <2>5. s \notin Children(s)
    BY <1>e
  <2>6. /\ Children(u) # {}
        /\ Children(u) \cap Zombies \subseteq (IF u = 1 THEN adopted ELSE {})
    BY <2>1 DEF Asleep
  <2> QED BY <1>a, <1>d, <2>3, <2>4, <2>5, <2>6
<1> QED BY <1>1, <1>2, <1>3, <1>4

\* Wait takes a zombie out of the table
LEMMA TreeWaitFinds ==
  ASSUME TreeInv, NEW s \in Slots, WaitFinds(s)
  PROVE  TreeInv'
<1> USE DEF TreeInv
<1> DEFINE t == Min(Children(s) \cap Zombies)
<1>a. t \in Slots /\ pc[t] = "zombie" /\ ppid[t] = pid[s]
  <2>1. Children(s) \cap Zombies \subseteq Nat /\ Children(s) \cap Zombies # {}
    BY DEF WaitFinds, Zombies, Slots
  <2>2. t \in Children(s) \cap Zombies
    BY <2>1, MinIn
  <2> QED BY <2>2 DEF Children, Zombies
<1>b. /\ pc[s] \in {"user", "wait"} /\ \A u \in Slots \ {s} : pc[u] # "toSleep"
      /\ pc' = [pc EXCEPT ![s] = "reap", ![t] = "none"]
      /\ pid' = [pid EXCEPT ![t] = 0]
      /\ ppid' = [ppid EXCEPT ![t] = -1]
      /\ sig' = [sig EXCEPT ![t] = "no"]
      /\ reaps' = [reaps EXCEPT ![s] = t]
      /\ adopted' = adopted \ {t}
      /\ UNCHANGED <<addr, blk, swap, nextPid>>
  BY DEF WaitFinds, Waiting, CanAct
<1> HIDE DEF t
<1>c. 1 \in Slots /\ t # 1 /\ s # t
  BY <1>a, <1>b, ProcessesAssumption DEF Slots, Numbers
<1>d. /\ pc' \in [Slots -> PCs] /\ pc'[s] = "reap" /\ pc'[t] = "none"
      /\ \A u \in Slots \ {s, t} : pc'[u] = pc[u]
  BY <1>a, <1>b, <1>c DEF Types, PCs
<1>e. Zombies' = Zombies \ {t} /\ Used' = Used \ {t} /\ Alive' = Alive
      /\ t \in Used /\ t \notin Alive
  BY <1>a, <1>b, <1>d DEF Zombies, Used, Free, Alive
<1>1. Types'
  <2>1. t \in 0 .. NPROC /\ t # 0 /\ 0 \in 0 .. MaxPid /\ -1 \in -1 .. MaxPid
    BY <1>a, ProcessesAssumption DEF Slots
  <2>2. adopted' \subseteq Zombies'
    BY <1>b, <1>e DEF Types
  <2> QED BY <1>b, <1>d, <2>1, <2>2 DEF Types, Sigs
<1>2. Numbers'
  <2>1. pid'[t] = 0 /\ ppid'[t] = -1
    BY <1>a, <1>b DEF Types
  <2>2. \A u \in Slots \ {t} : pid'[u] = pid[u] /\ ppid'[u] = ppid[u]
    BY <1>b DEF Types
  <2>3. \A u \in Slots \ {t} : pc'[u] = "none" <=> pc[u] = "none"
    BY <1>b, <1>d
  <2>4. pc'[1] \notin {"none", "exit", "zombie"}
    BY <1>c, <1>d DEF Numbers
  <2> QED BY <1>b, <1>c, <1>d, <2>1, <2>2, <2>3, <2>4 DEF Numbers
<1>3. ParentAlive'
  <2>1. \A u \in Used' : u \in Used /\ pid'[u] = pid[u] /\ ppid'[u] = ppid[u]
    BY <1>b, <1>e DEF Used, Types
  <2>2. \A u \in Alive : pid'[u] = pid[u]
    BY <1>b, <1>e DEF Alive, Used, Types
  <2> QED BY <1>e, <2>1, <2>2 DEF ParentAlive
<1>4. Asleep'
  <2> SUFFICES ASSUME NEW u \in Slots, pc'[u] \in {"toSleep", "asleep"}
               PROVE  /\ Children(u)' # {}
                      /\ Children(u)' \cap Zombies' \subseteq
                           (IF u = 1 THEN adopted' ELSE {})
    BY DEF Asleep
  <2>1. u # s /\ u # t /\ pc[u] = pc'[u] /\ pid'[u] = pid[u]
    BY <1>b, <1>d DEF Types
  <2>2. pid[u] # pid[s] /\ pid[u] # -1
    <3>1. u \in Used /\ s \in Used
      BY <1>b, <2>1 DEF Used, Free
    <3> QED BY <2>1, <3>1 DEF ParentAlive, Types
  <2>3. t \notin Children(u) /\ Children(u)' = Children(u)
    BY <1>a, <1>b, <2>1, <2>2 DEF Children, Types
  <2>4. /\ Children(u) # {}
        /\ Children(u) \cap Zombies \subseteq (IF u = 1 THEN adopted ELSE {})
    BY <2>1 DEF Asleep
  <2> QED BY <1>b, <1>e, <2>3, <2>4
<1> QED BY <1>1, <1>2, <1>3, <1>4

\* the steps that leave the table as it is
LEMMA TreeOther ==
  ASSUME TreeInv, NEW s \in Slots, NEW t \in Slots,
         \/ Exit(s) \/ WaitDone(s) \/ WaitNone(s) \/ WaitSleeps(s)
         \/ WaitEnds(s) \/ Sleep(s) \/ Kill(s, t) \/ Interrupt
         \/ UNCHANGED vars
  PROVE  TreeInv'
<1> USE DEF TreeInv
<1>0. 1 \in Slots /\ pc[1] \notin {"none", "exit", "zombie"}
  BY ProcessesAssumption DEF Slots, Numbers
<1>a. ASSUME NEW l \in PCs \ {"none", "zombie"}, Goto(s, l),
             l = "exit" => s # 1, l # "reap",
             pc[s] \notin {"none", "zombie"}
      PROVE  /\ pc' \in [Slots -> PCs] /\ pc'[s] = l
             /\ \A u \in Slots \ {s} : pc'[u] = pc[u]
             /\ Zombies' = Zombies
             /\ pc'[1] # "exit"
             /\ \A u \in Slots : pc'[u] = "reap" => pc[u] = "reap" /\ u # s
  BY <1>0, <1>a DEF Goto, Types, Zombies
<1>1. CASE Exit(s)
  <2>1. /\ pc[s] = "user" /\ s # 1 /\ Goto(s, "exit")
        /\ sig' = [sig EXCEPT ![s] = "no"]
        /\ \E b \in swap : swap' = swap \ {b} /\ blk' = [blk EXCEPT ![s] = b]
        /\ UNCHANGED <<pid, ppid, addr, reaps, nextPid, adopted>>
    BY <1>1 DEF Exit
  <2>2. Types'
    BY <1>a, <2>1 DEF Types, Sigs, PCs
  <2> QED BY <1>a, <2>1, <2>2, TreeKept DEF PCs
<1>2. CASE WaitDone(s)
  <2>1. /\ pc[s] = "reap" /\ Goto(s, "user")
        /\ swap' = swap \cup {addr[reaps[s]]}
        /\ reaps' = [reaps EXCEPT ![s] = 0]
        /\ UNCHANGED <<pid, ppid, sig, addr, blk, nextPid, adopted>>
    BY <1>2 DEF WaitDone
  <2>2. reaps[s] \in Slots /\ 0 \in 0 .. NPROC
    BY <2>1, ProcessesAssumption DEF Types, Slots
  <2>3. Types'
    BY <1>a, <2>1, <2>2 DEF Types, PCs
  <2> QED BY <1>a, <2>1, <2>3, TreeKept DEF PCs
<1>3. CASE WaitNone(s) \/ WaitEnds(s)
  <2>1. /\ pc[s] \in {"user", "wait"} /\ Goto(s, "user")
        /\ UNCHANGED <<pid, ppid, sig, addr, blk, reaps, swap, nextPid, adopted>>
    BY <1>3 DEF WaitNone, Waiting, WaitEnds
  <2>2. Types'
    BY <1>a, <2>1 DEF Types, PCs
  <2> QED BY <1>a, <2>1, <2>2, TreeKept DEF PCs
<1>4. CASE WaitSleeps(s)
  <2>1. /\ pc[s] \in {"user", "wait"} /\ Goto(s, "toSleep")
        /\ Children(s) # {} /\ Children(s) \cap Zombies = {}
        /\ UNCHANGED <<pid, ppid, sig, addr, blk, reaps, swap, nextPid, adopted>>
    BY <1>4 DEF WaitSleeps, Waiting
  <2>2. Types'
    BY <1>a, <2>1 DEF Types, PCs
  <2> QED BY <1>a, <2>1, <2>2, TreeKept DEF PCs
<1>5. CASE Sleep(s)
  <2>1. /\ pc[s] = "toSleep" /\ Goto(s, "asleep")
        /\ UNCHANGED <<pid, ppid, sig, addr, blk, reaps, swap, nextPid, adopted>>
    BY <1>5 DEF Sleep
  <2>2. Types'
    BY <1>a, <2>1 DEF Types, PCs
  <2> QED BY <1>a, <2>1, <2>2, TreeKept DEF PCs
<1>6. ASSUME NEW S, NEW n \in Sigs, PSignal(S, n),
             UNCHANGED <<pid, ppid, addr, blk, reaps, swap, nextPid, adopted>>
      PROVE  TreeInv'
  <2>1. /\ pc' \in [Slots -> PCs] /\ sig' \in [Slots -> Sigs]
        /\ \A u \in Slots : \/ pc'[u] = pc[u]
                            \/ pc[u] = "asleep" /\ pc'[u] = "wait"
    BY <1>6 DEF PSignal, Woken, Types, PCs
  <2>2. Zombies' = Zombies
    BY <2>1 DEF Zombies
  <2>3. Types'
    BY <1>6, <2>1, <2>2 DEF Types
  <2> QED BY <1>0, <1>6, <2>1, <2>3, TreeKept
<1>7. CASE Kill(s, t)
  BY <1>6, <1>7 DEF Kill, Sigs
<1>8. CASE Interrupt
  BY <1>6, <1>8 DEF Interrupt, Sigs
<1>9. CASE UNCHANGED vars
  <2>1. UNCHANGED <<pc, pid, ppid, sig, addr, blk, reaps, swap, nextPid, adopted>>
    BY <1>9 DEF vars
  <2>2. Types'
    BY <2>1 DEF Types, Zombies
  <2> QED BY <1>0, <2>1, <2>2, TreeKept
<1> QED BY <1>1, <1>2, <1>3, <1>4, <1>5, <1>7, <1>8, <1>9

\* Every step preserves the tree.
LEMMA TreeNext == ASSUME TreeInv, [Next]_vars PROVE TreeInv'
<1>1. \E s \in Slots : TRUE
  BY ProcessesAssumption DEF Slots
<1> QED BY <1>1, TreeFork, TreeExitDone, TreeWaitFinds, TreeOther DEF Next

LEMMA TreeAlways == Spec => []TreeInv
BY TreeInit, TreeNext, PTL DEF Spec

----------------------------------------------------------------------------
(* Theorems about the tree *)

\* Whatever exits and is waited for in which order, and with ctrl-c at any
\* time: process numbers are unique and every process has a living parent.
THEOREM TreeOfProcesses == Spec => []ParentAlive
<1>1. TreeInv => ParentAlive
  BY DEF TreeInv
<1> QED BY <1>1, TreeAlways, PTL

\* No parent sleeps in Wait over a dead child that Exit has told it of.
THEOREM ChildIsNotLost == Spec => []NoLostChild
<1>1. TreeInv => NoLostChild
  BY DEF TreeInv, Asleep, NoLostChild
<1> QED BY <1>1, TreeAlways, PTL

----------------------------------------------------------------------------
(* The inductive invariant of the swap area *)

\* Every dead process has a block, and the slot that Wait has given back and
\* whose block it is reading is not used again.
Blocked ==
  /\ \A s \in Slots : pc[s] = "zombie" => addr[s] \in Blocks
  /\ \A s \in Slots : pc[s] = "exit" => blk[s] \in Blocks
  /\ \A s \in Slots : pc[s] = "reap" =>
       /\ reaps[s] \in Slots
       /\ pc[reaps[s]] = "none" /\ addr[reaps[s]] \in Blocks
  /\ \A b \in Blocks : IF b \in swap THEN Owners(b) = {}
                       ELSE \E s \in Slots : Owners(b) = {s}
  /\ swap \subseteq Blocks

SwapInv == TreeInv /\ Blocked

\* nobody has died yet
LEMMA SwapInit == ASSUME Init PROVE SwapInv
<1>1. \A s \in Slots : pc[s] \in {"user", "none"}
  BY DEF Init
<1>2. \A b \in Blocks : Owners(b) = {}
  BY <1>1 DEF Owners, Zombies
<1>3. swap = Blocks
  BY DEF Init
<1> QED BY TreeInit, <1>1, <1>2, <1>3 DEF SwapInv, Blocked

\* A step that changes no owner and no free block.
LEMMA SwapKept ==
  ASSUME SwapInv, UNCHANGED <<addr, blk, reaps, swap>>,
         \A s \in Slots : \A l \in {"zombie", "exit", "reap", "none"} :
           (pc'[s] = l) <=> (pc[s] = l)
  PROVE  Blocked'
<1> USE DEF SwapInv, Blocked
<1>1. Zombies' = Zombies
  BY DEF Zombies
<1>2. \A b \in Blocks : Owners(b)' = Owners(b)
  BY <1>1 DEF Owners
<1> QED BY <1>2

\* a child takes a free slot whose old block nobody is reading
LEMMA SwapFork ==
  ASSUME SwapInv, ~ Overlap, NEW s \in Slots, Fork(s)
  PROVE  Blocked'
<1> USE DEF SwapInv, TreeInv
<1> DEFINE t == Min(Free)
<1>a. t \in Slots /\ pc[t] = "none"
  <2>1. Free \subseteq Nat /\ Free # {}
    BY DEF Free, Slots, Fork
  <2> QED BY <2>1, MinIn DEF Free
<1>b. /\ \A r \in Slots : pc[r] # "reap"
      /\ pc' = [pc EXCEPT ![t] = "user"]
      /\ addr' = [addr EXCEPT ![t] = Image]
      /\ UNCHANGED <<sig, blk, reaps, swap, adopted>>
  BY DEF Fork
<1> HIDE DEF t
<1>1. /\ \A u \in Slots : pc'[u] # "reap"
      /\ \A u \in Slots : pc'[u] = "zombie" <=> pc[u] = "zombie"
      /\ \A u \in Slots : pc'[u] = "exit" <=> pc[u] = "exit"
      /\ \A u \in Slots : pc[u] = "zombie" => addr'[u] = addr[u]
  BY <1>a, <1>b DEF Types
<1>2. Zombies' = Zombies
  BY <1>1 DEF Zombies
<1>3. \A b \in Blocks : Owners(b)' = Owners(b)
  BY <1>1, <1>2, <1>b DEF Owners, Zombies
<1> QED BY <1>b, <1>1, <1>3 DEF Blocked

\* a process that exits takes a block
LEMMA SwapExit ==
  ASSUME SwapInv, NEW s \in Slots, Exit(s)
  PROVE  Blocked'
<1> USE DEF SwapInv, TreeInv
<1>a. PICK b \in swap :
        /\ swap' = swap \ {b} /\ blk' = [blk EXCEPT ![s] = b]
        /\ pc[s] = "user" /\ pc' = [pc EXCEPT ![s] = "exit"]
        /\ UNCHANGED <<addr, reaps>>
  BY DEF Exit, Goto
<1>b. b \in Blocks /\ blk'[s] = b /\ \A u \in Slots \ {s} : blk'[u] = blk[u]
  BY <1>a DEF Blocked, Types
<1>c. pc'[s] = "exit" /\ \A u \in Slots \ {s} : pc'[u] = pc[u]
  BY <1>a DEF Types
<1>1. Zombies' = Zombies
  BY <1>a, <1>c DEF Zombies
<1>2. ASSUME NEW c \in Blocks
      PROVE  Owners(c)' = IF c = b THEN Owners(c) \cup {s} ELSE Owners(c)
  <2>1. \A u \in Slots : (pc'[u] = "exit" /\ blk'[u] = c) <=>
                           ((pc[u] = "exit" /\ blk[u] = c) \/ (u = s /\ c = b))
    BY <1>a, <1>b, <1>c
  <2>2. \A u \in Slots : (pc'[u] = "reap" <=> pc[u] = "reap")
    BY <1>a, <1>c
  <2>3. addr' = addr /\ reaps' = reaps
    BY <1>a
  <2>4. \A u : u \in Owners(c)' <=> u \in Owners(c) \/ (u = s /\ c = b)
    BY <1>1, <2>1, <2>2, <2>3 DEF Owners
  <2> QED BY <2>4
<1>3. \A c \in Blocks : IF c \in swap' THEN Owners(c)' = {}
                        ELSE \E u \in Slots : Owners(c)' = {u}
  BY <1>a, <1>b, <1>2 DEF Blocked
<1>4. ASSUME NEW u \in Slots, pc'[u] = "reap"
      PROVE  reaps'[u] \in Slots /\ pc'[reaps'[u]] = "none"
             /\ addr'[reaps'[u]] \in Blocks
  BY <1>a, <1>c, <1>4 DEF Blocked
<1> QED BY <1>a, <1>b, <1>c, <1>3, <1>4 DEF Blocked

\* a zombie keeps the block that Exit took
LEMMA SwapExitDone ==
  ASSUME SwapInv, NEW s \in Slots, ExitDone(s)
  PROVE  Blocked'
<1> USE DEF SwapInv, TreeInv
<1>a. /\ pc[s] = "exit" /\ swap' = swap /\ reaps' = reaps
      /\ addr' = [addr EXCEPT ![s] = blk[s]]
      /\ blk' = [blk EXCEPT ![s] = Image]
  BY DEF ExitDone
<1>b. /\ pc'[s] = "zombie"
      /\ \A u \in Slots \ {s} : \A l \in {"zombie", "exit", "reap", "none"} :
           (pc'[u] = l) <=> (pc[u] = l)
  BY DEF ExitDone, Woken, Types, PCs
<1>c. /\ addr'[s] = blk[s] /\ blk[s] \in Blocks
      /\ \A u \in Slots \ {s} : addr'[u] = addr[u] /\ blk'[u] = blk[u]
  BY <1>a DEF Types, Blocked
<1>d. \A u \in Slots : pc[u] = "reap" => u # s /\ reaps[u] \in Slots /\ reaps[u] # s
  BY <1>a DEF Blocked
<1>1. ASSUME NEW c \in Blocks PROVE Owners(c)' = Owners(c)
  <2>1. \A u : u \in Owners(c)' <=> u \in Owners(c)
    BY <1>a, <1>b, <1>c, <1>d DEF Owners, Zombies
  <2> QED BY <2>1
<1>2. ASSUME NEW u \in Slots, pc'[u] = "reap"
      PROVE  reaps'[u] \in Slots /\ pc'[reaps'[u]] = "none"
             /\ addr'[reaps'[u]] \in Blocks
  BY <1>a, <1>b, <1>c, <1>d, <1>2 DEF Blocked
<1> QED BY <1>a, <1>b, <1>c, <1>1, <1>2 DEF Blocked

\* Wait gives the slot of a zombie back before it reads the block
LEMMA SwapWaitFinds ==
  ASSUME SwapInv, NEW s \in Slots, WaitFinds(s)
  PROVE  Blocked'
<1> USE DEF SwapInv, TreeInv
<1> DEFINE t == Min(Children(s) \cap Zombies)
<1>a. t \in Slots /\ pc[t] = "zombie"
  <2>1. Children(s) \cap Zombies \subseteq Nat /\ Children(s) \cap Zombies # {}
    BY DEF WaitFinds, Zombies, Slots
  <2>2. t \in Children(s) \cap Zombies
    BY <2>1, MinIn
  <2> QED BY <2>2 DEF Zombies
<1>b. /\ pc[s] \in {"user", "wait"}
      /\ pc' = [pc EXCEPT ![s] = "reap", ![t] = "none"]
      /\ reaps' = [reaps EXCEPT ![s] = t]
      /\ UNCHANGED <<addr, blk, swap>>
  BY DEF WaitFinds, Waiting
<1> HIDE DEF t
<1>c. /\ s # t /\ pc'[s] = "reap" /\ pc'[t] = "none" /\ reaps'[s] = t
      /\ \A u \in Slots \ {s, t} : pc'[u] = pc[u]
      /\ \A u \in Slots \ {s} : reaps'[u] = reaps[u]
  BY <1>a, <1>b DEF Types
<1>d. PICK b \in Blocks : b = addr[t]
  BY <1>a DEF Blocked
<1>e. \A u \in Slots : pc[u] = "reap" => u # s /\ u # t /\ reaps[u] # t
  BY <1>a, <1>b DEF Blocked
<1>1. ASSUME NEW c \in Blocks
      PROVE  Owners(c)' = IF c = b THEN (Owners(c) \ {t}) \cup {s}
                          ELSE Owners(c)
  <2>1. s \notin Owners(c) /\ (t \in Owners(c) <=> c = b)
    BY <1>a, <1>b, <1>d DEF Owners, Zombies
  <2>2. \A u : u \in Owners(c)' <=>
                 IF c = b THEN u \in (Owners(c) \ {t}) \cup {s}
                 ELSE u \in Owners(c)
    BY <1>a, <1>b, <1>c, <1>d, <1>e, <2>1, ZenonT(40) DEF Owners, Zombies
  <2> QED BY <2>2
<1>2. t \in Owners(b)
  BY <1>a, <1>d DEF Owners, Zombies
<1>3. \A c \in Blocks : IF c \in swap' THEN Owners(c)' = {}
                        ELSE \E u \in Slots : Owners(c)' = {u}
  <2>1. b \notin swap /\ Owners(b) = {t}
    BY <1>d, <1>2 DEF Blocked
  <2>2. Owners(b)' = {s}
    BY <1>1, <2>1
  <2> QED BY <1>b, <1>1, <2>1, <2>2 DEF Blocked
<1>4. ASSUME NEW u \in Slots, pc'[u] = "reap"
      PROVE  reaps'[u] \in Slots /\ pc'[reaps'[u]] = "none"
             /\ addr'[reaps'[u]] \in Blocks
  <2>1. CASE u = s
    BY <1>a, <1>b, <1>c, <1>d, <2>1
  <2>2. CASE u # s
    BY <1>a, <1>b, <1>c, <1>4, <2>2, ZenonT(40) DEF Blocked
  <2> QED BY <2>1, <2>2
<1> QED BY <1>b, <1>c, <1>3, <1>4 DEF Blocked

\* the block is read and given back
LEMMA SwapWaitDone ==
  ASSUME SwapInv, NEW s \in Slots, WaitDone(s)
  PROVE  Blocked'
<1> USE DEF SwapInv, TreeInv
<1>e. PICK b \in Blocks : b = addr[reaps[s]]
  BY DEF Blocked, WaitDone
<1>a. /\ pc[s] = "reap" /\ pc' = [pc EXCEPT ![s] = "user"]
      /\ swap' = swap \cup {b} /\ reaps' = [reaps EXCEPT ![s] = 0]
      /\ UNCHANGED <<addr, blk>>
  BY <1>e DEF WaitDone, Goto
<1>b. reaps[s] \in Slots /\ s \in Owners(b)
  BY <1>a, <1>e DEF Blocked, Owners
<1>c. /\ pc'[s] = "user" /\ \A u \in Slots \ {s} : pc'[u] = pc[u]
      /\ \A u \in Slots \ {s} : reaps'[u] = reaps[u]
  BY <1>a DEF Types
<1>1. ASSUME NEW c \in Blocks PROVE Owners(c)' = Owners(c) \ {s}
  <2>1. \A u : u \in Owners(c)' <=> u \in Owners(c) /\ u # s
    BY <1>a, <1>c DEF Owners, Zombies
  <2> QED BY <2>1
<1>d. s \in Owners(b) /\ \A c \in Blocks : c # b => s \notin Owners(c)
  BY <1>a, <1>b, <1>e DEF Owners, Zombies
<1>2. Owners(b)' = {}
  <2>1. Owners(b) = {s}
    BY <1>b, <1>d DEF Blocked
  <2> QED BY <1>1, <1>b, <2>1
<1>3. \A c \in Blocks : IF c \in swap' THEN Owners(c)' = {}
                        ELSE \E u \in Slots : Owners(c)' = {u}
  <2>1. \A c \in Blocks : c # b => Owners(c)' = Owners(c)
    BY <1>1, <1>d
  <2> QED BY <1>a, <1>2, <2>1 DEF Blocked
<1>4. ASSUME NEW u \in Slots, pc'[u] = "reap"
      PROVE  reaps'[u] \in Slots /\ pc'[reaps'[u]] = "none"
             /\ addr'[reaps'[u]] \in Blocks
  BY <1>a, <1>c, <1>4 DEF Blocked
<1> QED BY <1>a, <1>b, <1>c, <1>3, <1>4 DEF Blocked

\* the steps that have nothing to do with blocks
LEMMA SwapOther ==
  ASSUME SwapInv, NEW s \in Slots, NEW t \in Slots,
         \/ WaitNone(s) \/ WaitSleeps(s) \/ WaitEnds(s) \/ Sleep(s)
         \/ Kill(s, t) \/ Interrupt \/ UNCHANGED vars
  PROVE  Blocked'
<1> USE DEF SwapInv, TreeInv
<1>a. ASSUME NEW l \in {"user", "toSleep", "asleep"}, Goto(s, l),
             pc[s] \in {"user", "wait", "toSleep"}
      PROVE  \A u \in Slots : \A m \in {"zombie", "exit", "reap", "none"} :
               (pc'[u] = m) <=> (pc[u] = m)
  BY <1>a DEF Goto, Types
<1>1. CASE WaitNone(s) \/ WaitEnds(s)
  BY <1>1, <1>a, SwapKept DEF WaitNone, WaitEnds, Waiting
<1>2. CASE WaitSleeps(s)
  BY <1>2, <1>a, SwapKept DEF WaitSleeps, Waiting
<1>3. CASE Sleep(s)
  BY <1>3, <1>a, SwapKept DEF Sleep
<1>4. CASE Kill(s, t) \/ Interrupt
  <2>1. UNCHANGED <<addr, blk, reaps, swap>> /\ \E S : pc' = Woken(S)
    BY <1>4 DEF Kill, Interrupt, PSignal
  <2>2. \A u \in Slots : \A m \in {"zombie", "exit", "reap", "none"} :
          (pc'[u] = m) <=> (pc[u] = m)
    BY <2>1 DEF Woken, Types
  <2> QED BY <2>1, <2>2, SwapKept
<1>5. CASE UNCHANGED vars
  BY <1>5, SwapKept DEF vars
<1> QED BY <1>1, <1>2, <1>3, <1>4, <1>5

\* Every step keeps the blocks where they belong.
LEMMA SwapNext == ASSUME SwapInv, ~ Overlap, [Next]_vars PROVE SwapInv'
<1>1. \E s \in Slots : TRUE
  BY ProcessesAssumption DEF Slots
<1>2. TreeInv'
  BY TreeNext DEF SwapInv
<1>3. Blocked'
  BY <1>1, SwapFork, SwapExit, SwapExitDone, SwapWaitFinds, SwapWaitDone, SwapOther
  DEF Next
<1> QED BY <1>2, <1>3 DEF SwapInv

LEMMA SwapAlways == ASSUME ~ Overlap PROVE Spec => []SwapInv
<1>1. SwapInv /\ [Next]_vars => SwapInv'
  BY SwapNext
<1> QED BY <1>1, SwapInit, PTL DEF Spec

----------------------------------------------------------------------------
(* Theorems about the swap area and signals *)

\* Type correctness, if no process forks while another one reads a block in
\* Wait.
THEOREM TypeCorrect == ASSUME ~ Overlap PROVE Spec => []TypeOK
<1>1. SwapInv => TypeOK
  BY DEF SwapInv, TreeInv, Types, Blocked, TypeOK
<1> QED BY <1>1, SwapAlways, PTL

\* Under the same condition every block that Exit takes belongs to one dead
\* process until Wait gives it back.
THEOREM SwapAreaIsExact == ASSUME ~ Overlap PROVE Spec => []SwapExact
<1>1. SwapInv => SwapExact
  <2> SUFFICES ASSUME SwapInv PROVE SwapExact
    OBVIOUS
  <2>1. ASSUME NEW b \in Blocks
        PROVE  Cardinality(Owners(b)) = (IF b \in swap THEN 0 ELSE 1)
    <3>1. CASE b \in swap
      BY <3>1, FS_EmptySet DEF SwapInv, Blocked
    <3>2. CASE b \notin swap
      <4>1. PICK s \in Slots : Owners(b) = {s}
        BY <3>2 DEF SwapInv, Blocked
      <4> QED BY <3>2, <4>1, FS_Singleton
    <3> QED BY <3>1, <3>2
  <2> QED BY <2>1 DEF SwapInv, Blocked, SwapExact
<1> QED BY <1>1, SwapAlways, PTL

\* who sleeps in Wait, or is about to, has no signal
SigInv == /\ Types
          /\ \A s \in Slots : pc[s] \in {"toSleep", "asleep"} => sig[s] = "no"

LEMMA SigNext ==
  ASSUME SigInv, Types', ~ Ctrlc, [Next]_vars
  PROVE  \A s \in Slots : pc'[s] \in {"toSleep", "asleep"} => sig'[s] = "no"
<1> SUFFICES ASSUME NEW s \in Slots, pc'[s] \in {"toSleep", "asleep"}
             PROVE  sig'[s] = "no"
  OBVIOUS
<1> USE DEF SigInv, Types
<1>1. ASSUME NEW t \in Slots, Fork(t) PROVE sig'[s] = "no"
  BY <1>1 DEF Fork
<1>2. ASSUME NEW t \in Slots, Exit(t) PROVE sig'[s] = "no"
  BY <1>2 DEF Exit, Goto
<1>3. ASSUME NEW t \in Slots, ExitDone(t) PROVE sig'[s] = "no"
  BY <1>3 DEF ExitDone, Woken
<1>4. ASSUME NEW t \in Slots, WaitFinds(t) PROVE sig'[s] = "no"
  BY <1>4 DEF WaitFinds
<1>5. ASSUME NEW t \in Slots, WaitDone(t) \/ WaitNone(t) \/ WaitEnds(t) \/ Sleep(t)
      PROVE  sig'[s] = "no"
  BY <1>5 DEF WaitDone, WaitNone, WaitEnds, Sleep, Goto
<1>6. ASSUME NEW t \in Slots, WaitSleeps(t) PROVE sig'[s] = "no"
  BY <1>6 DEF WaitSleeps, Waiting, Goto
<1>7. ASSUME NEW t \in Slots, NEW u \in Slots, Kill(t, u) PROVE sig'[s] = "no"
  <2>1. /\ PSignal({u}, "kill") /\ pc[t] = "user"
        /\ \A v \in Slots \ {t} : pc[v] # "toSleep"
    BY <1>7 DEF Kill, CanAct
  <2>2. pc[s] = "asleep" /\ s # u
    BY <2>1 DEF PSignal, Woken
  <2> QED BY <2>1, <2>2 DEF PSignal
<1>8. CASE UNCHANGED vars
  BY <1>8 DEF vars
<1> QED BY <1>1, <1>2, <1>3, <1>4, <1>5, <1>6, <1>7, <1>8 DEF Next, Interrupt

\* Without ctrl-c no process sleeps in Wait with a signal: it is only the
\* keyboard interrupt that can come in between Sleep's look at p_sig and the
\* moment interrupts are shut out; kill wakes who sleeps.
THEOREM OnlyCtrlcIsLost == ASSUME ~ Ctrlc PROVE Spec => []NoLostSignal
<1>1. Init /\ TreeInv => SigInv
  BY DEF Init, SigInv, TreeInv
<1>2. SigInv /\ TreeInv' /\ [Next]_vars => SigInv'
  BY SigNext DEF SigInv, TreeInv
<1>3. SigInv => NoLostSignal
  BY DEF SigInv, NoLostSignal
<1> QED BY <1>1, <1>2, <1>3, TreeAlways, PTL DEF Spec
=============================================================================
