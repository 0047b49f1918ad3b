------------------------------- MODULE Pipe -------------------------------
(***************************************************************************)
(* One pipe: FileManager::ReadP and WriteP (fs/FileManager.cpp), the lock  *)
(* Inode::Plock and Prele (fs/INode.cpp) and OpenFileTable::CloseF with    *)
(* InodeTable::IPut (fs/OpenFileManager.cpp).  Readers share the File of   *)
(* the read end, writers that of the write end, as after fork.             *)
(*                                                                         *)
(* A pipe is a file of at most PIPSIZ bytes that is written from offset 0  *)
(* on; when a reader has read all of it, it starts at 0 again.  An action  *)
(* runs from one sleep to the next: in Plock, on an empty or a full pipe,  *)
(* and in the transfers of ReadI and WriteI, which hold the lock.  The     *)
(* priority PPIPE lets a signal end the first three.                       *)
(***************************************************************************)
EXTENDS Naturals, Sequences, FiniteSets

CONSTANTS
  Reader,    \* processes with the read end
  Writer,    \* processes with the write end
  PIPSIZ,    \* bytes of the file (3072 in Inode)
  MaxCount,  \* bound: bytes of one call of write
  MaxBytes,  \* bound: bytes of all calls of write
  Closes,    \* do processes close their ends?
  Signals    \* do signals arrive?

Proc == Reader \cup Writer

ASSUME ConstantsAssumption ==
  /\ PIPSIZ \in Nat \ {0} /\ MaxCount \in Nat \ {0} /\ MaxBytes \in Nat
  /\ Closes \in BOOLEAN /\ Signals \in BOOLEAN
  /\ Reader \cap Writer = {}

VARIABLES
  file,    \* the bytes of the file: i_size is its length
  off,     \* f_offset of the read end
  lock,    \* ILOCK
  want,    \* IWANT
  iread,   \* IREAD in i_mode: a reader waits for bytes
  iwrite,  \* IWRITE in i_mode: a writer waits for room
  count,   \* i_count
  open,    \* the processes that have their end open: f_count of both Files
  pc,      \* where each process is
  left,    \* count of WriteP
  from,    \* m_Offset: where the transfer of a process starts
  sent,    \* history: number of bytes written; the n-th byte is n
  got,     \* history: the bytes that reads returned, in this order
  asked    \* the bytes of the calls of write so far, for the bound

ioVars  == <<file, off, sent, got>>
locVars == <<left, from, asked>>
vars    == <<ioVars, lock, want, iread, iwrite, count, open, pc, locVars>>

PCs  == {"user", "lockSleep", "plock", "sleep", "io"}
Size == Len(file)

Min(a, b) == IF a <= b THEN a ELSE b

\* the bytes of s from offset a up to offset b
Bytes(s, a, b) == [i \in 1 .. b - a |-> s[a + i]]

----------------------------------------------------------------------------
(* Sleeping *)

\* pc when p goes on at l and the processes W are woken from place a
Woken(p, l, a, W) ==
  [q \in Proc |-> IF q = p THEN l
                  ELSE IF q \in W /\ pc[q] = a THEN "plock" ELSE pc[q]]

Goto(p, l) == pc' = [pc EXCEPT ![p] = l]

\* a process enters ReadP or WriteP, or tries again after a sleep
Entering(p) == pc[p] \in {"user", "plock"} /\ p \in open

\* Plock on a locked pipe
PlockSleep(p) ==
  /\ lock
  /\ want' = TRUE
  /\ Goto(p, "lockSleep")
  /\ UNCHANGED <<ioVars, lock, iread, iwrite, count, open>>

\* a signal ends a sleep; the call returns through aRetU
Signal(p) ==
  /\ Signals
  /\ pc[p] \in {"lockSleep", "sleep", "plock"}
  /\ Goto(p, "user")
  /\ UNCHANGED <<ioVars, lock, want, iread, iwrite, count, open, locVars>>

----------------------------------------------------------------------------
(* FileManager::ReadP *)

ReadPLocked(p) == Entering(p) /\ PlockSleep(p) /\ UNCHANGED locVars

\* Nothing to read.  A reader that has read all bytes makes room and wakes
\* the writers; it returns 0 if an end is closed, and sleeps otherwise.
ReadPEmpty(p) ==
  /\ Entering(p) /\ ~ lock
  /\ off = Size
  /\ off' = 0 /\ file' = << >>
  /\ iwrite' = IF off # 0 THEN FALSE ELSE iwrite
  /\ iread' = (iread \/ count >= 2)
  /\ pc' = Woken(p, IF count < 2 THEN "user" ELSE "sleep", "sleep",
                 IF off # 0 /\ iwrite THEN Writer ELSE {})
  /\ UNCHANGED <<lock, want, count, open, locVars, sent, got>>

\* mutant: m_Offset is not taken from f_offset
ReadPStartRewound(p) ==
  /\ Entering(p) /\ ~ lock
  /\ off # Size
  /\ lock' = TRUE
  /\ from' = [from EXCEPT ![p] = 0]
  /\ Goto(p, "io")
  /\ UNCHANGED <<ioVars, want, iread, iwrite, count, open, left, asked>>

\* lock the pipe and read
ReadPStart(p) ==
  /\ Entering(p) /\ ~ lock
  /\ off # Size
  /\ lock' = TRUE
  /\ from' = [from EXCEPT ![p] = off]
  /\ Goto(p, "io")
  /\ UNCHANGED <<ioVars, want, iread, iwrite, count, open, left, asked>>

\* ReadI is back with n bytes (reads of 0 bytes are left out): move the offset, unlock
ReadPDone(p) ==
  /\ pc[p] = "io"
  /\ \E n \in 1 .. Size - from[p] :
       /\ got' = got \o Bytes(file, from[p], from[p] + n)
       /\ off' = from[p] + n
  /\ lock' = FALSE /\ want' = FALSE
  /\ pc' = Woken(p, "user", "lockSleep", IF want THEN Proc ELSE {})
  /\ UNCHANGED <<file, sent, iread, iwrite, count, open, locVars>>

----------------------------------------------------------------------------
(* FileManager::WriteP *)

\* the counts a process may have to write: one of its choice in a new call
Counts(p) == IF pc[p] = "user"
             THEN {c \in 1 .. MaxCount : asked + c <= MaxBytes}
             ELSE {left[p]}

\* p has c bytes to write
ToWrite(p, c) == /\ left' = [left EXCEPT ![p] = c]
                 /\ asked' = IF pc[p] = "user" THEN asked + c ELSE asked

WritePLocked(p) ==
  /\ Entering(p) /\ PlockSleep(p)
  /\ \E c \in Counts(p) : ToWrite(p, c)
  /\ UNCHANGED from

\* all bytes are written
WritePEnd(p) ==
  /\ Entering(p) /\ ~ lock
  /\ 0 \in Counts(p)
  /\ Goto(p, "user")
  /\ UNCHANGED <<ioVars, lock, want, iread, iwrite, count, open, locVars>>

\* the other end is closed: EPIPE and SIGPIPE
WritePBroken(p) ==
  /\ Entering(p) /\ ~ lock
  /\ count < 2
  /\ \E c \in Counts(p) \ {0} : ToWrite(p, c)
  /\ Goto(p, "user")
  /\ UNCHANGED <<ioVars, lock, want, iread, iwrite, count, open, from>>

\* no room
WritePFull(p) ==
  /\ Entering(p) /\ ~ lock
  /\ count >= 2 /\ Size = PIPSIZ
  /\ \E c \in Counts(p) \ {0} : ToWrite(p, c)
  /\ iwrite' = TRUE
  /\ Goto(p, "sleep")
  /\ UNCHANGED <<ioVars, lock, want, iread, count, open, from>>

\* lock the pipe and write what there is room for
WritePStart(p) ==
  /\ Entering(p) /\ ~ lock
  /\ count >= 2 /\ Size # PIPSIZ
  /\ \E c \in Counts(p) \ {0} : ToWrite(p, c)
  /\ from' = [from EXCEPT ![p] = Size]
  /\ lock' = TRUE
  /\ Goto(p, "io")
  /\ UNCHANGED <<ioVars, want, iread, iwrite, count, open>>

\* as many bytes as there is room for
Writes(p) == Min(left[p], PIPSIZ - from[p])

\* mutant: readers are woken only when all bytes are written
WritePDoneLate(p) ==
  LET n == Writes(p) IN
  /\ pc[p] = "io"
  /\ file' = Bytes(file, 0, from[p]) \o [i \in 1 .. n |-> sent + i]
  /\ sent' = sent + n
  /\ left' = [left EXCEPT ![p] = @ - n]
  /\ lock' = FALSE /\ want' = FALSE
  /\ iread' = (iread /\ n # left[p])
  /\ pc' = [q \in Proc |->
              IF \/ q = p
                 \/ want /\ pc[q] = "lockSleep"
                 \/ iread /\ n = left[p] /\ q \in Reader /\ pc[q] = "sleep"
              THEN "plock" ELSE pc[q]]
  /\ UNCHANGED <<off, got, iwrite, count, open, from, asked>>

\* WriteI is back: unlock, wake the readers, and look again
WritePDone(p) ==
  LET n == Writes(p) IN
  /\ pc[p] = "io"
  /\ file' = Bytes(file, 0, from[p]) \o [i \in 1 .. n |-> sent + i]
  /\ sent' = sent + n
  /\ left' = [left EXCEPT ![p] = @ - n]
  /\ lock' = FALSE /\ want' = FALSE
  /\ iread' = FALSE
  /\ pc' = [q \in Proc |->
              IF \/ q = p
                 \/ want /\ pc[q] = "lockSleep"
                 \/ iread /\ q \in Reader /\ pc[q] = "sleep"
              THEN "plock" ELSE pc[q]]
  /\ UNCHANGED <<off, got, iwrite, count, open, from, asked>>

----------------------------------------------------------------------------
(* OpenFileTable::CloseF *)

End(p) == IF p \in Reader THEN Reader ELSE Writer

\* mutant: those who sleep on an empty or a full pipe are not woken
CloseSilent(p) ==
  LET last == open \cap End(p) = {p} IN
  /\ Closes
  /\ pc[p] = "user" /\ p \in open
  /\ open' = open \ {p}
  /\ count' = IF last THEN count - 1 ELSE count
  /\ lock' = (lock /\ ~ last)
  /\ want' = (want /\ ~ last)
  /\ pc' = [q \in Proc |->
              IF last /\ want /\ pc[q] = "lockSleep" THEN "plock" ELSE pc[q]]
  /\ UNCHANGED <<ioVars, iread, iwrite, locVars>>

\* Wake the sleepers of both kinds.  The last process of an end puts the
\* inode, and with it unlocks the pipe.
Close(p) ==
  LET last == open \cap End(p) = {p} IN
  /\ Closes
  /\ pc[p] = "user" /\ p \in open
  /\ open' = open \ {p}
  /\ iread' = FALSE /\ iwrite' = FALSE
  /\ count' = IF last THEN count - 1 ELSE count
  /\ lock' = (lock /\ ~ last)
  /\ want' = (want /\ ~ last)
  /\ pc' = [q \in Proc |->
              IF \/ q # p /\ pc[q] = "sleep"
                 \/ last /\ want /\ pc[q] = "lockSleep"
              THEN "plock" ELSE pc[q]]
  /\ UNCHANGED <<ioVars, locVars>>

----------------------------------------------------------------------------
\* after FileManager::Pipe and the forks
Init ==
  /\ file = << >> /\ off = 0
  /\ lock = FALSE /\ want = FALSE /\ iread = FALSE /\ iwrite = FALSE
  /\ count = 2
  /\ open = Proc
  /\ pc = [p \in Proc |-> "user"]
  /\ left = [p \in Proc |-> 0]
  /\ from = [p \in Proc |-> 0]
  /\ sent = 0 /\ got = << >> /\ asked = 0

ReadP(p) == ReadPLocked(p) \/ ReadPEmpty(p) \/ ReadPStart(p) \/ ReadPDone(p)

WriteP(p) == \/ WritePLocked(p) \/ WritePEnd(p) \/ WritePBroken(p)
             \/ WritePFull(p) \/ WritePStart(p) \/ WritePDone(p)

Next == \/ \E p \in Reader : ReadP(p)
        \/ \E p \in Writer : WriteP(p)
        \/ \E p \in Proc : Close(p) \/ Signal(p)

Spec == Init /\ [][Next]_vars

\* Readers go on reading, and calls go on.
FairSpec == /\ Spec
            /\ \A p \in Reader : WF_vars(ReadP(p))
            /\ \A p \in Writer : WF_vars(pc[p] # "user" /\ WriteP(p))

----------------------------------------------------------------------------
(* Properties *)

TypeOK ==
  /\ file \in Seq(1 .. sent) /\ Size <= PIPSIZ
  /\ off \in 0 .. Size
  /\ {lock, want, iread, iwrite} \subseteq BOOLEAN
  /\ count \in 0 .. 2
  /\ open \subseteq Proc
  /\ pc \in [Proc -> PCs]
  /\ left \in [Proc -> 0 .. MaxCount]
  /\ from \in [Proc -> 0 .. PIPSIZ]
  /\ got \in Seq(1 .. sent)
  /\ sent \in Nat /\ asked \in 0 .. MaxBytes

\* The pipe is a queue, whoever reads and writes and however calls are cut in
\* pieces: readers get the bytes in the order they were written, each once, and
\* what was sent and not received is in the file past off.
Fifo ==
  /\ \A i \in DOMAIN got : got[i] = i
  /\ (\A p \in Proc : pc[p] # "io") => Len(got) + (Size - off) = sent

\* No wake-up is lost: a reader sleeps only on an empty pipe and a writer
\* only on a full one, both ends open, with the bit set that gets them woken;
\* who sleeps in Plock sleeps on a lock that a transfer will release.
NoLostWakeup ==
  /\ \A p \in Reader : pc[p] = "sleep" => iread /\ off = Size /\ count = 2
  /\ \A p \in Writer : pc[p] = "sleep" => iwrite /\ Size = PIPSIZ /\ count = 2
  /\ \A p \in Proc : pc[p] = "lockSleep" => lock /\ want
  /\ lock => \E p \in Proc : pc[p] = "io"

\* The lock makes transfers exclusive.
Exclusive == \A p, q \in Proc : pc[p] = "io" /\ pc[q] = "io" => p = q

\* A write ends if readers keep reading, however often it has to wait for
\* room.
WritesEnd == \A p \in Writer : pc[p] # "user" ~> pc[p] = "user"
=============================================================================
