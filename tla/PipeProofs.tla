----------------------------- MODULE PipeProofs -----------------------------
(***************************************************************************)
(* The safety properties of Pipe, proved for every number of readers and   *)
(* writers, every size of the pipe and every bound.                        *)
(***************************************************************************)
EXTENDS Pipe, TLAPS

\* The last close of an end unlocks the pipe whoever has the lock.  With one
\* reader this does no harm; with several, two of them could read the same
\* bytes, and what is proved needs ends that stay open.
OneReader == \A p, q \in Reader : p = q
Exclusion == OneReader \/ ~ Closes

----------------------------------------------------------------------------
(* The inductive invariant *)

HasEnd(E) == open \cap E # {}

\* i_count counts the Files that are open
Counted ==
  /\ HasEnd(Reader) => count >= 1
  /\ HasEnd(Writer) => count >= 1
  /\ HasEnd(Reader) /\ HasEnd(Writer) => count = 2
  /\ \A p \in Proc : pc[p] # "user" => p \in open

\* who transfers has the lock, or lost it to the last close of the other end
Locking ==
  /\ \A p \in Reader : pc[p] = "io" => lock \/ (Closes /\ ~ HasEnd(Writer))
  /\ \A p \in Writer : pc[p] = "io" =>
       lock \/ (Closes /\ ~ HasEnd(Reader) /\ count < 2)

\* the bytes in the file are the last ones sent, and those before off are
\* the last ones received; a transfer starts where the pipe still stands
Numbered ==
  /\ \A i \in 1 .. Size : file[i] + Size = sent + i
  /\ \A i \in 1 .. Len(got) : got[i] = i
  /\ Len(got) + Size = sent + off
  /\ \A p \in Reader : pc[p] = "io" => from[p] = off
  /\ \A p \in Writer : pc[p] = "io" => from[p] = Size /\ Size # PIPSIZ

IndInv == TypeOK /\ Counted /\ Locking /\ Exclusive /\ Numbered /\ NoLostWakeup

----------------------------------------------------------------------------
(* Every step preserves it *)

\* the state after FileManager::Pipe and the forks
LEMMA InitInd == ASSUME Init PROVE IndInv
<1>1. TypeOK
  <2>1. file \in Seq(1 .. sent) /\ got \in Seq(1 .. sent) /\ Size = 0
    BY DEF Init, Size
  <2>2. /\ pc \in [Proc -> PCs]
        /\ left \in [Proc -> 0 .. MaxCount] /\ from \in [Proc -> 0 .. PIPSIZ]
    BY ConstantsAssumption DEF Init, PCs
  <2>3. /\ {lock, want, iread, iwrite} \subseteq BOOLEAN
        /\ off = 0 /\ count = 2 /\ open = Proc /\ sent = 0 /\ asked = 0
    BY DEF Init
  <2> QED BY <2>1, <2>2, <2>3, ConstantsAssumption DEF TypeOK
<1>2. Counted
  BY DEF Init, Counted, HasEnd
<1>3. Locking /\ Exclusive
  BY DEF Init, Locking, Exclusive, Proc
<1>4. Numbered
  BY DEF Init, Numbered, Size, Proc
<1>5. NoLostWakeup
  BY DEF Init, NoLostWakeup, Proc
<1> QED BY <1>1, <1>2, <1>3, <1>4, <1>5 DEF IndInv

\* a sleep in Plock
LEMMA LockSleepInd ==
  ASSUME IndInv, NEW p \in Proc, Entering(p), PlockSleep(p),
         UNCHANGED from, left' \in [Proc -> 0 .. MaxCount],
         asked' \in 0 .. MaxBytes
  PROVE  IndInv'
<1> USE DEF IndInv
<1>0. p \in open /\ pc' = [pc EXCEPT ![p] = "lockSleep"]
  BY DEF Entering, PlockSleep, Goto
<1>1. TypeOK'
  BY <1>0 DEF TypeOK, PlockSleep, Size, PCs, ioVars
<1>2. Counted'
  BY <1>0 DEF TypeOK, Counted, PlockSleep, HasEnd
<1>3. (Locking /\ Exclusive)'
  BY <1>0 DEF TypeOK, Locking, Exclusive, PlockSleep, HasEnd, Proc
<1>4. Numbered'
  BY <1>0 DEF TypeOK, Numbered, PlockSleep, ioVars, Size, Proc
<1>5. NoLostWakeup'
  BY <1>0 DEF TypeOK, NoLostWakeup, PlockSleep, ioVars, Size, Proc, Entering
<1> QED BY <1>1, <1>2, <1>3, <1>4, <1>5

\* Who finds the pipe unlocked and can transfer is the only one to do so.
LEMMA Unlocked ==
  ASSUME IndInv, Exclusion, NEW p \in Proc, Entering(p), ~ lock,
         p \in Reader \/ count >= 2
  PROVE  \A q \in Proc : pc[q] # "io"
<1> SUFFICES ASSUME NEW q \in Proc, pc[q] = "io" PROVE FALSE
  OBVIOUS
<1>1. p \in open /\ pc[p] # "io"
  BY DEF Entering
<1>2. CASE q \in Reader
  BY <1>1, <1>2 DEF Exclusion, OneReader, IndInv, Locking, HasEnd, Proc
<1>3. CASE q \in Writer
  BY <1>1, <1>3 DEF Exclusion, IndInv, TypeOK, Locking, HasEnd, Proc
<1> QED BY <1>2, <1>3 DEF Proc

\* a signal
LEMMA SignalInd == ASSUME IndInv, NEW p \in Proc, Signal(p) PROVE IndInv'
<1> USE DEF IndInv
<1>0. pc[p] # "io" /\ pc' = [pc EXCEPT ![p] = "user"]
  BY DEF Signal, Goto
<1>1. TypeOK'
  BY <1>0 DEF TypeOK, Signal, Size, PCs, ioVars, locVars
<1>2. Counted'
  BY <1>0 DEF TypeOK, Counted, Signal, HasEnd
<1>3. (Locking /\ Exclusive)'
  BY <1>0 DEF TypeOK, Locking, Exclusive, Signal, HasEnd, Proc
<1>4. Numbered'
  BY <1>0 DEF TypeOK, Numbered, Signal, ioVars, locVars, Size, Proc
<1>5. NoLostWakeup'
  BY <1>0 DEF TypeOK, NoLostWakeup, Signal, ioVars, Size, Proc
<1> QED BY <1>1, <1>2, <1>3, <1>4, <1>5

\* Bytes takes a piece out of a sequence.
LEMMA BytesProps ==
  ASSUME NEW S, NEW s \in Seq(S), NEW a \in Nat, NEW b \in Nat,
         a <= b, b <= Len(s)
  PROVE  /\ Bytes(s, a, b) \in Seq(S)
         /\ Len(Bytes(s, a, b)) = b - a
         /\ \A i \in 1 .. b - a : Bytes(s, a, b)[i] = s[a + i]
<1>1. b - a \in Nat
  OBVIOUS
<1>2. \A i \in 1 .. b - a : s[a + i] \in S
  OBVIOUS
<1> QED BY <1>1, <1>2 DEF Bytes

\* Sequences of bytes: a larger range, and appending a piece.
LEMMA SeqWiden ==
  ASSUME NEW S, NEW T, S \subseteq T, NEW s \in Seq(S)
  PROVE  s \in Seq(T)
OBVIOUS

LEMMA SeqElements ==
  ASSUME NEW S, NEW s \in Seq(S)
  PROVE  \A i \in 1 .. Len(s) : s[i] \in S
OBVIOUS

LEMMA ConcatProps ==
  ASSUME NEW S, NEW s \in Seq(S), NEW t \in Seq(S)
  PROVE  /\ s \o t \in Seq(S)
         /\ Len(s \o t) = Len(s) + Len(t)
         /\ \A i \in 1 .. Len(s) + Len(t) :
              (s \o t)[i] = IF i <= Len(s) THEN s[i] ELSE t[i - Len(s)]
OBVIOUS

LEMMA CountUp ==
  ASSUME NEW m \in Nat, NEW n \in Nat
  PROVE  LET W == [i \in 1 .. n |-> m + i]
         IN  W \in Seq(1 .. m + n) /\ Len(W) = n
<1>1. \A i \in 1 .. n : m + i \in 1 .. m + n
  OBVIOUS
<1> QED BY <1>1

\* an empty pipe
LEMMA ReadPEmptyInd ==
  ASSUME IndInv, Exclusion, NEW p \in Reader, ReadPEmpty(p)
  PROVE  IndInv'
<1> USE DEF IndInv
<1>a. p \in Proc /\ p \notin Writer /\ p \in open /\ Entering(p) /\ ~ lock
  BY ConstantsAssumption DEF Proc, ReadPEmpty, Entering
<1>b. off = Size /\ file' = << >> /\ off' = 0 /\ Size' = 0
  BY DEF ReadPEmpty, Size
<1>c. pc' \in [Proc -> PCs]
  BY DEF ReadPEmpty, Woken, TypeOK, PCs
<1>d. \A q \in Proc : pc[q] # "io" /\ pc'[q] # "io"
  BY <1>a, Unlocked DEF ReadPEmpty, Woken
<1>1. TypeOK'
  <2>1. file' \in Seq(1 .. sent)
    BY <1>b
  <2>2. {lock', want', iread', iwrite'} \subseteq BOOLEAN
    BY DEF TypeOK, ReadPEmpty
  <2>3. UNCHANGED <<left, from, asked, sent, got, open, count>>
    BY DEF ReadPEmpty, locVars
  <2> QED BY <1>b, <1>c, <2>1, <2>2, <2>3, ConstantsAssumption DEF TypeOK
<1>2. Counted'
  BY <1>a, <1>c DEF TypeOK, Counted, ReadPEmpty, HasEnd, Woken
<1>3. (Locking /\ Exclusive)'
  BY <1>d DEF Locking, Exclusive, Proc
<1>4. Numbered'
  <2>1. UNCHANGED <<sent, got>>
    BY DEF ReadPEmpty
  <2>2. Size \in Nat /\ Len(got) \in Nat
    BY DEF TypeOK, Size
  <2>3. Len(got) = sent
    BY <1>b, <2>2 DEF TypeOK, Numbered
  <2>4. /\ off' = 0 /\ Size' = 0 /\ sent' = sent /\ got' = got
        /\ sent \in Nat /\ Len(got) \in Nat
    BY <1>b, <2>1, <2>2 DEF TypeOK
  <2>5. \A i \in 1 .. Size' : file'[i] + Size' = sent' + i
    BY <2>4
  <2>6. \A i \in 1 .. Len(got') : got'[i] = i
    BY <2>4 DEF Numbered
  <2>7. Len(got') + Size' = sent' + off'
    BY <2>3, <2>4
  <2>8. \A q \in Proc : pc'[q] # "io"
    BY <1>d
  <2> QED BY <2>5, <2>6, <2>7, <2>8 DEF Numbered, Proc
<1>5. NoLostWakeup'
  <2>1. \A q \in Reader : pc'[q] = "sleep" => iread' /\ off' = Size' /\ count' = 2
    <3> SUFFICES ASSUME NEW q \in Reader, pc'[q] = "sleep"
                 PROVE  iread' /\ count = 2
      BY <1>b DEF ReadPEmpty
    <3>1. CASE q = p
      <4>1. ~ (count < 2)
        BY <1>a, <3>1 DEF ReadPEmpty, Woken
      <4>2. count = 2 /\ count >= 2
        BY <4>1 DEF TypeOK
      <4>3. iread' = (iread \/ count >= 2)
        BY DEF ReadPEmpty
      <4> QED BY <4>2, <4>3
    <3>2. CASE q # p
      BY <1>a, <3>2 DEF NoLostWakeup, ReadPEmpty, Woken, Proc
    <3> QED BY <3>1, <3>2
  <2>2. \A q \in Writer : pc'[q] = "sleep" =>
                            iwrite' /\ Size' = PIPSIZ /\ count' = 2
    BY <1>a, <1>b, ConstantsAssumption
    DEF TypeOK, NoLostWakeup, ReadPEmpty, Woken, Proc
  <2>3. ~ lock' /\ \A q \in Proc : pc'[q] # "lockSleep"
    BY <1>a DEF NoLostWakeup, ReadPEmpty, Woken
  <2> QED BY <2>1, <2>2, <2>3 DEF NoLostWakeup
<1> QED BY <1>1, <1>2, <1>3, <1>4, <1>5

\* a transfer from the pipe starts
LEMMA ReadPStartInd ==
  ASSUME IndInv, Exclusion, NEW p \in Reader, ReadPStart(p)
  PROVE  IndInv'
<1> USE DEF IndInv
<1>a. /\ p \in Proc /\ p \notin Writer /\ p \in open /\ Entering(p) /\ ~ lock
      /\ pc[p] \in {"user", "plock"}
  BY ConstantsAssumption DEF Proc, ReadPStart, Entering
<1>b. /\ lock' /\ pc' = [pc EXCEPT ![p] = "io"]
      /\ from' = [from EXCEPT ![p] = off]
      /\ UNCHANGED <<file, off, sent, got, want, iread, iwrite, count, open, left,
                     asked>>
  BY DEF ReadPStart, Goto, ioVars
<1>c. \A q \in Proc : pc'[q] = "io" <=> q = p
  BY <1>a, <1>b, Unlocked DEF TypeOK
<1>d. Size' = Size /\ off \in 0 .. PIPSIZ
  BY <1>b, ConstantsAssumption DEF Size, TypeOK
<1>1. TypeOK'
  <2>1. {lock', want', iread', iwrite'} \subseteq BOOLEAN
    BY DEF TypeOK, ReadPStart
  <2> QED BY <1>b, <1>d, <2>1 DEF TypeOK, PCs
<1>2. Counted'
  BY <1>a, <1>b DEF TypeOK, Counted, HasEnd
<1>3. (Locking /\ Exclusive)'
  BY <1>b, <1>c DEF Locking, Exclusive, Proc
<1>4. Numbered'
  BY <1>a, <1>b, <1>c, <1>d DEF TypeOK, Numbered, Proc
<1>5. NoLostWakeup'
  BY <1>a, <1>b, <1>d DEF TypeOK, NoLostWakeup, Proc
<1> QED BY <1>1, <1>2, <1>3, <1>4, <1>5

\* a transfer from the pipe ends
LEMMA ReadPDoneInd ==
  ASSUME IndInv, NEW p \in Reader, ReadPDone(p)
  PROVE  IndInv'
<1> USE DEF IndInv
<1>a. /\ p \in Proc /\ p \notin Writer /\ pc[p] = "io"
      /\ \A q \in Proc : pc[q] = "io" => q = p
  BY ConstantsAssumption DEF Proc, ReadPDone, Exclusive
<1>b. /\ ~ lock' /\ ~ want'
      /\ UNCHANGED <<file, sent, iread, iwrite, count, open, left, from, asked>>
      /\ Size' = Size
  BY DEF ReadPDone, locVars, Size
<1>c. /\ Size \in Nat /\ off \in 0 .. Size /\ from[p] = off
      /\ Len(got) \in Nat /\ Len(got) + Size = sent + off
  BY <1>a DEF TypeOK, Numbered, Size
<1>d. PICK n \in 1 .. Size - off :
        /\ got' = got \o Bytes(file, off, off + n)
        /\ off' = off + n
  BY <1>c DEF ReadPDone
<1>e. /\ pc' \in [Proc -> PCs] /\ pc'[p] = "user"
      /\ \A q \in Proc : pc'[q] # "io" /\ pc'[q] # "lockSleep"
      /\ \A q \in Proc : pc'[q] = "sleep" => pc[q] = "sleep"
      /\ \A q \in Proc : pc'[q] # "user" => pc[q] # "user"
  BY <1>a DEF ReadPDone, Woken, TypeOK, PCs, NoLostWakeup
<1>f. LET B == Bytes(file, off, off + n)
      IN  /\ B \in Seq(1 .. sent) /\ Len(B) = n
          /\ \A i \in 1 .. n : B[i] = file[off + i]
  <2> DEFINE b == off + n
  <2>1. /\ b \in Nat /\ off \in Nat /\ off <= b /\ b <= Len(file)
        /\ b - off = n
    BY <1>c DEF Size
  <2>2. file \in Seq(1 .. sent)
    BY DEF TypeOK
  <2> HIDE DEF b
  <2>3. /\ Bytes(file, off, b) \in Seq(1 .. sent)
        /\ Len(Bytes(file, off, b)) = b - off
        /\ \A i \in 1 .. b - off : Bytes(file, off, b)[i] = file[off + i]
    BY <2>1, <2>2, BytesProps
  <2> QED BY <2>1, <2>3 DEF b
<1>g. /\ got' \in Seq(1 .. sent) /\ Len(got') = Len(got) + n
      /\ \A i \in 1 .. Len(got') :
           got'[i] = IF i <= Len(got) THEN got[i] ELSE file[off + (i - Len(got))]
  <2> DEFINE B == Bytes(file, off, off + n)
  <2>1. /\ got \in Seq(1 .. sent) /\ got' = got \o B
        /\ B \in Seq(1 .. sent) /\ Len(B) = n
    BY <1>d, <1>f DEF TypeOK
  <2>2. \A i \in 1 .. n : B[i] = file[off + i]
    BY <1>f
  <2> HIDE DEF B
  <2>3. got' \in Seq(1 .. sent) /\ Len(got') = Len(got) + n
    BY <2>1
  <2>4. \A i \in 1 .. Len(got') :
          got'[i] = IF i <= Len(got) THEN got[i] ELSE B[i - Len(got)]
    BY <2>1
  <2> QED BY <1>c, <2>2, <2>3, <2>4, SMTT(30)
<1>1. TypeOK'
  <2>1. {lock', want', iread', iwrite'} \subseteq BOOLEAN
    BY DEF TypeOK, ReadPDone
  <2>2. off' \in 0 .. Size'
    BY <1>b, <1>c, <1>d
  <2> QED BY <1>b, <1>e, <1>g, <2>1, <2>2 DEF TypeOK
<1>2. Counted'
  BY <1>b, <1>e DEF Counted, HasEnd
<1>3. (Locking /\ Exclusive)'
  BY <1>e DEF Locking, Exclusive, Proc
<1>4. Numbered'
  <2>1. \A i \in 1 .. Len(got') : got'[i] = i
    <3> SUFFICES ASSUME NEW i \in 1 .. Len(got') PROVE got'[i] = i
      OBVIOUS
    <3>1. CASE i <= Len(got)
      BY <1>c, <1>g, <3>1 DEF Numbered
    <3>2. CASE ~ (i <= Len(got))
      <4>1. off + (i - Len(got)) \in 1 .. Size
        BY <1>c, <1>g, <3>2
      <4>2. file[off + (i - Len(got))] + Size = sent + (off + (i - Len(got)))
        BY <4>1 DEF Numbered
      <4>3. file[off + (i - Len(got))] \in Nat
        <5>1. file \in Seq(1 .. sent)
          BY DEF TypeOK
        <5>2. \A k \in 1 .. Len(file) : file[k] \in 1 .. sent
          BY <5>1, SeqElements
        <5> QED BY <4>1, <5>2 DEF Size
      <4>4. got'[i] = file[off + (i - Len(got))]
        BY <1>g, <3>2
      <4>5. sent \in Nat
        BY DEF TypeOK
      <4> QED BY <1>c, <4>2, <4>3, <4>4, <4>5
    <3> QED BY <3>1, <3>2
  <2>2. Len(got') + Size = sent + off'
    <3>1. sent \in Nat /\ off' = off + n /\ Len(got') = Len(got) + n
      BY <1>d, <1>g DEF TypeOK
    <3> QED BY <1>c, <3>1
  <2> QED BY <1>b, <1>e, <2>1, <2>2 DEF Numbered, Proc
<1>5. NoLostWakeup'
  <2>1. \A q \in Reader : pc'[q] # "sleep"
    BY <1>c, <1>d, <1>e DEF NoLostWakeup, Proc
  <2> QED BY <1>b, <1>e, <2>1 DEF NoLostWakeup, Proc
<1> QED BY <1>1, <1>2, <1>3, <1>4, <1>5

\* The bytes of a call stay within the bounds.
LEMMA ToWriteType ==
  ASSUME TypeOK, NEW p \in Proc, NEW c \in Counts(p), ToWrite(p, c)
  PROVE  left' \in [Proc -> 0 .. MaxCount] /\ asked' \in 0 .. MaxBytes
<1>1. c \in 0 .. MaxCount /\ (pc[p] = "user" => asked + c <= MaxBytes)
  BY ConstantsAssumption DEF Counts, TypeOK
<1>2. asked' = asked \/ (asked' = asked + c /\ asked + c <= MaxBytes)
  BY <1>1 DEF ToWrite
<1> QED BY <1>1, <1>2, ConstantsAssumption DEF ToWrite, TypeOK

\* a call of write that returns: it is done, or the other end is closed
LEMMA WritePReturnInd ==
  ASSUME IndInv, NEW p \in Writer, Entering(p), Goto(p, "user"), ~ lock,
         UNCHANGED <<ioVars, lock, want, iread, iwrite, count, open, from>>,
         left' \in [Proc -> 0 .. MaxCount], asked' \in 0 .. MaxBytes
  PROVE  IndInv'
<1> USE DEF IndInv
<1>0. p \in Proc /\ pc[p] # "io" /\ pc' = [pc EXCEPT ![p] = "user"]
  BY DEF Entering, Goto, Proc
<1>1. TypeOK'
  BY <1>0 DEF TypeOK, Size, PCs, ioVars
<1>2. Counted'
  BY <1>0 DEF TypeOK, Counted, HasEnd
<1>3. (Locking /\ Exclusive)'
  BY <1>0 DEF TypeOK, Locking, Exclusive, HasEnd, Proc
<1>4. Numbered'
  BY <1>0 DEF TypeOK, Numbered, ioVars, Size, Proc
<1>5. NoLostWakeup'
  BY <1>0 DEF TypeOK, NoLostWakeup, ioVars, Size, Proc
<1> QED BY <1>1, <1>2, <1>3, <1>4, <1>5

\* a full pipe
LEMMA WritePFullInd ==
  ASSUME IndInv, NEW p \in Writer, WritePFull(p)
  PROVE  IndInv'
<1> USE DEF IndInv
<1>0. /\ p \in Proc /\ p \notin Reader /\ p \in open
      /\ pc[p] \in {"user", "plock"}
      /\ pc' = [pc EXCEPT ![p] = "sleep"] /\ iwrite' /\ ~ lock
      /\ Size = PIPSIZ /\ count >= 2
      /\ UNCHANGED <<ioVars, lock, want, iread, count, open, from>>
  BY ConstantsAssumption DEF WritePFull, Entering, Goto, Proc
<1>a. left' \in [Proc -> 0 .. MaxCount] /\ asked' \in 0 .. MaxBytes
  BY <1>0, ToWriteType DEF WritePFull
<1>b. {lock', want', iread', iwrite'} \subseteq BOOLEAN
  BY DEF TypeOK, WritePFull
<1>1. TypeOK'
  BY <1>0, <1>a, <1>b DEF TypeOK, Size, PCs, ioVars
<1>2. Counted'
  BY <1>0 DEF TypeOK, Counted, HasEnd
<1>3. (Locking /\ Exclusive)'
  BY <1>0 DEF TypeOK, Locking, Exclusive, HasEnd, Proc
<1>4. Numbered'
  BY <1>0 DEF TypeOK, Numbered, ioVars, Size, Proc
<1>5. NoLostWakeup'
  <2>1. count = 2 /\ Size' = Size /\ off' = off
    BY <1>0 DEF TypeOK, Size, ioVars
  <2> QED BY <1>0, <2>1 DEF TypeOK, NoLostWakeup, Proc
<1> QED BY <1>1, <1>2, <1>3, <1>4, <1>5

\* a transfer into the pipe starts
LEMMA WritePStartInd ==
  ASSUME IndInv, Exclusion, NEW p \in Writer, WritePStart(p)
  PROVE  IndInv'
<1> USE DEF IndInv
<1>a. /\ p \in Proc /\ p \notin Reader /\ p \in open /\ Entering(p) /\ ~ lock
      /\ pc[p] \in {"user", "plock"} /\ count >= 2
  BY ConstantsAssumption DEF Proc, WritePStart, Entering
<1>b. /\ lock' /\ pc' = [pc EXCEPT ![p] = "io"] /\ Size # PIPSIZ
      /\ from' = [from EXCEPT ![p] = Size]
      /\ UNCHANGED <<file, off, sent, got, want, iread, iwrite, count, open>>
  BY DEF WritePStart, Goto, ioVars
<1>c. \A q \in Proc : pc'[q] = "io" <=> q = p
  BY <1>a, <1>b, Unlocked DEF TypeOK
<1>d. Size' = Size /\ Size \in 0 .. PIPSIZ
  BY <1>b, ConstantsAssumption DEF Size, TypeOK
<1>e. left' \in [Proc -> 0 .. MaxCount] /\ asked' \in 0 .. MaxBytes
  BY <1>a, ToWriteType DEF WritePStart
<1>1. TypeOK'
  <2>1. {lock', want', iread', iwrite'} \subseteq BOOLEAN
    BY DEF TypeOK, WritePStart
  <2> QED BY <1>b, <1>d, <1>e, <2>1 DEF TypeOK, PCs
<1>2. Counted'
  BY <1>a, <1>b DEF TypeOK, Counted, HasEnd
<1>3. (Locking /\ Exclusive)'
  BY <1>b, <1>c DEF Locking, Exclusive, Proc
<1>4. Numbered'
  BY <1>a, <1>b, <1>c, <1>d DEF TypeOK, Numbered, Proc
<1>5. NoLostWakeup'
  BY <1>a, <1>b, <1>d DEF TypeOK, NoLostWakeup, Proc
<1> QED BY <1>1, <1>2, <1>3, <1>4, <1>5

\* a transfer into the pipe ends
LEMMA WritePDoneInd ==
  ASSUME IndInv, NEW p \in Writer, WritePDone(p)
  PROVE  IndInv'
<1> USE DEF IndInv
<1> DEFINE n == Writes(p)
<1>a. /\ p \in Proc /\ p \notin Reader /\ pc[p] = "io"
      /\ \A q \in Proc : pc[q] = "io" => q = p
  BY ConstantsAssumption DEF Proc, WritePDone, Exclusive
<1>b. /\ ~ lock' /\ ~ want' /\ ~ iread'
      /\ UNCHANGED <<off, got, iwrite, count, open, from, asked>>
  BY DEF WritePDone
<1>c. /\ Size \in Nat /\ Size < PIPSIZ /\ off \in 0 .. Size /\ from[p] = Size
      /\ Len(got) \in Nat /\ sent \in Nat /\ Size <= sent
      /\ Len(got) + Size = sent + off
  <2>1. Size \in Nat /\ Size <= PIPSIZ /\ off \in 0 .. Size /\ sent \in Nat
        /\ Len(got) \in Nat
    BY DEF TypeOK, Size
  <2>2. from[p] = Size /\ Size # PIPSIZ /\ Len(got) + Size = sent + off
    BY <1>a DEF Numbered
  <2>3. Len(got) >= off
    <3>1. CASE Len(got) < off
      <4>1. off \in 1 .. Size /\ Size >= 1 /\ 1 \in 1 .. Size
        BY <2>1, <3>1
      <4>2. file[1] \in 1 .. sent
        BY <4>1 DEF TypeOK, Size
      <4>3. file[1] + Size = sent + 1
        BY <4>1 DEF Numbered
      <4> QED BY <2>1, <2>2, <3>1, <4>2, <4>3
    <3> QED BY <2>1, <3>1
  <2> QED BY <2>1, <2>2, <2>3, ConstantsAssumption
<1>d. n \in Nat /\ n <= PIPSIZ - Size /\ n <= left[p] /\ left[p] \in 0 .. MaxCount
  <2>1. left[p] \in 0 .. MaxCount
    BY <1>a DEF TypeOK
  <2> QED BY <1>c, <2>1, ConstantsAssumption DEF Writes, Min
<1>e. /\ pc' \in [Proc -> PCs] /\ pc'[p] = "plock"
      /\ \A q \in Proc : pc'[q] # "io" /\ pc'[q] # "lockSleep"
      /\ \A q \in Proc : pc'[q] = "sleep" => pc[q] = "sleep"
      /\ \A q \in Reader : pc'[q] = "sleep" => ~ iread
      /\ \A q \in Proc : pc'[q] # "user" => pc[q] # "user"
  BY <1>a DEF WritePDone, TypeOK, PCs, NoLostWakeup, Proc
<1>f. sent' = sent + n /\ left' = [left EXCEPT ![p] = @ - n]
  BY DEF WritePDone
<1>g. /\ file' \in Seq(1 .. sent') /\ Size' = Size + n
      /\ \A i \in 1 .. Size' :
           file'[i] = IF i <= Size THEN file[i] ELSE sent + (i - Size)
  <2> DEFINE B == Bytes(file, 0, Size)
             W == [i \in 1 .. n |-> sent + i]
  <2>1. file' = B \o W
    BY <1>c DEF WritePDone
  <2>2. /\ B \in Seq(1 .. sent) /\ Len(B) = Size
        /\ \A i \in 1 .. Size : B[i] = file[i]
    <3>1. file \in Seq(1 .. sent) /\ Len(file) = Size
      BY DEF TypeOK, Size
    <3>2. B = [i \in 1 .. Size |-> file[i]]
      BY <1>c DEF Bytes
    <3>3. \A i \in 1 .. Size : file[i] \in 1 .. sent
      BY <3>1, SeqElements DEF Size
    <3> HIDE DEF B
    <3> QED BY <1>c, <3>2, <3>3
  <2>3. /\ W \in Seq(1 .. sent') /\ Len(W) = n
        /\ \A i \in 1 .. n : W[i] = sent + i
    <3> HIDE DEF n
    <3> QED BY <1>c, <1>d, <1>f, CountUp
  <2>4. B \in Seq(1 .. sent')
    <3>1. 1 .. sent \subseteq 1 .. sent'
      BY <1>c, <1>d, <1>f
    <3> HIDE DEF B
    <3> QED BY <2>2, <3>1, SeqWiden
  <2> HIDE DEF B, W
  <2>5. /\ file' \in Seq(1 .. sent') /\ Len(file') = Len(B) + Len(W)
        /\ \A i \in 1 .. Len(file') :
             file'[i] = IF i <= Len(B) THEN B[i] ELSE W[i - Len(B)]
    <3>1. /\ B \o W \in Seq(1 .. sent') /\ Len(B \o W) = Len(B) + Len(W)
          /\ \A i \in 1 .. Len(B) + Len(W) :
               (B \o W)[i] = IF i <= Len(B) THEN B[i] ELSE W[i - Len(B)]
      <4>1. W \in Seq(1 .. sent')
        BY <2>3
      <4> QED BY <2>4, <4>1, ConcatProps
    <3> QED BY <2>1, <3>1
  <2>6. Len(file') = Size + n
    BY <2>2, <2>3, <2>5
  <2>7. ASSUME NEW i \in 1 .. Len(file')
        PROVE  file'[i] = IF i <= Size THEN file[i] ELSE sent + (i - Size)
    <3>1. CASE i <= Size
      BY <1>c, <2>2, <2>5, <3>1
    <3>2. CASE ~ (i <= Size)
      <4>1. i - Size \in 1 .. n
        BY <1>c, <1>d, <2>6, <3>2
      <4> QED BY <2>2, <2>3, <2>5, <3>2, <4>1
    <3> QED BY <3>1, <3>2
  <2> QED BY <2>5, <2>6, <2>7 DEF Size
<1> HIDE DEF n
<1>1. TypeOK'
  <2>1. {lock', want', iread', iwrite'} \subseteq BOOLEAN
    BY DEF TypeOK, WritePDone
  <2>2. off' \in 0 .. Size' /\ Size' <= PIPSIZ /\ sent' \in Nat
    BY <1>b, <1>c, <1>d, <1>f, <1>g, ConstantsAssumption
  <2>3. got' \in Seq(1 .. sent')
    <3>1. 1 .. sent \subseteq 1 .. sent'
      BY <1>c, <1>d, <1>f
    <3>2. got \in Seq(1 .. sent) /\ got' = got
      BY <1>b DEF TypeOK
    <3> QED BY <3>1, <3>2, SeqWiden
  <2>4. left' \in [Proc -> 0 .. MaxCount]
    BY <1>a, <1>d, <1>f, ConstantsAssumption DEF TypeOK
  <2> QED BY <1>b, <1>e, <1>g, <2>1, <2>2, <2>3, <2>4 DEF TypeOK
<1>2. Counted'
  BY <1>b, <1>e DEF Counted, HasEnd
<1>3. (Locking /\ Exclusive)'
  BY <1>e DEF Locking, Exclusive, Proc
<1>4. Numbered'
  <2>1. ASSUME NEW i \in 1 .. Size' PROVE file'[i] + Size' = sent' + i
    <3>1. CASE i <= Size
      <4>1. file[i] \in Nat
        <5>1. file \in Seq(1 .. sent)
          BY DEF TypeOK
        <5>2. \A k \in 1 .. Len(file) : file[k] \in 1 .. sent
          BY <5>1, SeqElements
        <5> QED BY <1>c, <3>1, <5>2 DEF Size
      <4>2. file[i] + Size = sent + i
        BY <1>c, <3>1 DEF Numbered
      <4>3. file'[i] = file[i] /\ Size' = Size + n
        BY <1>g, <3>1
      <4> QED BY <1>c, <1>d, <1>f, <4>1, <4>2, <4>3
    <3>2. CASE ~ (i <= Size)
      BY <1>c, <1>d, <1>f, <1>g, <3>2
    <3> QED BY <3>1, <3>2
  <2>2. Len(got') + Size' = sent' + off'
    <3>1. Size' = Size + n /\ off' = off /\ got' = got /\ sent' = sent + n
      BY <1>b, <1>f, <1>g
    <3>2. Len(got) + (Size + n) = (sent + n) + off
      BY <1>c, <1>d
    <3> QED BY <3>1, <3>2
  <2> QED BY <1>b, <1>e, <2>1, <2>2 DEF Numbered, Proc
<1>5. NoLostWakeup'
  <2>1. \A q \in Reader : pc'[q] # "sleep"
    BY <1>e DEF NoLostWakeup, Proc
  <2>2. \A q \in Writer : pc'[q] # "sleep"
    BY <1>c, <1>e DEF NoLostWakeup, Proc
  <2> QED BY <1>b, <1>e, <2>1, <2>2 DEF NoLostWakeup, Proc
<1> QED BY <1>1, <1>2, <1>3, <1>4, <1>5

\* a process closes its end
LEMMA CloseInd == ASSUME IndInv, NEW p \in Proc, Close(p) PROVE IndInv'
<1> USE DEF IndInv
<1> DEFINE last == open \cap End(p) = {p}
<1>a. /\ pc[p] = "user" /\ p \in open /\ Closes /\ open' = open \ {p}
      /\ ~ iread' /\ ~ iwrite'
      /\ count' = IF last THEN count - 1 ELSE count
      /\ lock' = (lock /\ ~ last) /\ want' = (want /\ ~ last)
      /\ UNCHANGED <<file, off, sent, got, left, from, asked>> /\ Size' = Size
  BY DEF Close, ioVars, locVars, Size
<1>b. /\ pc' \in [Proc -> PCs] /\ pc'[p] = "user"
      /\ \A q \in Proc : pc'[q] # "sleep"
      /\ \A q \in Proc : pc'[q] = "io" <=> pc[q] = "io"
      /\ \A q \in Proc : pc'[q] = "lockSleep" =>
                           pc[q] = "lockSleep" /\ ~ (last /\ want)
      /\ \A q \in Proc : pc'[q] # "user" => pc[q] # "user"
  BY <1>a DEF Close, TypeOK, PCs
<1>c. \/ p \in Reader /\ p \notin Writer /\ End(p) = Reader
      \/ p \in Writer /\ p \notin Reader /\ End(p) = Writer
  BY ConstantsAssumption DEF End, Proc
<1>d. /\ HasEnd(Reader)' <=> HasEnd(Reader) /\ ~ (last /\ p \in Reader)
      /\ HasEnd(Writer)' <=> HasEnd(Writer) /\ ~ (last /\ p \in Writer)
  BY <1>a, <1>c DEF HasEnd
<1>e. count' \in 0 .. 2 /\ (last => count' < 2)
  <2>1. HasEnd(End(p))
    BY <1>a, <1>c DEF HasEnd
  <2>2. count \in 1 .. 2
    BY <1>c, <2>1 DEF TypeOK, Counted
  <2> QED BY <1>a, <2>2
<1>f. \/ HasEnd(Reader) /\ p \in Reader
      \/ HasEnd(Writer) /\ p \in Writer
  BY <1>a, <1>c DEF HasEnd
<1> HIDE DEF last
<1>1. TypeOK'
  <2>1. {lock', want', iread', iwrite'} \subseteq BOOLEAN
    BY DEF TypeOK, Close
  <2> QED BY <1>a, <1>b, <1>e, <2>1 DEF TypeOK
<1>2. Counted'
  <2>1. \A q \in Proc : pc'[q] # "user" => q \in open'
    BY <1>a, <1>b DEF Counted
  <2> QED BY <1>a, <1>c, <1>d, <1>f, <2>1 DEF Counted, TypeOK
<1>3. (Locking /\ Exclusive)'
  <2>1. ASSUME NEW q \in Reader, pc'[q] = "io"
        PROVE  lock' \/ (Closes /\ ~ HasEnd(Writer)')
    <3>1. q \in open /\ q # p /\ pc[q] = "io"
      BY <1>a, <1>b, <2>1 DEF Counted, Proc
    <3>2. last => p \notin Reader
      BY <1>c, <3>1, <2>1 DEF last
    <3> QED BY <1>a, <1>c, <1>d, <2>1, <3>1, <3>2 DEF Locking
  <2>2. ASSUME NEW q \in Writer, pc'[q] = "io"
        PROVE  lock' \/ (Closes /\ ~ HasEnd(Reader)' /\ count' < 2)
    <3>1. q \in open /\ q # p /\ pc[q] = "io"
      BY <1>a, <1>b, <2>2 DEF Counted, Proc
    <3>2. last => p \notin Writer
      BY <1>c, <3>1, <2>2 DEF last
    <3> QED BY <1>a, <1>c, <1>d, <1>e, <2>2, <3>1, <3>2 DEF Locking
  <2> QED BY <1>b, <2>1, <2>2 DEF Locking, Exclusive
<1>4. Numbered'
  BY <1>a, <1>b DEF Numbered, Proc
<1>5. NoLostWakeup'
  BY <1>a, <1>b DEF NoLostWakeup, Proc
<1> QED BY <1>1, <1>2, <1>3, <1>4, <1>5

\* Every step of the pipe preserves the inductive invariant.
LEMMA NextInd == ASSUME IndInv, Exclusion, [Next]_vars PROVE IndInv'
<1>1. ASSUME NEW p \in Reader, ReadPLocked(p) PROVE IndInv'
  <2>1. UNCHANGED from /\ left' \in [Proc -> 0 .. MaxCount]
        /\ asked' \in 0 .. MaxBytes
    BY <1>1 DEF ReadPLocked, locVars, IndInv, TypeOK
  <2> QED BY <1>1, <2>1, LockSleepInd DEF ReadPLocked, Proc
<1>2. ASSUME NEW p \in Writer, WritePLocked(p) PROVE IndInv'
  <2>1. UNCHANGED from /\ left' \in [Proc -> 0 .. MaxCount]
        /\ asked' \in 0 .. MaxBytes
    BY <1>2, ToWriteType DEF WritePLocked, IndInv, Proc
  <2> QED BY <1>2, <2>1, LockSleepInd DEF WritePLocked, Proc
<1>3. ASSUME NEW p \in Writer, WritePEnd(p) PROVE IndInv'
  <2>1. UNCHANGED from /\ left' \in [Proc -> 0 .. MaxCount]
        /\ asked' \in 0 .. MaxBytes
    BY <1>3 DEF WritePEnd, locVars, IndInv, TypeOK
  <2> QED BY <1>3, <2>1, WritePReturnInd DEF WritePEnd, locVars
<1>4. ASSUME NEW p \in Writer, WritePBroken(p) PROVE IndInv'
  <2>1. UNCHANGED from /\ left' \in [Proc -> 0 .. MaxCount]
        /\ asked' \in 0 .. MaxBytes
    BY <1>4, ToWriteType DEF WritePBroken, IndInv, Proc
  <2> QED BY <1>4, <2>1, WritePReturnInd DEF WritePBroken
<1>5. CASE UNCHANGED vars
  <2>1. UNCHANGED <<file, off, lock, want, iread, iwrite, count, open, pc, left,
                    from, sent, got, asked>>
    BY <1>5 DEF vars, ioVars, locVars
  <2> QED BY <2>1 DEF IndInv, TypeOK, Counted, HasEnd, Locking, Exclusive, Numbered,
                      NoLostWakeup, Size
<1>6. ASSUME NEW p \in Reader, ReadP(p) PROVE IndInv'
  BY <1>1, <1>6, ReadPEmptyInd, ReadPStartInd, ReadPDoneInd DEF ReadP
<1>7. ASSUME NEW p \in Writer, WriteP(p) PROVE IndInv'
  BY <1>2, <1>3, <1>4, <1>7, WritePFullInd, WritePStartInd, WritePDoneInd
  DEF WriteP
<1> QED BY <1>5, <1>6, <1>7, CloseInd, SignalInd DEF Next

----------------------------------------------------------------------------
(* The theorems *)

\* The inductive invariant holds in every state of the pipe.
LEMMA Inductive == ASSUME Exclusion PROVE Spec => []IndInv
<1>1. Init => IndInv
  BY InitInd
<1>2. IndInv /\ [Next]_vars => IndInv'
  BY NextInd
<1> QED BY <1>1, <1>2, PTL DEF Spec

\* Type correctness of ReadP, WriteP and CloseF.
THEOREM TypeCorrect == ASSUME Exclusion PROVE Spec => []TypeOK
<1>1. IndInv => TypeOK
  BY DEF IndInv
<1> QED BY <1>1, Inductive, PTL

\* ReadP and WriteP make the pipe a queue: bytes are received in the order
\* they were sent, each once.
THEOREM PipeIsFifo == ASSUME Exclusion PROVE Spec => []Fifo
<1>1. IndInv => Fifo
  <2> SUFFICES ASSUME IndInv PROVE Fifo
    OBVIOUS
  <2>1. /\ Size \in Nat /\ Len(got) \in Nat /\ off \in 0 .. Size /\ sent \in Nat
        /\ DOMAIN got = 1 .. Len(got)
    BY DEF IndInv, TypeOK, Size
  <2>2. /\ \A i \in 1 .. Len(got) : got[i] = i
        /\ Len(got) + Size = sent + off
    BY DEF IndInv, Numbered
  <2>3. Len(got) + (Size - off) = sent
    BY <2>1, <2>2
  <2> QED BY <2>1, <2>2, <2>3 DEF Fifo
<1> QED BY <1>1, Inductive, PTL

\* No wake-up of Plock, of an empty or of a full pipe is lost.
THEOREM NobodySleepsForEver == ASSUME Exclusion PROVE Spec => []NoLostWakeup
<1>1. IndInv => NoLostWakeup
  BY DEF IndInv
<1> QED BY <1>1, Inductive, PTL

\* Plock and Prele let one transfer at a time run.
THEOREM TransfersExclude == ASSUME Exclusion PROVE Spec => []Exclusive
<1>1. IndInv => Exclusive
  BY DEF IndInv
<1> QED BY <1>1, Inductive, PTL
=============================================================================
