--------------------------- MODULE Logger_proofs ---------------------------
(***************************************************************************)
(* The logger neither loses, repeats nor reorders messages, for any number *)
(* of producers, any threshold and any timing, and what is in the file     *)
(* stays there until the next process opens it.                            *)
(***************************************************************************)
EXTENDS Logger, SequenceTheorems, TLAPS

USE DEF vars, prodVars, fileVars

IndInv == TypeOK /\ NothingLost

\* Time changes none of the queues.
LEMMA TickStep ==
  ASSUME IndInv, Tick
  PROVE  IndInv'
<1>1. TypeOK'
  BY LoggerAssumption DEF IndInv, TypeOK, Tick
<1>2. NothingLost'
  BY DEF IndInv, TypeOK, NothingLost, InFlight, Tick
<1>. QED
  BY <1>1, <1>2 DEF IndInv

\* PushLog takes the lock.
LEMMA PushLockStep ==
  ASSUME IndInv, NEW p \in Producers, PushLock(p)
  PROVE  IndInv'
<1>1. TypeOK'
  BY LoggerAssumption DEF IndInv, TypeOK, PushLock
<1>2. NothingLost'
  BY DEF IndInv, TypeOK, NothingLost, InFlight, PushLock
<1>. QED
  BY <1>1, <1>2 DEF IndInv

\* Appending to the queue appends to whatever precedes it.
LEMMA AppendAfter ==
  ASSUME NEW s \in Seq(Producers), NEW q \in Seq(Producers), NEW p \in Producers
  PROVE  Append(s \o q, p) = s \o Append(q, p)
  OBVIOUS

\* PushLog appends to the queue and to the history alike.
LEMMA PushStep ==
  ASSUME IndInv, NEW p \in Producers, Push(p)
  PROVE  IndInv'
<1>1. TypeOK'
  BY LoggerAssumption DEF IndInv, TypeOK, Push
<1>2. NothingLost'
  <2>1. InFlight \in Seq(Producers) /\ InFlight' = InFlight
    BY DEF IndInv, TypeOK, InFlight, Push
  <2>2. written \in Seq(Producers) /\ queue \in Seq(Producers)
    BY DEF IndInv, TypeOK
  <2>3. written \o InFlight \in Seq(Producers)
    BY <2>1, <2>2, ConcatProperties, Zenon
  <2>4. Append((written \o InFlight) \o queue, p) = (written \o InFlight) \o Append(queue, p)
    BY <2>2, <2>3, AppendAfter, Zenon
  <2>. QED
    BY <2>1, <2>3, <2>4 DEF IndInv, NothingLost, Push
<1>. QED
  BY <1>1, <1>2 DEF IndInv

\* A notification wakes the writer up and moves no message.
LEMMA NotifyStep ==
  ASSUME IndInv, NEW p \in Producers, Notify(p)
  PROVE  IndInv'
<1>1. TypeOK'
  BY LoggerAssumption DEF IndInv, TypeOK, Notify
<1>2. NothingLost'
  BY DEF IndInv, TypeOK, NothingLost, InFlight, Notify
<1>. QED
  BY <1>1, <1>2 DEF IndInv

\* The writer takes the lock.
LEMMA WriterLockStep ==
  ASSUME IndInv, WriterLock
  PROVE  IndInv'
<1>1. TypeOK'
  BY LoggerAssumption DEF IndInv, TypeOK, WriterLock
<1>2. NothingLost'
  BY DEF IndInv, TypeOK, NothingLost, InFlight, WriterLock
<1>. QED
  BY <1>1, <1>2 DEF IndInv

\* The wait predicate moves no message.
LEMMA CheckStep ==
  ASSUME IndInv, Check
  PROVE  IndInv'
<1>1. TypeOK'
  BY LoggerAssumption DEF IndInv, TypeOK, Check
<1>2. NothingLost'
  BY DEF IndInv, TypeOK, NothingLost, InFlight, Check
<1>. QED
  BY <1>1, <1>2 DEF IndInv

\* The writer blocks.
LEMMA SleepStep ==
  ASSUME IndInv, Sleep
  PROVE  IndInv'
<1>1. TypeOK'
  BY LoggerAssumption DEF IndInv, TypeOK, Sleep
<1>2. NothingLost'
  BY DEF IndInv, TypeOK, NothingLost, InFlight, Sleep
<1>. QED
  BY <1>1, <1>2 DEF IndInv

\* The writer wakes up for no reason.
LEMMA SpuriousWakeupStep ==
  ASSUME IndInv, SpuriousWakeup
  PROVE  IndInv'
<1>1. TypeOK'
  BY LoggerAssumption DEF IndInv, TypeOK, SpuriousWakeup
<1>2. NothingLost'
  BY DEF IndInv, TypeOK, NothingLost, InFlight, SpuriousWakeup
<1>. QED
  BY <1>1, <1>2 DEF IndInv

\* Swapping the queues moves every message into the batch, because the local
\* queue was empty.
LEMMA TakeStep ==
  ASSUME IndInv, Take
  PROVE  IndInv'
<1>1. TypeOK'
  BY LoggerAssumption DEF IndInv, TypeOK, Take
<1>2. NothingLost'
  <2>1. CASE queue = <<>>
    BY <2>1 DEF IndInv, TypeOK, NothingLost, InFlight, Take
  <2>2. CASE queue # <<>>
    <3>1. /\ InFlight = <<>> /\ InFlight' = queue /\ queue' = <<>>
          /\ UNCHANGED <<pushed, written>>
      BY <2>2 DEF IndInv, TypeOK, InFlight, Take
    <3>2. <<>> \o queue = queue /\ queue \o <<>> = queue
      BY DEF IndInv, TypeOK
    <3>. QED
      BY <3>1, <3>2 DEF IndInv, NothingLost
  <2>. QED
    BY <2>1, <2>2
<1>. QED
  BY <1>1, <1>2 DEF IndInv

\* A sequence is what it begins with followed by the rest.
LEMMA SplitAnywhere ==
  ASSUME NEW s \in Seq(Producers), NEW n \in 0..Len(s)
  PROVE  /\ SubSeq(s, 1, n) \in Seq(Producers) /\ SubSeq(s, n + 1, Len(s)) \in Seq(Producers)
         /\ SubSeq(s, 1, n) \o SubSeq(s, n + 1, Len(s)) = s
<1>. DEFINE a == SubSeq(s, 1, n)
            b == SubSeq(s, n + 1, Len(s))
<1>1. n \in Nat /\ Len(s) \in Nat /\ n <= Len(s) /\ \A i \in 1..Len(s) : s[i] \in Producers
  OBVIOUS
<1>2. a \in Seq(Producers) /\ Len(a) = n /\ \A i \in 1..n : a[i] = s[i]
  BY <1>1
<1>3. b \in Seq(Producers) /\ Len(b) = Len(s) - n /\ \A i \in 1..(Len(s) - n) : b[i] = s[n + i]
  BY <1>1
<1>. HIDE DEF a, b
<1>4. a \o b = s
  <2>1. /\ a \o b \in Seq(Producers) /\ Len(a \o b) = Len(a) + Len(b)
        /\ \A i \in 1..(Len(a) + Len(b)) :
             (a \o b)[i] = IF i <= Len(a) THEN a[i] ELSE b[i - Len(a)]
    BY <1>2, <1>3, ConcatProperties
  <2>2. Len(a \o b) = Len(s) /\ Len(a) + Len(b) = Len(s)
    BY <1>1, <1>2, <1>3, <2>1
  <2>3. ASSUME NEW i \in 1..Len(s) PROVE (a \o b)[i] = s[i]
    <3>1. CASE i <= n
      BY <1>1, <1>2, <2>1, <2>2, <3>1
    <3>2. CASE n < i
      <4>1. i - n \in 1..(Len(s) - n) /\ n + (i - n) = i
        BY <1>1, <3>2
      <4>2. (a \o b)[i] = b[i - n]
        BY <1>1, <1>2, <2>1, <2>2, <3>2
      <4>3. b[i - n] = s[n + (i - n)]
        BY <1>3, <4>1
      <4>. QED
        BY <4>1, <4>2, <4>3
    <3>3. i <= n \/ n < i
      BY <1>1
    <3>. QED
      BY <3>1, <3>2, <3>3, Zenon
  <2>. QED
    BY <2>1, <2>2, <2>3, SeqEqual
<1>. QED
  BY <1>2, <1>3, <1>4 DEF a, b

\* Opening the file moves no message of this process.
LEMMA OpenStep ==
  ASSUME IndInv, Open
  PROVE  IndInv'
<1>1. TypeOK'
  <2>1. <<>> \in Seq(Producers)
    OBVIOUS
  <2>. QED
    BY <2>1, LoggerAssumption DEF IndInv, TypeOK, Open
<1>2. NothingLost'
  BY DEF IndInv, TypeOK, NothingLost, InFlight, Open
<1>. QED
  BY <1>1, <1>2 DEF IndInv

\* What precedes the batch precedes its first part.
LEMMA SplitAfter ==
  ASSUME NEW w \in Seq(Producers), NEW s \in Seq(Producers), NEW n \in 0..Len(s)
  PROVE  /\ w \o SubSeq(s, 1, n) \in Seq(Producers)
         /\ (w \o SubSeq(s, 1, n)) \o SubSeq(s, n + 1, Len(s)) = w \o s
<1>0. /\ SubSeq(s, 1, n) \in Seq(Producers) /\ SubSeq(s, n + 1, Len(s)) \in Seq(Producers)
      /\ SubSeq(s, 1, n) \o SubSeq(s, n + 1, Len(s)) = s
  BY SplitAnywhere, Zenon
<1>1. PICK a \in Seq(Producers), b \in Seq(Producers) :
        a = SubSeq(s, 1, n) /\ b = SubSeq(s, n + 1, Len(s)) /\ a \o b = s
  BY <1>0, Zenon
<1>2. w \o a \in Seq(Producers)
  OBVIOUS
<1>3. (w \o a) \o b = w \o (a \o b)
  BY ConcatAssociative
<1>. QED
  BY <1>1, <1>2, <1>3

\* The batch is divided between the end of the file and the stream.
LEMMA OutputStep ==
  ASSUME IndInv, Output
  PROVE  IndInv'
<1>1. PICK n \in 0..Len(writerQueue) :
        /\ written' = written \o SubSeq(writerQueue, 1, n)
        /\ buffered' = SubSeq(writerQueue, n + 1, Len(writerQueue))
  BY DEF Output
<1>2. writerQueue \in Seq(Producers) /\ written \in Seq(Producers)
  BY DEF IndInv, TypeOK
<1>3. /\ written' \in Seq(Producers) /\ buffered' \in Seq(Producers)
      /\ written' \o buffered' = written \o writerQueue
  <2>1. SubSeq(writerQueue, n + 1, Len(writerQueue)) \in Seq(Producers)
    BY <1>2, SplitAnywhere, Zenon
  <2>2. /\ written \o SubSeq(writerQueue, 1, n) \in Seq(Producers)
        /\ (written \o SubSeq(writerQueue, 1, n)) \o SubSeq(writerQueue, n + 1, Len(writerQueue))
           = written \o writerQueue
    BY <1>2, SplitAfter, Zenon
  <2>. QED
    BY <1>1, <2>1, <2>2, Zenon
<1>4. /\ wpc = "write" /\ wpc' = "flush"
      /\ UNCHANGED <<queue, writerQueue, due, mutex, waiting, opened, left, prodVars>>
  BY DEF Output
<1>5. TypeOK'
  BY <1>3, <1>4 DEF IndInv, TypeOK
<1>6. NothingLost'
  BY <1>3, <1>4 DEF IndInv, NothingLost, InFlight
<1>. QED
  BY <1>5, <1>6 DEF IndInv

\* The rest of the batch moves to the end of the file.
LEMMA FlushStep ==
  ASSUME IndInv, Flush
  PROVE  IndInv'
<1>1. TypeOK'
  <2>1. <<>> \in Seq(Producers)
    OBVIOUS
  <2>. QED
    BY <2>1, LoggerAssumption DEF IndInv, TypeOK, Flush
<1>2. NothingLost'
  BY DEF IndInv, TypeOK, NothingLost, InFlight, Flush
<1>. QED
  BY <1>1, <1>2 DEF IndInv

\* Clearing the local queue forgets only what has been written.
LEMMA StampStep ==
  ASSUME IndInv, Stamp
  PROVE  IndInv'
<1>1. TypeOK'
  <2>1. <<>> \in Seq(Producers)
    OBVIOUS
  <2>. QED
    BY <2>1 DEF IndInv, TypeOK, Stamp
<1>2. NothingLost'
  BY DEF IndInv, TypeOK, NothingLost, InFlight, Stamp
<1>. QED
  BY <1>1, <1>2 DEF IndInv

\* A new process begins like the first one; only the file is kept.
LEMMA RestartStep ==
  ASSUME IndInv, Restart
  PROVE  IndInv'
<1>1. TypeOK'
  <2>1. <<>> \in Seq(Producers) /\ left \o written \in Seq(Producers)
    BY DEF IndInv, TypeOK
  <2>. QED
    BY <2>1 DEF Restart, TypeOK
<1>2. NothingLost'
  BY DEF Restart, NothingLost, InFlight
<1>. QED
  BY <1>1, <1>2 DEF IndInv

\* Every queue starts empty.
LEMMA InitInv == Init => IndInv
<1>. SUFFICES ASSUME Init PROVE IndInv
  OBVIOUS
<1>1. TypeOK
  <2>1. <<>> \in Seq(Producers)
    OBVIOUS
  <2>. QED
    BY <2>1 DEF Init, TypeOK
<1>2. NothingLost
  BY DEF Init, NothingLost, InFlight
<1>. QED
  BY <1>1, <1>2 DEF IndInv

\* The invariant always holds.
LEMMA Invariance == Spec => []IndInv
<1>1. IndInv /\ [Next]_vars => IndInv'
  <2>. SUFFICES ASSUME IndInv, [Next]_vars PROVE IndInv'
    OBVIOUS
  <2>1. CASE UNCHANGED vars
    BY <2>1 DEF IndInv, TypeOK, NothingLost, InFlight
  <2>. QED
    BY <2>1, TickStep, PushLockStep, PushStep, NotifyStep, WriterLockStep, CheckStep, SleepStep,
       SpuriousWakeupStep, TakeStep, OpenStep, OutputStep, FlushStep, StampStep, RestartStep
    DEF Next, ProducerStep, WriterStep
<1>. QED
  BY <1>1, InitInv, PTL DEF Spec

\* PushLog and LogWriting: the file followed by the batch in flight and the
\* queue is always the sequence of messages pushed.
THEOREM LogSafety == Spec => []NothingLost
<1>1. IndInv => NothingLost
  BY DEF IndInv
<1>. QED
  BY <1>1, Invariance, PTL

\* Every variable keeps its type, and the writer's local queue is empty
\* whenever it swaps.
THEOREM TypeCorrect == Spec => []TypeOK
<1>1. IndInv => TypeOK
  BY DEF IndInv
<1>. QED
  BY <1>1, Invariance, PTL

-----------------------------------------------------------------------------
\* A process that has opened the file has removed what others had left, and
\* one that has not has put nothing into it.
OneProcess ==
  /\ opened => left = <<>>
  /\ ~ opened => written = <<>>
  /\ wpc = "flush" => opened

\* A step other than those of StreamWriter and Restart leaves the file alone.
LEMMA FileUntouched ==
  ASSUME [Next]_vars
  PROVE  UNCHANGED fileVars \/ Open \/ Output \/ Flush \/ Restart
BY DEF Next, ProducerStep, WriterStep, Tick, PushLock, Push, Notify, WriterLock, Check, Sleep,
       SpuriousWakeup, Take, Stamp

\* A sequence is a prefix of itself and of what is appended to it.
LEMMA PrefixOfConcat ==
  ASSUME NEW s \in Seq(Producers), NEW t \in Seq(Producers)
  PROVE  IsPrefix(s, s) /\ IsPrefix(s, s \o t)
<1>1. /\ s \o t \in Seq(Producers) /\ Len(s \o t) = Len(s) + Len(t)
      /\ Len(s) \in Nat /\ Len(t) \in Nat
  OBVIOUS
<1>2. SubSeq(s \o t, 1, Len(s)) = SubSeq(s, 1, Len(s))
  <2>1. CASE Len(s) = 0
    BY <2>1, <1>1, SubSeqEmpty
  <2>2. CASE Len(s) # 0
    BY <2>2, <1>1, SubSeqOfConcat1
  <2>. QED
    BY <2>1, <2>2
<1>. QED
  BY <1>1, <1>2 DEF IsPrefix

\* StreamWriter (logger.cc 67-88): what is in the file leaves it only in the
\* step in which a process started later opens it, whenever processes stop.
THEOREM FileSafety == Spec => FlushedStays
<1>. DEFINE Stays == \/ IsPrefix(File, File')
                     \/ ~ opened /\ opened' /\ File' = <<>>
<1>1. Init => OneProcess
  BY DEF Init, OneProcess
<1>2. OneProcess /\ [Next]_vars => OneProcess'
  <2>. SUFFICES ASSUME OneProcess, [Next]_vars PROVE OneProcess'
    OBVIOUS
  <2>1. wpc' = "flush" => opened'
    BY DEF OneProcess, Next, ProducerStep, WriterStep, Tick, PushLock, Push, Notify, WriterLock,
           Check, Sleep, SpuriousWakeup, Take, Open, Output, Flush, Stamp, Restart
  <2>2. CASE UNCHANGED fileVars
    BY <2>1, <2>2 DEF OneProcess
  <2>3. CASE Open \/ Output \/ Flush \/ Restart
    BY <2>1, <2>3 DEF Open, Output, Flush, Restart, OneProcess
  <2>. QED
    BY <2>2, <2>3, FileUntouched
<1>3. IndInv /\ OneProcess /\ [Next]_vars => [Stays]_vars
  <2>. SUFFICES ASSUME IndInv, OneProcess, [Next]_vars PROVE Stays
    OBVIOUS
  <2>1. /\ left \in Seq(Producers) /\ written \in Seq(Producers)
        /\ writerQueue \in Seq(Producers) /\ buffered \in Seq(Producers)
        /\ File \in Seq(Producers)
    BY DEF IndInv, TypeOK, File
  <2>2. CASE UNCHANGED fileVars
    BY <2>1, <2>2, PrefixOfConcat DEF File
  <2>3. CASE Open
    BY <2>3 DEF Open, OneProcess, File
  <2>4. CASE Output
    <3>1. PICK n \in 0..Len(writerQueue) : written' = written \o SubSeq(writerQueue, 1, n)
      BY <2>4 DEF Output
    <3>2. SubSeq(writerQueue, 1, n) \in Seq(Producers)
      BY <2>1, SplitAnywhere
    <3>3. left = <<>> /\ left' = <<>>
      BY <2>4 DEF Output, OneProcess
    <3>4. written' \in Seq(Producers)
      BY <2>1, <3>1, <3>2
    <3>5. File = written /\ File' = written'
      BY <2>1, <3>3, <3>4 DEF File
    <3>. QED
      BY <2>1, <3>1, <3>2, <3>5, PrefixOfConcat
  <2>5. CASE Flush
    <3>1. File = written /\ File' = written \o buffered
      BY <2>1, <2>5 DEF Flush, OneProcess, File
    <3>. QED
      BY <2>1, <3>1, PrefixOfConcat
  <2>6. CASE Restart
    <3>1. File' = File
      BY <2>1, <2>6 DEF Restart, File
    <3>. QED
      BY <2>1, <3>1, PrefixOfConcat
  <2>. QED
    BY <2>2, <2>3, <2>4, <2>5, <2>6, FileUntouched
<1>. QED
  BY <1>1, <1>2, <1>3, Invariance, PTL DEF Spec, FlushedStays
=============================================================================
