------------------------------- MODULE Logger -------------------------------
(***************************************************************************)
(* The asynchronous logger: producers push under mtx_ and notify when a    *)
(* flush is due; the writer thread waits on cv_, swaps the queue out and   *)
(* writes it.  Time is abstracted to whether more than                     *)
(* kRefreshThresholdDuration has passed since last_flush_.  The logger is  *)
(* a NoDestructor, so done_ is never set: the process ends by being        *)
(* stopped, at any point, and is started again on the same day, so that    *)
(* its log file has the same name.                                         *)
(***************************************************************************)
EXTENDS Naturals, Sequences, SequencesExt

CONSTANTS
  Producers,  \* the threads that call LogMsg
  Writer,     \* log_writer_
  Threshold,  \* kThreshold
  MaxLogs,    \* bound: messages pushed
  Nil

ASSUME LoggerAssumption ==
  /\ Threshold \in Nat /\ MaxLogs \in Nat
  /\ Writer \notin Producers /\ Nil \notin Producers \cup {Writer}

VARIABLES
  queue,        \* queue_; a message is named by its producer
  writerQueue,  \* writer_queue
  due,          \* now - last_flush_ > kRefreshThresholdDuration
  mutex,        \* the holder of mtx_
  waiting,      \* the writer is blocked in cv_.wait
  wpc, ppc,     \* control points of the writer and of the producers
  should,       \* should[p]: should_notify
  pushed,       \* history: the messages pushed, in order
  opened,       \* the static StreamWriter has been constructed
  buffered,     \* what the stream f_ holds back until the flush
  written,      \* what this process has put into the log file
  left          \* what the file still holds of an earlier process

prodVars == <<ppc, should, pushed>>
fileVars == <<opened, buffered, written, left>>
vars == <<queue, writerQueue, due, mutex, waiting, wpc, fileVars, prodVars>>

Init ==
  /\ queue = <<>> /\ writerQueue = <<>>
  /\ due = FALSE
  /\ mutex = Nil
  /\ waiting = FALSE
  /\ wpc = "lock" /\ ppc = [p \in Producers |-> "idle"]
  /\ should = [p \in Producers |-> FALSE]
  /\ opened = FALSE /\ buffered = <<>>
  /\ pushed = <<>> /\ written = <<>> /\ left = <<>>

\* Time passes.
Tick ==
  /\ ~ due
  /\ due' = TRUE
  /\ UNCHANGED <<queue, writerQueue, mutex, waiting, wpc, fileVars, prodVars>>

-----------------------------------------------------------------------------
(* LogMsg and PushLog                                                      *)

\* LogMsg has built the message and PushLog takes the lock.
PushLock(p) ==
  /\ ppc[p] = "idle" /\ Len(pushed) < MaxLogs /\ mutex = Nil
  /\ mutex' = p
  /\ ppc' = [ppc EXCEPT ![p] = "push"]
  /\ UNCHANGED <<queue, writerQueue, due, waiting, wpc, fileVars, should, pushed>>

\* Variant: only the time is looked at.
PushNoThreshold(p) ==
  /\ ppc[p] = "push"
  /\ queue' = Append(queue, p)
  /\ pushed' = Append(pushed, p)
  /\ should' = [should EXCEPT ![p] = due]
  /\ mutex' = Nil
  /\ ppc' = [ppc EXCEPT ![p] = "notify"]
  /\ UNCHANGED <<writerQueue, due, waiting, wpc, fileVars>>

Push(p) ==
  /\ ppc[p] = "push"
  /\ queue' = Append(queue, p)
  /\ pushed' = Append(pushed, p)
  /\ should' = [should EXCEPT ![p] = due \/ Len(queue') > Threshold]
  /\ mutex' = Nil
  /\ ppc' = [ppc EXCEPT ![p] = "notify"]
  /\ UNCHANGED <<writerQueue, due, waiting, wpc, fileVars>>

\* notify_one, if the flush criteria were met; the call returns.
Notify(p) ==
  /\ ppc[p] = "notify"
  /\ IF should[p] /\ waiting
       THEN waiting' = FALSE /\ wpc' = "lock"
       ELSE UNCHANGED <<waiting, wpc>>
  /\ ppc' = [ppc EXCEPT ![p] = "idle"]
  /\ should' = [should EXCEPT ![p] = FALSE]
  /\ UNCHANGED <<queue, writerQueue, due, mutex, fileVars, pushed>>

-----------------------------------------------------------------------------
(* LogWriting                                                              *)

WriterLock ==
  /\ wpc = "lock" /\ mutex = Nil
  /\ mutex' = Writer
  /\ wpc' = "check"
  /\ UNCHANGED <<queue, writerQueue, due, waiting, fileVars, prodVars>>

\* The wait predicate.
Check ==
  /\ wpc = "check"
  /\ wpc' = IF due \/ Len(queue) > Threshold THEN "take" ELSE "sleep"
  /\ UNCHANGED <<queue, writerQueue, due, mutex, waiting, fileVars, prodVars>>

Sleep ==
  /\ wpc = "sleep"
  /\ mutex' = Nil
  /\ waiting' = TRUE
  /\ wpc' = "waiting"
  /\ UNCHANGED <<queue, writerQueue, due, fileVars, prodVars>>

SpuriousWakeup ==
  /\ waiting
  /\ waiting' = FALSE
  /\ wpc' = "lock"
  /\ UNCHANGED <<queue, writerQueue, due, mutex, fileVars, prodVars>>

\* The queues are swapped and the lock is released; with nothing to write
\* the loop goes round at once, for as long as the flush stays due.
Take ==
  /\ wpc = "take"
  /\ IF queue = <<>>
       THEN wpc' = "lock" /\ UNCHANGED <<queue, writerQueue>>
       ELSE /\ wpc' = "write"
            /\ queue' = writerQueue /\ writerQueue' = queue
  /\ mutex' = Nil
  /\ UNCHANGED <<due, waiting, fileVars, prodVars>>

\* Variant: the file is opened for every batch.
OutputReopens ==
  /\ wpc = "write" /\ opened
  /\ \E n \in 0..Len(writerQueue) :
       /\ written' = SubSeq(writerQueue, 1, n)
       /\ buffered' = SubSeq(writerQueue, n + 1, Len(writerQueue))
  /\ wpc' = "flush"
  /\ UNCHANGED <<queue, writerQueue, due, mutex, waiting, opened, left, prodVars>>

\* The first batch constructs the static StreamWriter, which opens the file of
\* the day with trunc.
Open ==
  /\ wpc = "write" /\ ~ opened
  /\ opened' = TRUE
  /\ left' = <<>>
  /\ UNCHANGED <<queue, writerQueue, due, mutex, waiting, wpc, buffered, written, prodVars>>

\* WriteLogs puts the batch into the stream, whose buffer spills over into the
\* file whenever it is full: any number of the messages are in the file.
Output ==
  /\ wpc = "write" /\ opened
  /\ \E n \in 0..Len(writerQueue) :
       /\ written' = written \o SubSeq(writerQueue, 1, n)
       /\ buffered' = SubSeq(writerQueue, n + 1, Len(writerQueue))
  /\ wpc' = "flush"
  /\ UNCHANGED <<queue, writerQueue, due, mutex, waiting, opened, left, prodVars>>

\* f_.flush
Flush ==
  /\ wpc = "flush"
  /\ written' = written \o buffered
  /\ buffered' = <<>>
  /\ wpc' = "stamp"
  /\ UNCHANGED <<queue, writerQueue, due, mutex, waiting, opened, left, prodVars>>

\* Variant: writer_queue keeps its messages.
StampNoClear ==
  /\ wpc = "stamp"
  /\ due' = FALSE
  /\ wpc' = "lock"
  /\ UNCHANGED <<queue, writerQueue, mutex, waiting, fileVars, prodVars>>

\* last_flush_ is set, without the lock, and writer_queue is cleared.
Stamp ==
  /\ wpc = "stamp"
  /\ due' = FALSE
  /\ writerQueue' = <<>>
  /\ wpc' = "lock"
  /\ UNCHANGED <<queue, mutex, waiting, fileVars, prodVars>>

-----------------------------------------------------------------------------
\* The process ends, without a destructor, and is started again: the logger
\* is constructed anew and nothing but the file is left, without what its
\* stream held back.
Restart ==
  /\ left' = left \o written /\ written' = <<>>
  /\ opened' = FALSE /\ buffered' = <<>>
  /\ queue' = <<>> /\ writerQueue' = <<>>
  /\ due' = FALSE
  /\ mutex' = Nil
  /\ waiting' = FALSE
  /\ wpc' = "lock" /\ ppc' = [p \in Producers |-> "idle"]
  /\ should' = [p \in Producers |-> FALSE]
  /\ pushed' = <<>>

-----------------------------------------------------------------------------
ProducerStep(p) == Push(p) \/ Notify(p)
WriterStep == WriterLock \/ Check \/ Sleep \/ Take \/ Open \/ Output \/ Flush \/ Stamp

Next ==
  \/ Tick
  \/ \E p \in Producers : PushLock(p) \/ ProducerStep(p)
  \/ WriterStep
  \/ SpuriousWakeup
  \/ Restart

Spec == Init /\ [][Next]_vars

\* Time passes, threads run, and the writer obtains a mutex that is free again
\* and again.  Nobody need log anything, no spurious wakeup and no restart is owed.
Fairness ==
  /\ WF_vars(Tick)
  /\ \A p \in Producers : WF_vars(ProducerStep(p))
  /\ WF_vars(WriterStep) /\ SF_vars(WriterLock)

FairSpec == Spec /\ Fairness

-----------------------------------------------------------------------------
(* Properties.                                                             *)

\* Every variable keeps its type, the writer is in the wait set exactly while
\* it is blocked, and its local queue is empty outside the write.
TypeOK ==
  /\ queue \in Seq(Producers) /\ writerQueue \in Seq(Producers)
  /\ pushed \in Seq(Producers) /\ buffered \in Seq(Producers)
  /\ written \in Seq(Producers) /\ left \in Seq(Producers)
  /\ due \in BOOLEAN /\ waiting \in BOOLEAN /\ opened \in BOOLEAN
  /\ mutex \in Producers \cup {Writer, Nil}
  /\ wpc \in {"lock", "check", "sleep", "waiting", "take", "write", "flush", "stamp"}
  /\ ppc \in [Producers -> {"idle", "push", "notify"}]
  /\ should \in [Producers -> BOOLEAN]
  /\ waiting <=> wpc = "waiting"
  /\ wpc \notin {"write", "flush", "stamp"} => writerQueue = <<>>

\* What has been swapped out and is not yet in the file.
InFlight ==
  CASE wpc = "write" -> writerQueue
    [] wpc = "flush" -> buffered
    [] OTHER -> <<>>

\* The file, the batch in flight and the queue together are exactly what was
\* pushed, in order: swapping the queues loses, repeats and reorders nothing.
NothingLost == pushed = (written \o InFlight) \o queue

File == left \o written

\* What is in the file stays there, through every batch and through stops at any
\* point, except in the one step in which a new process opens the file of the
\* same day for its first batch.  That step empties the file and puts nothing
\* into it: a stop before the first flush can leave a file without a message.
FlushedStays ==
  [][ \/ IsPrefix(File, File')
      \/ ~ opened /\ opened' /\ File' = <<>> ]_vars

\* A queue beyond the threshold is written in the end, whoever is waiting,
\* unless the process ends first.
ThresholdFlushed ==
  \A n \in 1..MaxLogs :
    (Len(pushed) = n /\ Len(queue) > Threshold) ~> (Len(written) >= n \/ pushed = <<>>)

\* "a backend worker thread periodically flush the log to persistent storage":
\* whatever is logged reaches the file in the end, unless the process ends first.
PeriodicFlush ==
  \A n \in 1..MaxLogs : (Len(pushed) = n) ~> (Len(written) >= n \/ pushed = <<>>)
=============================================================================
