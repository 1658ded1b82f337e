------------------------- MODULE ThreadPool_proofs -------------------------
(***************************************************************************)
(* Safety of the thread pool for any number of workers and tasks: IndInv   *)
(* is inductive, proved action by action.                                  *)
(***************************************************************************)
EXTENDS ThreadPool, FiniteSetTheorems, TLAPS

USE DEF vars, poolVars, threadVars, historyVars

\* Appending to a history adds one element.
LEMMA ElementsAppend ==
  ASSUME NEW S, NEW s \in Seq(S), NEW e \in S
  PROVE  Elements(Append(s, e)) = Elements(s) \cup {e}
<1>. DEFINE a == Append(s, e)
<1>1. /\ Len(s) \in Nat /\ DOMAIN s = 1..Len(s) /\ DOMAIN a = 1..(Len(s) + 1)
      /\ \A i \in 1..Len(s) : a[i] = s[i]
      /\ a[Len(s) + 1] = e
  OBVIOUS
<1>2. ASSUME NEW x \in Elements(a) PROVE x \in Elements(s) \cup {e}
  BY <1>1 DEF Elements
<1>3. ASSUME NEW x \in Elements(s) PROVE x \in Elements(a)
  <2>1. PICK i \in 1..Len(s) : x = s[i]
    BY <1>1 DEF Elements
  <2>2. i \in DOMAIN a /\ a[i] = x
    BY <1>1, <2>1
  <2>. QED
    BY <2>2 DEF Elements
<1>4. e \in Elements(a)
  BY <1>1 DEF Elements
<1>. HIDE DEF a
<1>. QED
  BY <1>2, <1>3, <1>4 DEF a

\* The owner calls SubmitTask with a task of its own.
LEMMA OwnerSubmitsStep ==
  ASSUME IndInv, NEW t \in Tasks, OwnerSubmits(t)
  PROVE  IndInv'
<1>1. TypeOK'
  BY ThreadPoolAssumption
  DEF IndInv, TypeOK, Stages, WorkerLabels, SubmitLabels, OwnerLabels, Threads, OwnerSubmits,
      Goto
<1>2. FifoOnce'
  BY
  DEF IndInv, FifoOnce, TypeOK, Stages, WorkerLabels, SubmitLabels, OwnerLabels, Threads,
      OwnerSubmits, Goto
<1>3. Accounted'
  BY ThreadPoolAssumption
  DEF IndInv, Accounted, Busy, Elements, TypeOK, Stages, WorkerLabels, SubmitLabels,
      OwnerLabels, Threads, OwnerSubmits, Goto
<1>4. Stages'
  BY ThreadPoolAssumption
  DEF IndInv, TypeOK, Stages, WorkerLabels, SubmitLabels, OwnerLabels, Threads, OwnerSubmits,
      Goto
<1>. QED
  BY <1>1, <1>2, <1>3, <1>4 DEF IndInv

\* A running task calls SubmitTask; its worker stays busy with it.
LEMMA TaskSubmitsStep ==
  ASSUME IndInv, NEW w \in Workers, TaskSubmits(w)
  PROVE  IndInv'
<1>0. w # Owner /\ task[w] \in Tasks /\ Spawn[task[w]] \in Tasks
  BY ThreadPoolAssumption DEF IndInv, TypeOK, Accounted, Busy, TaskSubmits
<1>1. TypeOK'
  BY <1>0
  DEF IndInv, TypeOK, Stages, WorkerLabels, SubmitLabels, OwnerLabels, Threads, TaskSubmits,
      Goto
<1>2. FifoOnce'
  BY
  DEF IndInv, FifoOnce, TypeOK, Stages, WorkerLabels, SubmitLabels, OwnerLabels, Threads,
      TaskSubmits, Goto
<1>3. Accounted'
  BY ThreadPoolAssumption
  DEF IndInv, Accounted, Busy, Elements, TypeOK, Stages, WorkerLabels, SubmitLabels,
      OwnerLabels, Threads, TaskSubmits, Goto
<1>4. Stages'
  BY <1>0, ThreadPoolAssumption
  DEF IndInv, TypeOK, Stages, WorkerLabels, SubmitLabels, OwnerLabels, Threads, TaskSubmits,
      Goto
<1>. QED
  BY <1>1, <1>2, <1>3, <1>4 DEF IndInv

\* SubmitTask takes queue_mutex_.
LEMMA SubmitLockStep ==
  ASSUME IndInv, NEW p \in Threads, SubmitLock(p)
  PROVE  IndInv'
<1>1. TypeOK'
  BY ThreadPoolAssumption
  DEF IndInv, TypeOK, Stages, WorkerLabels, SubmitLabels, OwnerLabels, Threads, SubmitLock,
      Goto
<1>2. FifoOnce'
  BY
  DEF IndInv, FifoOnce, TypeOK, Stages, WorkerLabels, SubmitLabels, OwnerLabels, Threads,
      SubmitLock, Goto
<1>3. Accounted'
  BY ThreadPoolAssumption
  DEF IndInv, Accounted, Busy, Elements, TypeOK, Stages, WorkerLabels, SubmitLabels,
      OwnerLabels, Threads, SubmitLock, Goto
<1>4. Stages'
  BY ThreadPoolAssumption
  DEF IndInv, TypeOK, Stages, WorkerLabels, SubmitLabels, OwnerLabels, Threads, SubmitLock,
      Goto
<1>. QED
  BY <1>1, <1>2, <1>3, <1>4 DEF IndInv

\* A task is queued before the pool stops, hence before any worker has left.
LEMMA PushStep ==
  ASSUME IndInv, NEW p \in Threads, Push(p)
  PROVE  IndInv'
<1>1. TypeOK'
  BY ThreadPoolAssumption
  DEF IndInv, TypeOK, Stages, WorkerLabels, SubmitLabels, OwnerLabels, Threads, Push, Goto
<1>2. FifoOnce'
  BY
  DEF IndInv, FifoOnce, TypeOK, Stages, WorkerLabels, SubmitLabels, OwnerLabels, Threads,
      Push, Goto
<1>3. Accounted'
  BY ThreadPoolAssumption
  DEF IndInv, Accounted, Busy, Elements, TypeOK, Stages, WorkerLabels, SubmitLabels,
      OwnerLabels, Threads, Push, Goto
<1>4. Stages'
  BY ThreadPoolAssumption
  DEF IndInv, TypeOK, Stages, WorkerLabels, SubmitLabels, OwnerLabels, Threads, Push, Goto
<1>. QED
  BY <1>1, <1>2, <1>3, <1>4 DEF IndInv

\* A stopped pool refuses the task and the queue stays as it is.
LEMMA ThrowStep ==
  ASSUME IndInv, NEW p \in Threads, Throw(p)
  PROVE  IndInv'
<1>1. TypeOK'
  BY ThreadPoolAssumption
  DEF IndInv, TypeOK, Stages, WorkerLabels, SubmitLabels, OwnerLabels, Threads, Throw, Goto,
      Returned
<1>2. FifoOnce'
  BY
  DEF IndInv, FifoOnce, TypeOK, Stages, WorkerLabels, SubmitLabels, OwnerLabels, Threads,
      Throw, Goto, Returned
<1>3. Accounted'
  BY ThreadPoolAssumption
  DEF IndInv, Accounted, Busy, Elements, TypeOK, Stages, WorkerLabels, SubmitLabels,
      OwnerLabels, Threads, Throw, Goto, Returned
<1>4. Stages'
  BY ThreadPoolAssumption
  DEF IndInv, TypeOK, Stages, WorkerLabels, SubmitLabels, OwnerLabels, Threads, Throw, Goto,
      Returned
<1>. QED
  BY <1>1, <1>2, <1>3, <1>4 DEF IndInv

\* notify_one sends at most one waiter back to the mutex.
LEMMA NotifyStep ==
  ASSUME IndInv, NEW p \in Threads, Notify(p)
  PROVE  IndInv'
<1>. DEFINE back == IF p = Owner THEN "idle" ELSE "finish"
<1>1. /\ pc \in [Threads -> WorkerLabels \cup SubmitLabels \cup OwnerLabels]
      /\ pc[p] = "notify" /\ p \notin waiting /\ waiting \subseteq Workers
      /\ UNCHANGED <<queue, stop, mutex, task, arg, historyVars>>
  BY ThreadPoolAssumption DEF IndInv, TypeOK, Stages, Threads, Notify
<1>2. PICK W \in SUBSET waiting :
        /\ waiting' = waiting \ W
        /\ pc' = [q \in Threads |-> IF q = p THEN back ELSE IF q \in W THEN "lock" ELSE pc[q]]
  <2>1. CASE waiting = {}
    BY <1>1, <2>1 DEF Notify, Returned, Goto
  <2>2. ASSUME NEW w \in waiting, waiting' = waiting \ {w},
               pc' = [pc EXCEPT ![p] = back, ![w] = "lock"]
        PROVE  \E W \in SUBSET waiting :
                 /\ waiting' = waiting \ W
                 /\ pc' = [q \in Threads |->
                             IF q = p THEN back ELSE IF q \in W THEN "lock" ELSE pc[q]]
    <3>1. w # p /\ w \in Threads
      BY <1>1 DEF Threads
    <3>2. pc' = [q \in Threads |-> IF q = p THEN back ELSE IF q \in {w} THEN "lock" ELSE pc[q]]
      BY <1>1, <2>2, <3>1
    <3>. QED
      BY <2>2, <3>2
  <2>. QED
    BY <2>1, <2>2 DEF Notify
<1>3. TypeOK'
  BY <1>1, <1>2 DEF IndInv, TypeOK, WorkerLabels, SubmitLabels, OwnerLabels, Threads
<1>4. FifoOnce'
  BY <1>1 DEF IndInv, FifoOnce
<1>5. \A v \in Workers : Busy(v)' <=> Busy(v)
  BY <1>1, <1>2, ThreadPoolAssumption DEF IndInv, Stages, Busy, SubmitLabels, Threads
<1>6. Accounted'
  BY <1>1, <1>5 DEF IndInv, Accounted, Elements
<1>7. Stages'
  BY <1>1, <1>2, ThreadPoolAssumption
  DEF IndInv, Stages, WorkerLabels, SubmitLabels, OwnerLabels, Threads
<1>. QED
  BY <1>3, <1>4, <1>6, <1>7 DEF IndInv

\* A worker takes queue_mutex_.
LEMMA LockStep ==
  ASSUME IndInv, NEW w \in Workers, Lock(w)
  PROVE  IndInv'
<1>1. TypeOK'
  BY ThreadPoolAssumption
  DEF IndInv, TypeOK, Stages, WorkerLabels, SubmitLabels, OwnerLabels, Threads, Lock, Goto
<1>2. FifoOnce'
  BY
  DEF IndInv, FifoOnce, TypeOK, Stages, WorkerLabels, SubmitLabels, OwnerLabels, Threads,
      Lock, Goto
<1>3. Accounted'
  <2>1. \A v \in Workers : Busy(v)' <=> Busy(v)
    BY ThreadPoolAssumption
    DEF IndInv, TypeOK, Stages, WorkerLabels, SubmitLabels, OwnerLabels, Threads, Busy, Lock,
        Goto
  <2>. QED
    BY <2>1 DEF IndInv, Accounted, Elements, Lock
<1>4. Stages'
  BY ThreadPoolAssumption
  DEF IndInv, TypeOK, Stages, WorkerLabels, SubmitLabels, OwnerLabels, Threads, Lock, Goto
<1>. QED
  BY <1>1, <1>2, <1>3, <1>4 DEF IndInv

\* The wait predicate only moves the control point.
LEMMA CheckStep ==
  ASSUME IndInv, NEW w \in Workers, Check(w)
  PROVE  IndInv'
<1>1. TypeOK'
  BY ThreadPoolAssumption
  DEF IndInv, TypeOK, Stages, WorkerLabels, SubmitLabels, OwnerLabels, Threads, Check, Goto
<1>2. FifoOnce'
  BY
  DEF IndInv, FifoOnce, TypeOK, Stages, WorkerLabels, SubmitLabels, OwnerLabels, Threads,
      Check, Goto
<1>3. Accounted'
  BY ThreadPoolAssumption
  DEF IndInv, Accounted, Busy, Elements, TypeOK, Stages, WorkerLabels, SubmitLabels,
      OwnerLabels, Threads, Check, Goto
<1>4. Stages'
  BY ThreadPoolAssumption
  DEF IndInv, TypeOK, Stages, WorkerLabels, SubmitLabels, OwnerLabels, Threads, Check, Goto
<1>. QED
  BY <1>1, <1>2, <1>3, <1>4 DEF IndInv

\* A worker blocks on condition_.
LEMMA SleepStep ==
  ASSUME IndInv, NEW w \in Workers, Sleep(w)
  PROVE  IndInv'
<1>1. TypeOK'
  BY ThreadPoolAssumption
  DEF IndInv, TypeOK, Stages, WorkerLabels, SubmitLabels, OwnerLabels, Threads, Sleep, Goto
<1>2. FifoOnce'
  BY
  DEF IndInv, FifoOnce, TypeOK, Stages, WorkerLabels, SubmitLabels, OwnerLabels, Threads,
      Sleep, Goto
<1>3. Accounted'
  BY ThreadPoolAssumption
  DEF IndInv, Accounted, Busy, Elements, TypeOK, Stages, WorkerLabels, SubmitLabels,
      OwnerLabels, Threads, Sleep, Goto
<1>4. Stages'
  BY ThreadPoolAssumption
  DEF IndInv, TypeOK, Stages, WorkerLabels, SubmitLabels, OwnerLabels, Threads, Sleep, Goto
<1>. QED
  BY <1>1, <1>2, <1>3, <1>4 DEF IndInv

\* A worker wakes up for no reason and will check again.
LEMMA SpuriousWakeupStep ==
  ASSUME IndInv, NEW w \in Workers, SpuriousWakeup(w)
  PROVE  IndInv'
<1>1. TypeOK'
  BY ThreadPoolAssumption
  DEF IndInv, TypeOK, Stages, WorkerLabels, SubmitLabels, OwnerLabels, Threads,
      SpuriousWakeup, Goto
<1>2. FifoOnce'
  BY
  DEF IndInv, FifoOnce, TypeOK, Stages, WorkerLabels, SubmitLabels, OwnerLabels, Threads,
      SpuriousWakeup, Goto
<1>3. Accounted'
  <2>1. \A v \in Workers : Busy(v)' <=> Busy(v)
    BY ThreadPoolAssumption
    DEF IndInv, TypeOK, Stages, WorkerLabels, SubmitLabels, OwnerLabels, Threads, Busy,
        SpuriousWakeup, Goto
  <2>. QED
    BY <2>1 DEF IndInv, Accounted, Elements, SpuriousWakeup
<1>4. Stages'
  BY ThreadPoolAssumption
  DEF IndInv, TypeOK, Stages, WorkerLabels, SubmitLabels, OwnerLabels, Threads,
      SpuriousWakeup, Goto
<1>. QED
  BY <1>1, <1>2, <1>3, <1>4 DEF IndInv

\* A worker leaves when the pool is stopped and its queue empty.
LEMMA ExitStep ==
  ASSUME IndInv, NEW w \in Workers, Exit(w)
  PROVE  IndInv'
<1>1. TypeOK'
  BY ThreadPoolAssumption
  DEF IndInv, TypeOK, Stages, WorkerLabels, SubmitLabels, OwnerLabels, Threads, Exit, Goto
<1>2. FifoOnce'
  BY
  DEF IndInv, FifoOnce, TypeOK, Stages, WorkerLabels, SubmitLabels, OwnerLabels, Threads,
      Exit, Goto
<1>3. Accounted'
  <2>1. /\ UNCHANGED <<task, started, ran>>
        /\ pc[w] = "take" /\ pc' = [pc EXCEPT ![w] = "exited"]
    BY DEF Exit, Goto, historyVars
  <2>2. \A v \in Workers : Busy(v)' <=> Busy(v)
    BY <2>1 DEF IndInv, TypeOK, Threads, Busy, SubmitLabels
  <2>. QED
    BY <2>1, <2>2 DEF IndInv, Accounted, Elements
<1>4. Stages'
  BY ThreadPoolAssumption
  DEF IndInv, TypeOK, Stages, WorkerLabels, SubmitLabels, OwnerLabels, Threads, Exit, Goto
<1>. QED
  BY <1>1, <1>2, <1>3, <1>4 DEF IndInv

\* The front task moves from the queue to the worker.
LEMMA TakeStep ==
  ASSUME IndInv, NEW w \in Workers, Take(w)
  PROVE  IndInv'
<1>1. TypeOK'
  BY ThreadPoolAssumption
  DEF IndInv, TypeOK, Stages, WorkerLabels, SubmitLabels, OwnerLabels, Threads, Take, Goto
<1>2. FifoOnce'
  BY
  DEF IndInv, FifoOnce, TypeOK, Stages, WorkerLabels, SubmitLabels, OwnerLabels, Threads,
      Take, Goto
<1>3. Accounted'
  <2>1. /\ queue \in Seq(Tasks) /\ queue # <<>> /\ started \in Seq(Tasks)
        /\ task' = [task EXCEPT ![w] = Head(queue)]
        /\ started' = Append(started, Head(queue)) /\ ran' = ran
        /\ pc' = [pc EXCEPT ![w] = "run"] /\ pc[w] = "take"
    BY DEF IndInv, TypeOK, Take, Goto
  <2>2. Head(queue) \in Tasks
    BY <2>1
  <2>3. Elements(started') = Elements(started) \cup {Head(queue)}
    BY <2>1, <2>2, ElementsAppend
  <2>4. task[w] = Nil
    BY <2>1 DEF IndInv, Accounted, Busy, SubmitLabels
  <2>5. \A v \in Workers : v # w => task'[v] = task[v] /\ (Busy(v)' <=> Busy(v))
    BY <2>1 DEF IndInv, TypeOK, Busy, Threads
  <2>6. task'[w] = Head(queue) /\ Busy(w)'
    BY <2>1 DEF IndInv, TypeOK, Busy, Threads
  <2>. QED
    <3>1. ASSUME NEW t \in Elements(started') PROVE t \in ran' \/ \E v \in Workers : task'[v] = t
      <4>1. CASE t = Head(queue)
        BY <2>6, <4>1
      <4>2. CASE t # Head(queue)
        <5>1. t \in Elements(started) /\ t # Nil
          BY <2>1, <2>3, <3>1, <4>2, ThreadPoolAssumption DEF Elements
        <5>. QED
          BY <2>1, <2>4, <2>5, <5>1 DEF IndInv, Accounted
      <4>. QED
        BY <4>1, <4>2
    <3>2. ASSUME NEW t \in ran' PROVE t \in Elements(started')
      BY <2>1, <2>3, <3>2 DEF IndInv, Accounted
    <3>3. ASSUME NEW v \in Workers, task'[v] # Nil PROVE task'[v] \in Elements(started')
      BY <2>3, <2>5, <2>6, <3>3 DEF IndInv, Accounted
    <3>4. ASSUME NEW v \in Workers PROVE Busy(v)' <=> task'[v] # Nil
      BY <2>2, <2>5, <2>6, ThreadPoolAssumption DEF IndInv, Accounted
    <3>. QED
      BY <3>1, <3>2, <3>3, <3>4 DEF Accounted
<1>4. Stages'
  BY ThreadPoolAssumption
  DEF IndInv, TypeOK, Stages, WorkerLabels, SubmitLabels, OwnerLabels, Threads, Take, Goto
<1>. QED
  BY <1>1, <1>2, <1>3, <1>4 DEF IndInv

\* A task returns and its worker is free again.
LEMMA FinishStep ==
  ASSUME IndInv, NEW w \in Workers, Finish(w)
  PROVE  IndInv'
<1>0. task[w] \in Tasks /\ task[w] \in Elements(started)
  BY ThreadPoolAssumption DEF IndInv, TypeOK, Accounted, Busy, Finish
<1>1. TypeOK'
  BY <1>0
  DEF IndInv, TypeOK, Stages, WorkerLabels, SubmitLabels, OwnerLabels, Threads, Finish, Goto
<1>2. FifoOnce'
  BY
  DEF IndInv, FifoOnce, TypeOK, Stages, WorkerLabels, SubmitLabels, OwnerLabels, Threads,
      Finish, Goto
<1>3. Accounted'
  <2>1. /\ task' = [task EXCEPT ![w] = Nil] /\ ran' = ran \cup {task[w]}
        /\ started' = started /\ pc' = [pc EXCEPT ![w] = "lock"]
    BY DEF Finish, Goto
  <2>2. Elements(started') = Elements(started)
    BY <2>1 DEF Elements
  <2>3. \A v \in Workers : v # w => task'[v] = task[v] /\ (Busy(v)' <=> Busy(v))
    BY <2>1 DEF IndInv, TypeOK, Busy, Threads
  <2>4. task'[w] = Nil /\ ~ Busy(w)'
    BY <2>1 DEF IndInv, TypeOK, Busy, SubmitLabels, Threads
  <2>. QED
    BY <1>0, <2>1, <2>2, <2>3, <2>4 DEF IndInv, Accounted
<1>4. Stages'
  BY ThreadPoolAssumption
  DEF IndInv, TypeOK, Stages, WorkerLabels, SubmitLabels, OwnerLabels, Threads, Finish, Goto
<1>. QED
  BY <1>1, <1>2, <1>3, <1>4 DEF IndInv

\* The destructor sets stop_.
LEMMA SetStopStep ==
  ASSUME IndInv, SetStop
  PROVE  IndInv'
<1>1. TypeOK'
  BY ThreadPoolAssumption
  DEF IndInv, TypeOK, Stages, WorkerLabels, SubmitLabels, OwnerLabels, Threads, SetStop, Goto
<1>2. FifoOnce'
  BY
  DEF IndInv, FifoOnce, TypeOK, Stages, WorkerLabels, SubmitLabels, OwnerLabels, Threads,
      SetStop, Goto
<1>3. Accounted'
  BY ThreadPoolAssumption
  DEF IndInv, Accounted, Busy, Elements, TypeOK, Stages, WorkerLabels, SubmitLabels,
      OwnerLabels, Threads, SetStop, Goto
<1>4. Stages'
  BY ThreadPoolAssumption
  DEF IndInv, TypeOK, Stages, WorkerLabels, SubmitLabels, OwnerLabels, Threads, SetStop, Goto
<1>. QED
  BY <1>1, <1>2, <1>3, <1>4 DEF IndInv

\* notify_all sends every waiter back to the mutex.
LEMMA NotifyAllStep ==
  ASSUME IndInv, NotifyAll
  PROVE  IndInv'
<1>1. TypeOK'
  BY ThreadPoolAssumption
  DEF IndInv, TypeOK, Stages, WorkerLabels, SubmitLabels, OwnerLabels, Threads, NotifyAll
<1>2. FifoOnce'
  BY
  DEF IndInv, FifoOnce, TypeOK, Stages, WorkerLabels, SubmitLabels, OwnerLabels, Threads,
      NotifyAll
<1>3. Accounted'
  BY ThreadPoolAssumption
  DEF IndInv, Accounted, Busy, Elements, TypeOK, Stages, WorkerLabels, SubmitLabels,
      OwnerLabels, Threads, NotifyAll
<1>4. Stages'
  BY ThreadPoolAssumption
  DEF IndInv, TypeOK, Stages, WorkerLabels, SubmitLabels, OwnerLabels, Threads, NotifyAll
<1>. QED
  BY <1>1, <1>2, <1>3, <1>4 DEF IndInv

\* The destructor has joined every worker.
LEMMA JoinStep ==
  ASSUME IndInv, Join
  PROVE  IndInv'
<1>1. TypeOK'
  BY ThreadPoolAssumption
  DEF IndInv, TypeOK, Stages, WorkerLabels, SubmitLabels, OwnerLabels, Threads, Join, Goto
<1>2. FifoOnce'
  BY
  DEF IndInv, FifoOnce, TypeOK, Stages, WorkerLabels, SubmitLabels, OwnerLabels, Threads,
      Join, Goto
<1>3. Accounted'
  BY ThreadPoolAssumption
  DEF IndInv, Accounted, Busy, Elements, TypeOK, Stages, WorkerLabels, SubmitLabels,
      OwnerLabels, Threads, Join, Goto
<1>4. Stages'
  BY ThreadPoolAssumption
  DEF IndInv, TypeOK, Stages, WorkerLabels, SubmitLabels, OwnerLabels, Threads, Join, Goto
<1>. QED
  BY <1>1, <1>2, <1>3, <1>4 DEF IndInv

\* The inductive invariant holds after construction.
LEMMA InitInv == Init => IndInv
<1>. SUFFICES ASSUME Init PROVE IndInv
  OBVIOUS
<1>1. TypeOK
  <2>1. <<>> \in Seq(Tasks)
    OBVIOUS
  <2>2. pc \in [Threads -> WorkerLabels \cup SubmitLabels \cup OwnerLabels]
    BY DEF Init, WorkerLabels, OwnerLabels
  <2>. QED
    BY <2>1, <2>2 DEF Init, TypeOK
<1>2. FifoOnce
  BY DEF Init, FifoOnce
<1>3. Accounted
  BY DEF Init, Accounted, Busy, SubmitLabels, Elements, Threads
<1>4. Stages
  BY ThreadPoolAssumption DEF Init, Stages, WorkerLabels, OwnerLabels, Threads
<1>. QED
  BY <1>1, <1>2, <1>3, <1>4 DEF IndInv

\* Every step of the owner or of a worker preserves it.
LEMMA NextInv == IndInv /\ [Next]_vars => IndInv'
<1>. SUFFICES ASSUME IndInv, [Next]_vars PROVE IndInv'
  OBVIOUS
<1>1. ASSUME NEW p \in Threads, SubmitStep(p) PROVE IndInv'
  BY <1>1, SubmitLockStep, PushStep, ThrowStep, NotifyStep DEF SubmitStep
<1>2. ASSUME NEW w \in Workers, WorkerStep(w) PROVE IndInv'
  BY <1>1, <1>2, LockStep, CheckStep, SleepStep, ExitStep, TakeStep, FinishStep, TaskSubmitsStep
  DEF WorkerStep, Threads
<1>3. CASE Destroy
  BY <1>3, NotifyAllStep, JoinStep DEF Destroy
<1>4. CASE UNCHANGED vars
  BY <1>4 DEF IndInv, TypeOK, FifoOnce, Accounted, Busy, Elements, Stages
<1>. QED
  BY <1>1, <1>2, <1>3, <1>4, OwnerSubmitsStep, SetStopStep, SpuriousWakeupStep DEF Next, Threads

\* It therefore always holds.
LEMMA Invariance == Spec => []IndInv
  BY InitInv, NextInv, PTL DEF Spec

\* Every variable keeps its type, for any number of workers and tasks.
THEOREM TypeCorrect == Spec => []TypeOK
<1>1. IndInv => TypeOK
  BY DEF IndInv
<1>. QED
  BY <1>1, Invariance, PTL

\* SubmitTask and the workers: accepted tasks start in order, each once,
\* with spurious wakeups, nested submissions and a concurrent destructor.
THEOREM QueueSafety == Spec => []FifoOnce
<1>1. IndInv => FifoOnce
  BY DEF IndInv
<1>. QED
  BY <1>1, Invariance, PTL

\* ~ThreadPool: if it returns, every accepted task has returned.  (That it
\* returns is not true: see the run thread_pool_dtor.)
THEOREM JoinSafety == Spec => []JoinedMeansAllRan
<1>1. IndInv => JoinedMeansAllRan
  <2>. SUFFICES ASSUME IndInv, pc[Owner] = "joined" PROVE Elements(accepted) = ran
    BY DEF JoinedMeansAllRan
  <2>1. PICK w \in Workers : pc[w] = "exited"
    BY ThreadPoolAssumption DEF IndInv, Stages
  <2>2. queue = <<>> /\ \A v \in Workers : task[v] = Nil
    BY <2>1 DEF IndInv, Stages, Accounted, Busy, SubmitLabels
  <2>3. accepted = started
    BY <2>2 DEF IndInv, FifoOnce, TypeOK
  <2>4. \A t \in Elements(started) : t # Nil
    BY ThreadPoolAssumption DEF IndInv, TypeOK, Elements
  <2>. QED
    BY <2>2, <2>3, <2>4 DEF IndInv, Accounted
<1>. QED
  BY <1>1, Invariance, PTL

-----------------------------------------------------------------------------
(* WakeupsSuffice: no wakeup is lost between the predicate and the wait.   *)

Holding(p) == pc[p] \in {"check", "take", "sleep", "push"}

\* The queue does not grow between the predicate of a worker and its wait,
\* because the worker holds queue_mutex_ all the while.
LockInv ==
  /\ \A p \in Threads : Holding(p) => mutex = p
  /\ \A w \in Workers : pc[w] = "sleep" => queue = <<>>

WakeInv == LockInv /\ WakeupsSuffice

\* Whoever is between lock and unlock is the holder, and one thread at most.
LEMMA LockInvStep ==
  ASSUME IndInv, LockInv, [Next]_vars
  PROVE  LockInv'
<1>. USE ThreadPoolAssumption DEF IndInv, TypeOK, Stages, LockInv, Holding, Threads, Goto
<1>1. CASE \E t \in Tasks : OwnerSubmits(t)
  BY <1>1 DEF OwnerSubmits
<1>2. ASSUME NEW p \in Threads, SubmitLock(p) PROVE LockInv'
  BY <1>2 DEF SubmitLock
<1>3. ASSUME NEW p \in Threads, Push(p) PROVE LockInv'
  BY <1>3 DEF Push
<1>4. ASSUME NEW p \in Threads, Throw(p) PROVE LockInv'
  BY <1>4 DEF Throw, Returned
<1>5. ASSUME NEW p \in Threads, Notify(p) PROVE LockInv'
  BY <1>5 DEF Notify, Returned
<1>6. ASSUME NEW w \in Workers, Lock(w) \/ Check(w) \/ Sleep(w) PROVE LockInv'
  BY <1>6 DEF Lock, Check, Sleep
<1>7. ASSUME NEW w \in Workers, Exit(w) \/ Take(w) PROVE LockInv'
  <2>1. pc[w] = "take" /\ \A p \in Threads : p # w => ~ Holding(p)
    BY <1>7 DEF Exit, Take
  <2>2. pc' = [pc EXCEPT ![w] = "exited"] \/ pc' = [pc EXCEPT ![w] = "run"]
    BY <1>7 DEF Exit, Take
  <2>3. ASSUME NEW p \in Threads PROVE ~ Holding(p)'
    <3>1. CASE p = w
      BY <2>2, <3>1
    <3>2. CASE p # w
      <4>1. pc'[p] = pc[p]
        BY <2>2, <3>2
      <4>. QED
        BY <2>1, <3>2, <4>1
    <3>. QED
      BY <3>1, <3>2
  <2>. QED
    BY <2>3
<1>8. ASSUME NEW w \in Workers, Finish(w) \/ TaskSubmits(w) \/ SpuriousWakeup(w) PROVE LockInv'
  BY <1>8 DEF Finish, TaskSubmits, SpuriousWakeup
<1>9. CASE SetStop \/ NotifyAll \/ Join
  BY <1>9 DEF SetStop, NotifyAll, Join
<1>10. CASE UNCHANGED vars
  BY <1>10
<1>. QED
  BY <1>1, <1>2, <1>3, <1>4, <1>5, <1>6, <1>7, <1>8, <1>9, <1>10
  DEF Next, SubmitStep, WorkerStep, Destroy

\* The sets that are counted are finite.
LEMMA Counted ==
  /\ IsFiniteSet(Checkers) /\ Cardinality(Checkers) \in Nat
  /\ IsFiniteSet(Notifiers) /\ Cardinality(Notifiers) \in Nat
  /\ IsFiniteSet(Checkers') /\ Cardinality(Checkers') \in Nat
  /\ IsFiniteSet(Notifiers') /\ Cardinality(Notifiers') \in Nat
<1>1. IsFiniteSet(Workers) /\ IsFiniteSet(Threads)
  BY ThreadPoolAssumption, FS_AddElement DEF Threads
<1>2. /\ Checkers \subseteq Workers /\ Notifiers \subseteq Threads
      /\ Checkers' \subseteq Workers /\ Notifiers' \subseteq Threads
  BY DEF Checkers, Notifiers
<1>. QED
  BY <1>1, <1>2, FS_Subset, FS_CardinalityType

\* An empty queue needs nobody.
LEMMA NothingQueued ==
  ASSUME queue' = <<>>
  PROVE  WakeupsSuffice'
<1>1. Len(queue') = 0
  OBVIOUS
<1>. QED
  BY <1>1, Counted DEF WakeupsSuffice

\* A step by which nobody leaves the counted sets and the queue stays as is.
LEMMA NobodyLeaves ==
  ASSUME IndInv, WakeupsSuffice, UNCHANGED queue, waiting' # {} => waiting # {},
         Checkers \subseteq Checkers', Notifiers \subseteq Notifiers'
  PROVE  WakeupsSuffice'
<1>1. Len(queue) \in Nat
  BY DEF IndInv, TypeOK
<1>2. Cardinality(Checkers) <= Cardinality(Checkers') /\ Cardinality(Notifiers) <= Cardinality(Notifiers')
  BY Counted, FS_Subset
<1>. QED
  BY <1>1, <1>2, Counted DEF WakeupsSuffice

\* The submitter owes a notification for the task it has queued.
LEMMA PushWakes ==
  ASSUME IndInv, WakeupsSuffice, NEW p \in Threads, Push(p)
  PROVE  WakeupsSuffice'
<1>1. /\ pc \in [Threads -> WorkerLabels \cup SubmitLabels \cup OwnerLabels]
      /\ pc[p] = "push" /\ pc' = [pc EXCEPT ![p] = "notify"] /\ waiting' = waiting
      /\ queue \in Seq(Tasks) /\ arg[p] \in Tasks /\ queue' = Append(queue, arg[p])
  BY DEF IndInv, TypeOK, Stages, Push, Goto
<1>2. Checkers \subseteq Checkers'
  BY <1>1 DEF Checkers, Threads
<1>3. Notifiers' = Notifiers \cup {p} /\ p \notin Notifiers
  BY <1>1 DEF Notifiers
<1>4. Cardinality(Checkers) <= Cardinality(Checkers')
  BY <1>2, Counted, FS_Subset
<1>5. Cardinality(Notifiers') = Cardinality(Notifiers) + 1
  BY <1>3, Counted, FS_AddElement
<1>6. Len(queue') = Len(queue) + 1 /\ Len(queue) \in Nat
  BY <1>1
<1>. QED
  BY <1>1, <1>4, <1>5, <1>6, Counted DEF WakeupsSuffice

\* notify_one: the debt passes from the submitter to the worker it wakes.
LEMMA NotifyWakes ==
  ASSUME IndInv, WakeupsSuffice, NEW p \in Threads, Notify(p)
  PROVE  WakeupsSuffice'
<1>. SUFFICES ASSUME waiting' # {} PROVE WakeupsSuffice'
  BY DEF WakeupsSuffice
<1>1. PICK w \in waiting :
        /\ waiting' = waiting \ {w}
        /\ pc' = [pc EXCEPT ![p] = IF p = Owner THEN "idle" ELSE "finish", ![w] = "lock"]
  BY DEF Notify
<1>2. /\ pc \in [Threads -> WorkerLabels \cup SubmitLabels \cup OwnerLabels]
      /\ w \in Workers /\ w \in Threads /\ pc[w] = "waiting" /\ pc[p] = "notify" /\ p # w
      /\ queue' = queue
  BY DEF IndInv, TypeOK, Stages, Threads, Notify
<1>3. Checkers' = Checkers \cup {w} /\ w \notin Checkers
  BY <1>1, <1>2, ThreadPoolAssumption DEF Checkers, Threads
<1>4. Notifiers' = Notifiers \ {p} /\ p \in Notifiers
  BY <1>1, <1>2 DEF Notifiers
<1>5. Cardinality(Checkers') = Cardinality(Checkers) + 1
  BY <1>3, Counted, FS_AddElement
<1>6. Cardinality(Notifiers') = Cardinality(Notifiers) - 1
  BY <1>4, Counted, FS_RemoveElement
<1>7. Len(queue) \in Nat
  BY DEF IndInv, TypeOK
<1>. QED
  BY <1>1, <1>2, <1>5, <1>6, <1>7, Counted DEF WakeupsSuffice

\* A worker leaves the checkers with the task it has taken.
LEMMA TakeWakes ==
  ASSUME IndInv, WakeupsSuffice, NEW w \in Workers, Take(w)
  PROVE  WakeupsSuffice'
<1>1. /\ pc \in [Threads -> WorkerLabels \cup SubmitLabels \cup OwnerLabels] /\ w \in Threads
      /\ pc[w] = "take" /\ pc' = [pc EXCEPT ![w] = "run"] /\ waiting' = waiting
      /\ queue \in Seq(Tasks) /\ queue # <<>> /\ queue' = Tail(queue)
  BY DEF IndInv, TypeOK, Threads, Take, Goto
<1>2. Checkers' = Checkers \ {w} /\ w \in Checkers
  BY <1>1 DEF Checkers, Threads
<1>3. Notifiers \subseteq Notifiers'
  BY <1>1 DEF Notifiers
<1>4. Cardinality(Checkers') = Cardinality(Checkers) - 1
  BY <1>2, Counted, FS_RemoveElement
<1>5. Cardinality(Notifiers) <= Cardinality(Notifiers')
  BY <1>3, Counted, FS_Subset
<1>6. Len(queue') = Len(queue) - 1 /\ Len(queue) \in Nat
  BY <1>1
<1>. QED
  BY <1>1, <1>4, <1>5, <1>6, Counted DEF WakeupsSuffice

\* The other steps.
LEMMA WakeupsStep ==
  ASSUME IndInv, WakeInv, [Next]_vars
  PROVE  WakeupsSuffice'
<1>. USE ThreadPoolAssumption DEF IndInv, TypeOK, Stages, Threads, Goto, Checkers, Notifiers
<1>0. WakeupsSuffice
  BY DEF WakeInv
<1>1. ASSUME NEW t \in Tasks, OwnerSubmits(t) PROVE WakeupsSuffice'
  BY <1>0, <1>1, NobodyLeaves DEF OwnerSubmits
<1>2. ASSUME NEW p \in Threads, SubmitLock(p) PROVE WakeupsSuffice'
  BY <1>0, <1>2, NobodyLeaves DEF SubmitLock
<1>3. ASSUME NEW p \in Threads, Throw(p) PROVE WakeupsSuffice'
  BY <1>0, <1>3, NobodyLeaves DEF Throw, Returned
<1>4. ASSUME NEW w \in Workers, Lock(w) PROVE WakeupsSuffice'
  BY <1>0, <1>4, NobodyLeaves DEF Lock
<1>5. ASSUME NEW w \in Workers, Check(w) PROVE WakeupsSuffice'
  <2>1. CASE stop \/ queue # <<>>
    BY <1>0, <1>5, <2>1, NobodyLeaves DEF Check
  <2>2. CASE queue = <<>>
    BY <1>5, <2>2, NothingQueued DEF Check
  <2>. QED
    BY <2>1, <2>2
<1>6. ASSUME NEW w \in Workers, Sleep(w) \/ Exit(w) PROVE WakeupsSuffice'
  BY <1>6, NothingQueued DEF WakeInv, LockInv, Sleep, Exit
<1>7. ASSUME NEW w \in Workers, Finish(w) PROVE WakeupsSuffice'
  BY <1>0, <1>7, NobodyLeaves DEF Finish
<1>8. ASSUME NEW w \in Workers, TaskSubmits(w) PROVE WakeupsSuffice'
  BY <1>0, <1>8, NobodyLeaves DEF TaskSubmits
<1>9. ASSUME NEW w \in Workers, SpuriousWakeup(w) PROVE WakeupsSuffice'
  BY <1>0, <1>9, NobodyLeaves DEF SpuriousWakeup
<1>10. CASE SetStop \/ Join
  BY <1>0, <1>10, NobodyLeaves DEF SetStop, Join
<1>11. CASE NotifyAll
  BY <1>11 DEF NotifyAll, WakeupsSuffice
<1>12. CASE UNCHANGED vars
  BY <1>0, <1>12, NobodyLeaves
<1>. QED
  BY <1>0, <1>1, <1>2, <1>3, <1>4, <1>5, <1>6, <1>7, <1>8, <1>9, <1>10, <1>11, <1>12,
     PushWakes, NotifyWakes, TakeWakes
  DEF Next, SubmitStep, WorkerStep, Destroy

\* SubmitTask's single notify_one outside the lock is enough: while a worker
\* is blocked there are as many workers on their way to the queue, or
\* notifications to come, as there are queued tasks.
THEOREM WakeupSafety == Spec => []WakeupsSuffice
<1>1. Init => WakeInv
  BY ThreadPoolAssumption DEF Init, WakeInv, LockInv, Holding, WakeupsSuffice, Threads
<1>2. IndInv /\ WakeInv /\ [Next]_vars => WakeInv'
  BY LockInvStep, WakeupsStep DEF WakeInv
<1>3. WakeInv => WakeupsSuffice
  BY DEF WakeInv
<1>. QED
  BY <1>1, <1>2, <1>3, Invariance, PTL DEF Spec
=============================================================================
