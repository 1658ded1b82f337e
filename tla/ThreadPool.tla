----------------------------- MODULE ThreadPool -----------------------------
(***************************************************************************)
(* ThreadPool: a queue of tasks under queue_mutex_, workers that wait on   *)
(* condition_, SubmitTask (called by the owner of the pool and by running  *)
(* tasks) and the destructor, which sets stop_ without taking the lock.    *)
(* A waiting thread may wake up spuriously at any time.                    *)
(***************************************************************************)
EXTENDS Naturals, Sequences, FiniteSets

CONSTANTS
  Workers,   \* the threads of workers_
  Owner,     \* the thread that constructs, feeds and destroys the pool
  Tasks,     \* the callables handed to SubmitTask
  Spawn,     \* Spawn[t]: the task that t submits while it runs, or Nil
  Endless,   \* tasks that never return, such as Looper::StartLoop
  Nil

Threads == Workers \cup {Owner}

ASSUME ThreadPoolAssumption ==
  /\ IsFiniteSet(Workers) /\ Workers # {} /\ Owner \notin Workers
  /\ Nil \notin Tasks \cup Threads
  /\ Spawn \in [Tasks -> Tasks \cup {Nil}]
  /\ Endless \subseteq Tasks

VARIABLES
  queue,     \* tasks_queue_
  stop,      \* stop_ (atomic)
  mutex,     \* the holder of queue_mutex_
  waiting,   \* threads blocked in condition_.wait
  pc,        \* pc[p]: where thread p is
  task,      \* task[w]: incoming_task of worker w
  arg,       \* arg[p]: the task thread p is submitting
  accepted,  \* history: tasks SubmitTask has queued, in order
  rejected,  \* history: tasks SubmitTask has thrown on
  started,   \* history: tasks workers have taken, in order
  ran        \* history: tasks that have returned

poolVars    == <<queue, stop, mutex, waiting>>
threadVars  == <<pc, task, arg>>
historyVars == <<accepted, rejected, started, ran>>
vars == <<poolVars, threadVars, historyVars>>

\* The constructor has spawned the workers.
Init ==
  /\ queue = <<>>
  /\ stop = FALSE
  /\ mutex = Nil
  /\ waiting = {}
  /\ pc = [p \in Threads |-> IF p = Owner THEN "idle" ELSE "lock"]
  /\ task = [w \in Workers |-> Nil]
  /\ arg = [p \in Threads |-> Nil]
  /\ accepted = <<>> /\ rejected = {} /\ started = <<>> /\ ran = {}

Goto(p, label) == pc' = [pc EXCEPT ![p] = label]

Elements(s) == {s[i] : i \in DOMAIN s}
Submitted == Elements(accepted) \cup rejected \cup {arg[p] : p \in Threads}

-----------------------------------------------------------------------------
(* SubmitTask, called by thread p.                                         *)

\* Tasks that only a running task submits.
Spawned == {Spawn[t] : t \in Tasks} \ {Nil}

OwnerSubmits(t) ==
  /\ pc[Owner] = "idle" /\ t \notin Submitted \cup Spawned
  /\ arg' = [arg EXCEPT ![Owner] = t]
  /\ Goto(Owner, "submit")
  /\ UNCHANGED <<poolVars, task, historyVars>>

TaskSubmits(w) ==
  /\ pc[w] = "run" /\ Spawn[task[w]] # Nil
  /\ arg' = [arg EXCEPT ![w] = Spawn[task[w]]]
  /\ Goto(w, "submit")
  /\ UNCHANGED <<poolVars, task, historyVars>>

SubmitLock(p) ==
  /\ pc[p] = "submit" /\ mutex = Nil
  /\ mutex' = p
  /\ Goto(p, "push")
  /\ UNCHANGED <<queue, stop, waiting, task, arg, historyVars>>

\* Variant: an empty function is queued.
PushMovedFrom(p) ==
  /\ pc[p] = "push" /\ ~ stop
  /\ queue' = Append(queue, Nil)
  /\ accepted' = Append(accepted, Nil)
  /\ mutex' = Nil
  /\ arg' = [arg EXCEPT ![p] = Nil]
  /\ Goto(p, "notify")
  /\ UNCHANGED <<stop, waiting, task, rejected, started, ran>>

Push(p) ==
  /\ pc[p] = "push" /\ ~ stop
  /\ queue' = Append(queue, arg[p])
  /\ accepted' = Append(accepted, arg[p])
  /\ mutex' = Nil
  /\ arg' = [arg EXCEPT ![p] = Nil]
  /\ Goto(p, "notify")
  /\ UNCHANGED <<stop, waiting, task, rejected, started, ran>>

\* Control returns to the caller of SubmitTask.
Returned(p) == Goto(p, IF p = Owner THEN "idle" ELSE "finish")

\* The exception of a nested submission ends up in the task's future.
Throw(p) ==
  /\ pc[p] = "push" /\ stop
  /\ rejected' = rejected \cup {arg[p]}
  /\ mutex' = Nil
  /\ arg' = [arg EXCEPT ![p] = Nil]
  /\ Returned(p)
  /\ UNCHANGED <<queue, stop, waiting, task, accepted, started, ran>>

\* Variant: SubmitTask forgets notify_one.
NotifyForgotten(p) ==
  /\ pc[p] = "notify"
  /\ Returned(p)
  /\ UNCHANGED <<poolVars, task, arg, historyVars>>

\* notify_one: some waiter, if there is one, goes back to the mutex.
Notify(p) ==
  /\ pc[p] = "notify"
  /\ LET back == IF p = Owner THEN "idle" ELSE "finish" IN
     \/ /\ waiting = {}
        /\ Returned(p)
        /\ UNCHANGED waiting
     \/ \E w \in waiting :
        /\ waiting' = waiting \ {w}
        /\ pc' = [pc EXCEPT ![p] = back, ![w] = "lock"]
  /\ UNCHANGED <<queue, stop, mutex, task, arg, historyVars>>

-----------------------------------------------------------------------------
(* A worker thread.                                                        *)

\* Taking the mutex: on entry, and again when the wait ends.
Lock(w) ==
  /\ pc[w] = "lock" /\ mutex = Nil
  /\ mutex' = w
  /\ Goto(w, "check")
  /\ UNCHANGED <<queue, stop, waiting, task, arg, historyVars>>

\* The wait predicate.
Check(w) ==
  /\ pc[w] = "check"
  /\ Goto(w, IF stop \/ queue # <<>> THEN "take" ELSE "sleep")
  /\ UNCHANGED <<poolVars, task, arg, historyVars>>

\* Blocking releases the mutex and enters the wait set in one step.
Sleep(w) ==
  /\ pc[w] = "sleep"
  /\ mutex' = Nil
  /\ waiting' = waiting \cup {w}
  /\ Goto(w, "waiting")
  /\ UNCHANGED <<queue, stop, task, arg, historyVars>>

SpuriousWakeup(w) ==
  /\ w \in waiting
  /\ waiting' = waiting \ {w}
  /\ Goto(w, "lock")
  /\ UNCHANGED <<queue, stop, mutex, task, arg, historyVars>>

\* Variant: a stopping pool drops the queued tasks.
ExitAtOnce(w) ==
  /\ pc[w] = "take" /\ stop
  /\ mutex' = Nil
  /\ Goto(w, "exited")
  /\ UNCHANGED <<queue, stop, waiting, task, arg, historyVars>>

Exit(w) ==
  /\ pc[w] = "take" /\ stop /\ queue = <<>>
  /\ mutex' = Nil
  /\ Goto(w, "exited")
  /\ UNCHANGED <<queue, stop, waiting, task, arg, historyVars>>

\* Variant: front() without pop().
TakeNoPop(w) ==
  /\ pc[w] = "take" /\ queue # <<>> /\ Len(started) < Cardinality(Tasks)
  /\ task' = [task EXCEPT ![w] = Head(queue)]
  /\ started' = Append(started, Head(queue))
  /\ mutex' = Nil
  /\ Goto(w, "run")
  /\ UNCHANGED <<queue, stop, waiting, arg, accepted, rejected, ran>>

Take(w) ==
  /\ pc[w] = "take" /\ queue # <<>>
  /\ task' = [task EXCEPT ![w] = Head(queue)]
  /\ queue' = Tail(queue)
  /\ started' = Append(started, Head(queue))
  /\ mutex' = Nil
  /\ Goto(w, "run")
  /\ UNCHANGED <<stop, waiting, arg, accepted, rejected, ran>>

\* incoming_task() returns.
Finish(w) ==
  /\ \/ pc[w] = "finish"
     \/ pc[w] = "run" /\ Spawn[task[w]] = Nil
  /\ task[w] \notin Endless
  /\ ran' = ran \cup {task[w]}
  /\ task' = [task EXCEPT ![w] = Nil]
  /\ Goto(w, "lock")
  /\ UNCHANGED <<poolVars, arg, accepted, rejected, started>>

-----------------------------------------------------------------------------
(* The destructor.                                                         *)

SetStop ==
  /\ pc[Owner] = "idle"
  /\ stop' = TRUE
  /\ Goto(Owner, "notifyall")
  /\ UNCHANGED <<queue, mutex, waiting, task, arg, historyVars>>

NotifyAll ==
  /\ pc[Owner] = "notifyall"
  /\ waiting' = {}
  /\ pc' = [p \in Threads |-> IF p = Owner THEN "join"
                              ELSE IF p \in waiting THEN "lock" ELSE pc[p]]
  /\ UNCHANGED <<queue, stop, mutex, task, arg, historyVars>>

Join ==
  /\ pc[Owner] = "join"
  /\ \A w \in Workers : pc[w] = "exited"
  /\ Goto(Owner, "joined")
  /\ UNCHANGED <<poolVars, task, arg, historyVars>>

-----------------------------------------------------------------------------
SubmitStep(p) == SubmitLock(p) \/ Push(p) \/ Throw(p) \/ Notify(p)

WorkerStep(w) ==
  \/ Lock(w) \/ Check(w) \/ Sleep(w) \/ Exit(w) \/ Take(w) \/ Finish(w)
  \/ TaskSubmits(w) \/ SubmitStep(w)

Destroy == NotifyAll \/ Join

Next ==
  \/ \E t \in Tasks : OwnerSubmits(t)
  \/ SubmitStep(Owner)
  \/ SetStop
  \/ Destroy
  \/ \E w \in Workers : WorkerStep(w) \/ SpuriousWakeup(w)

Spec == Init /\ [][Next]_vars

\* Threads keep running and a mutex that is free again and again is obtained
\* in the end.  The owner need not submit anything nor destroy the pool, and
\* no spurious wakeup is owed.
Fairness ==
  /\ \A w \in Workers : WF_vars(WorkerStep(w)) /\ SF_vars(Lock(w)) /\ SF_vars(SubmitLock(w))
  /\ WF_vars(SubmitStep(Owner)) /\ SF_vars(SubmitLock(Owner))
  /\ WF_vars(Destroy)

FairSpec == Spec /\ Fairness

\* The owner does destroy the pool when it has nothing left to submit.
DestroySpec == FairSpec /\ WF_vars(SetStop)

-----------------------------------------------------------------------------
(* Properties.                                                             *)

WorkerLabels == {"lock", "check", "sleep", "waiting", "take", "run", "finish", "exited"}
SubmitLabels == {"submit", "push", "notify"}
OwnerLabels  == {"idle", "notifyall", "join", "joined"}

\* Every variable keeps its type; a queued task is a callable.
TypeOK ==
  /\ queue \in Seq(Tasks) /\ accepted \in Seq(Tasks) /\ started \in Seq(Tasks)
  /\ stop \in BOOLEAN
  /\ mutex \in Threads \cup {Nil}
  /\ waiting \subseteq Workers
  /\ pc \in [Threads -> WorkerLabels \cup SubmitLabels \cup OwnerLabels]
  /\ task \in [Workers -> Tasks \cup {Nil}]
  /\ arg \in [Threads -> Tasks \cup {Nil}]
  /\ rejected \subseteq Tasks /\ ran \subseteq Tasks

\* Tasks start in the order in which SubmitTask accepted them, each of them
\* once: nothing is lost, duplicated or overtaken in the queue.
FifoOnce == accepted = started \o queue

\* Once the destructor has joined its workers every accepted task has
\* returned, also the ones tasks submitted while the pool was stopping.
JoinedMeansAllRan ==
  pc[Owner] = "joined" => Elements(accepted) = ran

\* What makes JoinedMeansAllRan inductive: a started task has returned or is
\* in the hands of a worker, and workers leave an empty, stopped pool only.
Busy(w) == pc[w] \in {"run", "finish"} \cup SubmitLabels

Accounted ==
  /\ \A t \in Elements(started) : t \in ran \/ \E w \in Workers : task[w] = t
  /\ \A t \in ran : t \in Elements(started)
  /\ \A w \in Workers : task[w] # Nil => task[w] \in Elements(started)
  /\ \A w \in Workers : Busy(w) <=> task[w] # Nil

Stages ==
  /\ pc[Owner] \in OwnerLabels \cup SubmitLabels
  /\ \A w \in Workers : pc[w] \in WorkerLabels \cup SubmitLabels
  /\ \A w \in Workers : w \in waiting => pc[w] = "waiting"
  /\ \A p \in Threads : pc[p] \in {"submit", "push"} => arg[p] \in Tasks
  /\ \A w \in Workers : pc[w] = "exited" => stop /\ queue = <<>>
  /\ pc[Owner] = "joined" => \A w \in Workers : pc[w] = "exited"

IndInv == TypeOK /\ FifoOnce /\ Accounted /\ Stages

Checkers  == {w \in Workers : pc[w] \in {"lock", "check", "take"}}
Notifiers == {p \in Threads : pc[p] = "notify"}

\* While a worker is blocked, every queued task has a worker on its way to
\* the queue or a notification still to come: none waits for a task to end.
WakeupsSuffice ==
  waiting # {} => Len(queue) <= Cardinality(Checkers) + Cardinality(Notifiers)

\* An accepted task is started in the end, although other tasks run for ever
\* on the other workers (Server gives every worker one Looper::StartLoop).
EveryTaskStarts ==
  \A t \in Tasks : (t \in Elements(accepted)) ~> (t \in Elements(started))

\* "here thread_pool's dtor should finish all the tasks": a pool whose tasks
\* all return is destroyed in the end.
DtorReturns == (pc[Owner] = "notifyall") ~> (pc[Owner] = "joined")
=============================================================================
