----------------------- MODULE ServerLifecycle_proofs -----------------------
(***************************************************************************)
(* For any number of workers and clients: the loops of a Server are        *)
(* started with references that hold, and the Loopers are destroyed after  *)
(* the last loop has ended.  What is proved of ThreadPool is used of the   *)
(* Server's pool, whose steps are those of ThreadPool.                     *)
(***************************************************************************)
EXTENDS ServerLifecycle, ThreadPool_proofs

USE DEF allVars, serverVars, listenVars, clientVars, setupVars

\* Every step of the server is a step of the pool or leaves the pool alone.
LEMMA PoolSteps ==
  ASSUME [ServerNext]_allVars
  PROVE  [Next]_vars
<1>1. CASE StartReactor
  BY <1>1 DEF StartReactor, Next
<1>2. CASE Submitting
  BY <1>2 DEF Submitting, SubmitStep, Next
<1>3. CASE DestroyPool \/ JoiningPool
  BY <1>3 DEF DestroyPool, JoiningPool, Next
<1>4. ASSUME NEW w \in Workers, PoolStep(w) \/ Wakes(w) \/ \E c \in Clients : LoopStep(w, c)
      PROVE  [Next]_vars
  <2>1. WorkerStep(w) \/ SpuriousWakeup(w) \/ UNCHANGED vars
    BY <1>4 DEF PoolStep, Wakes, LoopStep, Handle, HandlerThrows, WorkerStep
  <2>. QED
    BY <2>1 DEF Next
<1>5. CASE \/ CreateSocket \/ Bind \/ Listen \/ SetUpFails \/ AddAcceptor \/ ListenerStep
           \/ DestroyRest \/ OnHandle \/ Begin \/ EpollFails \/ \E c \in Clients : Connect(c) \/ Ask(c)
  BY <1>5 DEF CreateSocket, Bind, Listen, SetUp, SetUpFails, AddAcceptor, ListenerStep, ListenerPoll,
     AcceptFails, SetNonBlockingFails, AcceptClient, DestroyRest, OnHandle, Begin, EpollFails, Connect,
     Ask
<1>. QED
  BY <1>1, <1>2, <1>3, <1>4, <1>5 DEF ServerNext, OwnerStep

\* What is proved of ThreadPool holds of the pool of a Server.
LEMMA PoolRefinement == ServerSpec => Spec
<1>1. ServerInit => Init
  BY DEF ServerInit
<1>. QED
  BY <1>1, PoolSteps, PTL DEF ServerSpec, Spec

\* Its inductive invariant, in particular.
LEMMA PoolInv == ServerSpec => []IndInv
  BY PoolRefinement, Invariance, PTL

\* Task number t is submitted when t loopers have been made; the allocation
\* never moves; and reactors_ goes after the join.
StartInv ==
  /\ made \in Nat /\ 1..made \subseteq Tasks
  /\ \A t \in 1..made : t \in Elements(accepted) \/ arg[Owner] = t
  /\ Elements(accepted) \subseteq 1..made
  /\ arg[Owner] \in (1..made) \cup {Nil}
  /\ \A w \in Workers : arg[w] = Nil
  /\ pc[Owner] \notin {"submit", "push"} => arg[Owner] = Nil
  /\ storage = 0 /\ ref \in [Tasks -> {0, Nil}] /\ \A t \in 1..made : ref[t] = 0
  /\ freed => pc[Owner] = "joined"

\* One iteration of the loop of the constructor.
LEMMA StartReactorInv ==
  ASSUME IndInv, StartInv, StartReactor
  PROVE  StartInv'
<1>1. /\ made + 1 \in Tasks /\ made' = made + 1 /\ pc[Owner] = "idle"
      /\ storage' = IF made < Cardinality(Workers) THEN storage ELSE storage + 1
      /\ ref' = [ref EXCEPT ![made + 1] = storage']
      /\ arg' = [arg EXCEPT ![Owner] = made + 1] /\ pc' = [pc EXCEPT ![Owner] = "submit"]
      /\ UNCHANGED <<accepted, freed>>
  <2>1. made + 1 \in Tasks /\ At("reactors") /\ OwnerSubmits(made + 1)
    BY DEF StartReactor
  <2>2. /\ made' = made + 1 /\ UNCHANGED freed
        /\ storage' = IF made < Cardinality(Workers) THEN storage ELSE storage + 1
        /\ ref' = [ref EXCEPT ![made + 1] = storage']
    BY DEF StartReactor, Reserved
  <2>. QED
    BY <2>1, <2>2 DEF At, OwnerSubmits, Goto, historyVars
<1>2. /\ made < Cardinality(Workers) /\ \A t \in 1..made : t \in Tasks
  <2>1. Cardinality(Workers) \in Nat
    BY ServerAssumption, ThreadPoolAssumption, FS_CardinalityType
  <2>. QED
    BY <1>1, <2>1, ServerAssumption DEF StartInv
<1>3. storage' = 0 /\ ref' \in [Tasks -> {0, Nil}] /\ \A t \in 1..made' : ref'[t] = 0
  BY <1>1, <1>2 DEF StartInv
<1>4. pc'[Owner] = "submit" /\ arg'[Owner] = made + 1 /\ \A w \in Workers : arg'[w] = arg[w]
  BY <1>1, ThreadPoolAssumption DEF IndInv, TypeOK, Threads
<1>5. arg[Owner] = Nil /\ ~ freed /\ ~ freed'
  BY <1>1 DEF StartInv
<1>6. \A t \in 1..made : t # Nil
  BY <1>2, ThreadPoolAssumption
<1>. QED
  BY <1>1, <1>3, <1>4, <1>5, <1>6 DEF StartInv

\* SubmitTask of the constructor: the task moves from arg to accepted.
LEMMA SubmittingInv ==
  ASSUME IndInv, StartInv, Submitting
  PROVE  StartInv'
<1>0. /\ UNCHANGED <<made, storage, ref, freed>>
      /\ SubmitLock(Owner) \/ Push(Owner) \/ Notify(Owner)
  BY DEF Submitting
<1>1. CASE SubmitLock(Owner)
  <2>1. pc[Owner] = "submit" /\ pc'[Owner] = "push" /\ UNCHANGED <<arg, accepted>>
    BY <1>1, ThreadPoolAssumption DEF SubmitLock, Goto, historyVars, IndInv, TypeOK, Threads
  <2>. QED
    BY <1>0, <2>1 DEF StartInv
<1>2. CASE Push(Owner)
  <2>1. /\ pc[Owner] = "push" /\ pc'[Owner] = "notify" /\ arg'[Owner] = Nil
        /\ \A w \in Workers : arg'[w] = arg[w]
        /\ accepted' = Append(accepted, arg[Owner])
    BY <1>2, ThreadPoolAssumption DEF Push, Goto, IndInv, TypeOK, Threads
  <2>2. arg[Owner] \in Tasks /\ arg[Owner] # Nil
    BY <2>1, ThreadPoolAssumption DEF IndInv, Stages, Threads
  <2>3. Elements(accepted') = Elements(accepted) \cup {arg[Owner]}
    BY <2>1, <2>2, ElementsAppend DEF IndInv, TypeOK
  <2>4. Elements(accepted)' = Elements(accepted')
    BY DEF Elements
  <2>. QED
    BY <1>0, <2>1, <2>2, <2>3, <2>4 DEF StartInv
<1>3. CASE Notify(Owner)
  <2>1. pc[Owner] = "notify" /\ UNCHANGED <<arg, accepted>>
    BY <1>3 DEF Notify, historyVars
  <2>. QED
    BY <1>0, <2>1 DEF StartInv
<1>. QED
  BY <1>0, <1>1, <1>2, <1>3

\* A step that submits nothing and does not move the constructing thread back.
LEMMA OtherInv ==
  ASSUME IndInv, StartInv, UNCHANGED <<made, storage, ref, arg, accepted>>,
         pc'[Owner] \in {"submit", "push"} => pc[Owner] \in {"submit", "push"},
         pc[Owner] = "joined" => pc'[Owner] = "joined",
         pc[Owner] \in {"submit", "push"} => pc'[Owner] \in {"submit", "push"},
         freed' => freed \/ pc[Owner] = "joined"
  PROVE  StartInv'
<1>1. Elements(accepted)' = Elements(accepted)
  BY DEF Elements
<1>. QED
  BY <1>1 DEF StartInv

\* The steps of the workers leave the constructing thread where it is.
LEMMA WorkersInv ==
  ASSUME IndInv, StartInv, NEW w \in Workers, PoolStep(w) \/ Wakes(w) \/ \E c \in Clients : LoopStep(w, c)
  PROVE  StartInv'
<1>1. UNCHANGED <<made, storage, ref, freed, arg, accepted>>
  BY DEF PoolStep, Wakes, LoopStep, Handle, HandlerThrows, Lock, Check, Sleep, Exit, Take, Finish,
         SpuriousWakeup, vars, threadVars, poolVars, historyVars
<1>2. pc'[Owner] = pc[Owner]
  <2>1. pc \in [Threads -> WorkerLabels \cup SubmitLabels \cup OwnerLabels]
        /\ Owner \in Threads /\ w \in Threads /\ w # Owner
    BY ThreadPoolAssumption DEF IndInv, TypeOK, Threads
  <2>. QED
    BY <2>1 DEF PoolStep, Wakes, LoopStep, Handle, HandlerThrows, Lock, Check, Sleep, Exit, Take,
         Finish, SpuriousWakeup, Goto, vars, threadVars
<1>. QED
  BY <1>1, <1>2, OtherInv

\* The destruction of the pool.
LEMMA DestroyInv ==
  ASSUME IndInv, StartInv, DestroyPool \/ JoiningPool
  PROVE  StartInv'
<1>1. UNCHANGED <<made, storage, ref, freed, arg, accepted>>
  BY DEF DestroyPool, JoiningPool, SetStop, Destroy, NotifyAll, Join, historyVars
<1>2. pc[Owner] \in {"idle", "notifyall", "join"} /\ pc'[Owner] \in {"notifyall", "join", "joined"}
  <2>1. pc \in [Threads -> WorkerLabels \cup SubmitLabels \cup OwnerLabels] /\ Owner \in Threads
    BY DEF IndInv, TypeOK, Threads
  <2>. QED
    BY <2>1 DEF DestroyPool, JoiningPool, SetStop, Destroy, NotifyAll, Join, Goto
<1>. QED
  BY <1>1, <1>2, OtherInv

\* The steps that leave the pool alone.
LEMMA QuietInv ==
  ASSUME IndInv, StartInv,
         \/ CreateSocket \/ Bind \/ Listen \/ SetUpFails \/ AddAcceptor \/ ListenerStep
         \/ DestroyRest \/ OnHandle \/ Begin \/ EpollFails \/ \E c \in Clients : Connect(c) \/ Ask(c)
  PROVE  StartInv'
<1>1. UNCHANGED vars /\ UNCHANGED <<made, storage, ref>> /\ (freed' => freed \/ pc[Owner] = "joined")
  BY DEF CreateSocket, Bind, Listen, SetUp, SetUpFails, AddAcceptor, ListenerStep, ListenerPoll,
     AcceptFails, SetNonBlockingFails, AcceptClient, DestroyRest, OnHandle, Begin, EpollFails, Connect,
     Ask
<1>. QED
  BY <1>1, OtherInv DEF vars, threadVars, historyVars

LEMMA StartInvariance == ServerSpec => []StartInv
<1>1. ServerInit => StartInv
  <2>. SUFFICES ASSUME ServerInit PROVE StartInv
    OBVIOUS
  <2>1. Elements(accepted) = {}
    BY DEF ServerInit, Init, Elements
  <2>2. Owner \in Threads /\ \A w \in Workers : w \in Threads
    BY DEF Threads
  <2>. QED
    BY <2>1, <2>2, ThreadPoolAssumption DEF ServerInit, Init, StartInv
<1>2. IndInv /\ StartInv /\ [ServerNext]_allVars => StartInv'
  <2>. SUFFICES ASSUME IndInv, StartInv, [ServerNext]_allVars PROVE StartInv'
    OBVIOUS
  <2>1. CASE UNCHANGED allVars
    BY <2>1, OtherInv DEF vars, threadVars, historyVars
  <2>2. CASE ServerNext
    BY <2>2, StartReactorInv, SubmittingInv, WorkersInv, DestroyInv, QuietInv
    DEF ServerNext, OwnerStep
  <2>. QED
    BY <2>1, <2>2
<1>. QED
  BY <1>1, <1>2, PoolInv, PTL DEF ServerSpec

\* What has been started was accepted before.
LEMMA StartedAccepted ==
  ASSUME IndInv
  PROVE  Elements(started) \subseteq Elements(accepted)
<1>1. accepted = started \o queue /\ started \in Seq(Tasks) /\ queue \in Seq(Tasks)
  BY DEF IndInv, FifoOnce, TypeOK
<1>2. \A i \in DOMAIN started : i \in DOMAIN accepted /\ accepted[i] = started[i]
  BY <1>1
<1>. QED
  BY <1>2 DEF Elements

\* The lambda that Server::Server submits (server.cc 21-22): the reference it
\* captures points to an element that has not moved when a worker uses it.
THEOREM ReferenceSafety == ServerSpec => []ReferencesHold
<1>1. IndInv /\ StartInv => ReferencesHold
  <2>. SUFFICES ASSUME IndInv, StartInv, NEW w \in Workers, pc[w] = "run"
                PROVE  ref[task[w]] = storage
    BY DEF ReferencesHold
  <2>1. task[w] \in Elements(started)
    BY DEF IndInv, Accounted, Busy
  <2>. QED
    BY <2>1, StartedAccepted DEF StartInv
<1>. QED
  BY <1>1, PoolInv, StartInvariance, PTL

\* The order of the members of Server (server.h 53-58): reactors_ is destroyed
\* when every loop has been started and has ended.
THEOREM DestructionSafety == ServerSpec => []LoopersOutliveLoops
<1>1. StartInv /\ JoinedMeansAllRan => LoopersOutliveLoops
  <2>. SUFFICES ASSUME StartInv, JoinedMeansAllRan, freed PROVE 1..made \subseteq ran
    BY DEF LoopersOutliveLoops
  <2>1. pc[Owner] = "joined" /\ arg[Owner] = Nil /\ Elements(accepted) = ran
    BY DEF StartInv, JoinedMeansAllRan
  <2>2. \A t \in 1..made : t # Nil
    BY ThreadPoolAssumption DEF StartInv
  <2>. QED
    BY <2>1, <2>2 DEF StartInv
<1>. QED
  BY <1>1, PoolRefinement, JoinSafety, StartInvariance, PTL

\* The types of the variables that Server adds to those of the pool.
OwnTypes ==
  /\ proc \in {"up", "exited", "aborted"} /\ stage \in Stages_
  /\ freed \in BOOLEAN /\ handler \in BOOLEAN /\ ready \in BOOLEAN
  /\ sock \in {"none", "open", "bound", "listening", "registered", "closed"}
  /\ where \in [Clients -> {"away", "backlog", "open", "asked", "left", "done"}]
  /\ looper \in [Clients -> Tasks \cup {Nil}]

\* Every variable of the Server and of its pool keeps its type; in particular
\* the constructor makes no more loopers than the pool has workers and leaves
\* a reference in every task it submits (server.cc 15-24).
THEOREM ServerTypeSafety == ServerSpec => []ServerTypeOK
<1>1. ServerInit => OwnTypes
  BY DEF ServerInit, OwnTypes, Stages_
<1>2. OwnTypes /\ [ServerNext]_allVars => OwnTypes'
  <2>. SUFFICES ASSUME OwnTypes, [ServerNext]_allVars PROVE OwnTypes'
    OBVIOUS
  <2>1. CASE \/ StartReactor \/ Submitting \/ DestroyPool \/ JoiningPool
             \/ \E w \in Workers : PoolStep(w) \/ Wakes(w)
    BY <2>1 DEF StartReactor, Submitting, DestroyPool, JoiningPool, PoolStep, Wakes, OwnTypes
  <2>2. CASE CreateSocket \/ Bind \/ Listen \/ SetUpFails \/ AddAcceptor
    BY <2>2 DEF CreateSocket, Bind, Listen, SetUp, SetUpFails, Raise, AddAcceptor, OwnTypes, Stages_
  <2>3. CASE ListenerPoll \/ AcceptFails
    BY <2>3 DEF ListenerPoll, Rearmed, AcceptFails, OwnTypes, Stages_
  <2>4. ASSUME NEW c \in Clients, SetNonBlockingFails(c) PROVE OwnTypes'
    BY <2>4 DEF SetNonBlockingFails, Raise, OwnTypes, Stages_
  <2>5. ASSUME NEW c \in Clients, NEW t \in Tasks, AcceptClient(c, t) PROVE OwnTypes'
    BY <2>5 DEF AcceptClient, Raise, OwnTypes, Stages_
  <2>6. CASE OnHandle \/ Begin \/ EpollFails
    BY <2>6, ZenonT(60) DEF OnHandle, Begin, Raise, EpollFails, OwnTypes, Stages_
  <2>7. CASE DestroyRest
    BY <2>7 DEF DestroyRest, OwnTypes, Stages_
  <2>8. ASSUME NEW c \in Clients, Connect(c) PROVE OwnTypes'
    BY <2>8 DEF Connect, OwnTypes
  <2>9. ASSUME NEW w \in Workers, NEW c \in Clients, LoopStep(w, c) PROVE OwnTypes'
    BY <2>9 DEF LoopStep, Handle, HandlerThrows, OwnTypes
  <2>10. ASSUME NEW c \in Clients, Ask(c) PROVE OwnTypes'
    BY <2>10 DEF Ask, OwnTypes
  <2>11. CASE UNCHANGED allVars
    BY <2>11 DEF OwnTypes
  <2>. QED
    BY <2>1, <2>2, <2>3, <2>4, <2>5, <2>6, <2>7, <2>8, <2>9, <2>10, <2>11
    DEF ServerNext, OwnerStep, ListenerStep
<1>3. IndInv /\ StartInv /\ OwnTypes => ServerTypeOK
  <2>. SUFFICES ASSUME IndInv, StartInv, OwnTypes PROVE ServerTypeOK
    OBVIOUS
  <2>1. made \in 0..Cardinality(Workers)
    <3>1. Cardinality(Workers) \in Nat /\ Tasks = 1..Cardinality(Workers)
      BY ServerAssumption, ThreadPoolAssumption, FS_CardinalityType
    <3>2. made \in Nat /\ (made # 0 => made \in 1..Cardinality(Workers))
      BY <3>1 DEF StartInv
    <3>. QED
      BY <3>1, <3>2
  <2>2. storage \in Nat /\ ref \in [Tasks -> Nat \cup {Nil}]
    BY DEF StartInv
  <2>3. TypeOK
    BY DEF IndInv
  <2>. QED
    BY <2>1, <2>2, <2>3 DEF OwnTypes, ServerTypeOK
<1>. QED
  BY <1>1, <1>2, <1>3, PoolInv, StartInvariance, PTL DEF ServerSpec
=============================================================================
