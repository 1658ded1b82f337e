-------------------------- MODULE ServerLifecycle --------------------------
(***************************************************************************)
(* Server from construction to destruction, built on ThreadPool: the owner *)
(* of the pool is the thread that constructs the Server, a task is the     *)
(* StartLoop of one Looper, and loopers and tasks are numbered by their    *)
(* place in reactors_.  The constructor starts the loops and then sets up  *)
(* the listening socket; Begin turns the thread into the listener.  System *)
(* calls may fail, callbacks may throw, and an exception unwinds the       *)
(* Server if somebody catches it and terminates the process otherwise.     *)
(***************************************************************************)
EXTENDS ThreadPool

CONSTANTS
  Clients,
  MaxFds     \* client descriptors the process may have open

ASSUME ServerAssumption ==
  /\ Tasks = 1..Cardinality(Workers)
  /\ Spawn = [t \in Tasks |-> Nil] /\ Endless = {}
  /\ MaxFds \in Nat \ {0}

VARIABLES
  proc,      \* the process: "up", "exited" (std::exit) or "aborted" (std::terminate)
  stage,     \* where the thread is in Server::Server, Begin or ~Server
  made,      \* reactors_.size(), the candidates of the agent
  storage,   \* which allocation holds the elements of reactors_
  ref,       \* ref[t]: the allocation the reference in task t points into
  freed,     \* reactors_ has been destroyed
  handler,   \* on_handle_set_
  sock,      \* the listening socket
  ready,     \* the listening socket is on the ready list of the listener's epoll
  where,     \* where[c]: client c is "away" or in the "backlog"; its connection is
             \* "open", has input ("asked") or its end ("left"); or it is "done"
  looper     \* looper[c]: the Looper that owns the connection of c

setupVars  == <<made, storage, ref, handler>>
clientVars == <<where, looper>>
listenVars == <<sock, ready, clientVars>>
serverVars == <<proc, stage, freed, setupVars, listenVars>>
allVars    == <<vars, serverVars>>

ServerInit ==
  /\ Init
  /\ proc = "up" /\ stage = "reactors"
  /\ made = 0 /\ storage = 0 /\ ref = [t \in Tasks |-> Nil]
  /\ freed = FALSE /\ handler = FALSE
  /\ sock = "none" /\ ready = FALSE
  /\ where = [c \in Clients |-> "away"] /\ looper = [c \in Clients |-> Nil]

Up == proc = "up"
At(s) == Up /\ stage = s /\ pc[Owner] = "idle"

\* An exception: it unwinds the Server if its caller catches it, and ends
\* the process without unwinding if nobody does.
Raise ==
  \/ stage' = "unwind" /\ UNCHANGED proc
  \/ proc' = "aborted" /\ UNCHANGED stage

-----------------------------------------------------------------------------
(* The constructor.                                                        *)

\* Variant: nothing is reserved.
ReservedNothing == 0

\* reactors_.reserve(pool_->GetSize())
Reserved == Cardinality(Workers)

\* Variant: the loop runs once too often.
StartReactorExtra ==
  /\ At("reactors") /\ made <= Cardinality(Workers)
  /\ made' = made + 1
  /\ OwnerSubmits(made + 1)
  /\ UNCHANGED <<proc, stage, storage, ref, freed, handler, listenVars>>

\* One iteration up to SubmitTask.  emplace_back moves the elements when the
\* allocation is full; the task keeps a reference to its element.
StartReactor ==
  /\ At("reactors") /\ made + 1 \in Tasks
  /\ made' = made + 1
  /\ storage' = IF made < Reserved THEN storage ELSE storage + 1
  /\ ref' = [ref EXCEPT ![made + 1] = storage']
  /\ OwnerSubmits(made + 1)
  /\ UNCHANGED <<proc, stage, freed, handler, listenVars>>

\* SubmitTask of the thread that runs the constructor.
Submitting ==
  /\ Up
  /\ SubmitLock(Owner) \/ Push(Owner) \/ Notify(Owner)
  /\ UNCHANGED serverVars

SetUp(from, to, state) ==
  /\ At(from)
  /\ stage' = to /\ sock' = state
  /\ UNCHANGED <<vars, proc, freed, setupVars, ready, clientVars>>

CreateSocket == made + 1 \notin Tasks /\ SetUp("reactors", "bind", "open")
Bind         == SetUp("bind", "listen", "bound")
Listen       == SetUp("listen", "register", "listening")

\* socket(), setsockopt() or bind(), and listen() fail; the Socket that the
\* Acceptor was building is destroyed with the exception.
SetUpFails ==
  /\ (At("reactors") /\ made + 1 \notin Tasks) \/ At("bind") \/ At("listen")
  /\ Raise
  /\ sock' = "closed"
  /\ UNCHANGED <<vars, freed, setupVars, ready, clientVars>>

Backlog == {c \in Clients : where[c] = "backlog"}

AddAcceptor ==
  /\ At("register")
  /\ stage' = "built" /\ sock' = "registered"
  /\ ready' = (Backlog # {})
  /\ UNCHANGED <<vars, proc, freed, setupVars, clientVars>>

-----------------------------------------------------------------------------
(* OnHandle, Begin and the listener.                                       *)

OnHandle ==
  /\ At("built")
  /\ handler' = TRUE
  /\ UNCHANGED <<vars, proc, stage, freed, made, storage, ref, listenVars>>

\* Variant: Begin does not ask for a callback.
BeginUnchecked ==
  /\ At("built")
  /\ stage' = "serving"
  /\ UNCHANGED <<vars, proc, freed, setupVars, listenVars>>

Begin ==
  /\ At("built")
  /\ \/ handler /\ stage' = "serving" /\ UNCHANGED proc
     \/ ~ handler /\ Raise
  /\ UNCHANGED <<vars, freed, setupVars, listenVars>>

\* Variant: the listener is edge triggered.
RearmedOnce == FALSE

\* kRead without kET: a reported socket stays on the ready list as long as
\* clients wait.
Rearmed == TRUE

ListenerPoll ==
  /\ At("serving") /\ ready /\ Backlog # {}
  /\ stage' = "accept"
  /\ ready' = Rearmed
  /\ UNCHANGED <<vars, proc, freed, setupVars, sock, clientVars>>

\* A client with input, or with the end of it, that no callback has seen.
Asking(c) == where[c] \in {"asked", "left"}

Open == {c \in Clients : where[c] = "open" \/ Asking(c)}

\* The client gets a descriptor and a Looper; then the OnAccept callback
\* returns or throws.
AcceptClient(c, t) ==
  /\ At("accept") /\ c \in Backlog /\ Cardinality(Open) < MaxFds
  /\ t \in 1..made
  /\ where' = [where EXCEPT ![c] = "open"]
  /\ looper' = [looper EXCEPT ![c] = t]
  /\ (stage' = "serving" /\ UNCHANGED proc) \/ Raise
  /\ UNCHANGED <<vars, freed, setupVars, sock, ready>>

\* "under high pressure, accept might fail": the client stays in the backlog.
AcceptFails ==
  /\ At("accept") /\ Cardinality(Open) >= MaxFds
  /\ stage' = "serving"
  /\ UNCHANGED <<vars, proc, freed, setupVars, listenVars>>

\* GetAttrs fails in SetNonBlocking; the accepted socket is closed.
SetNonBlockingFails(c) ==
  /\ At("accept") /\ c \in Backlog /\ Cardinality(Open) < MaxFds
  /\ Raise
  /\ where' = [where EXCEPT ![c] = "done"]
  /\ UNCHANGED <<vars, freed, setupVars, sock, ready, looper>>

-----------------------------------------------------------------------------
(* The workers.                                                            *)

PoolStep(w) ==
  /\ Up
  /\ Lock(w) \/ Check(w) \/ Sleep(w) \/ Exit(w) \/ Take(w)
  /\ UNCHANGED serverVars

Wakes(w) == Up /\ SpuriousWakeup(w) /\ UNCHANGED serverVars

Reports(w, c) == Up /\ pc[w] = "run" /\ looper[c] = task[w] /\ Asking(c) /\ handler

\* The loop of task[w] runs the callback of client c.  At the end of the input
\* it deletes the connection; after requests it keeps the connection or
\* deletes it, as they ask for.
Handle(w, c) ==
  /\ Reports(w, c)
  /\ \/ where' = [where EXCEPT ![c] = "done"]
     \/ where[c] = "asked" /\ where' = [where EXCEPT ![c] = "open"]
  /\ UNCHANGED <<vars, proc, stage, freed, setupVars, sock, ready, looper>>

\* The callback throws: StartLoop ends, the exception stays in the future.
HandlerThrows(w, c) ==
  /\ Reports(w, c)
  /\ Finish(w)
  /\ UNCHANGED serverVars

\* epoll_create1, epoll_ctl or epoll_wait fails in some thread.
EpollFails ==
  /\ \/ At("reactors") /\ made + 1 \in Tasks
     \/ At("register") \/ At("serving") \/ At("accept")
     \/ Up /\ \E w \in Workers : pc[w] = "run"
  /\ proc' = "exited"
  /\ UNCHANGED <<vars, stage, freed, setupVars, listenVars>>

-----------------------------------------------------------------------------
(* Destruction, in the reverse order of the members: listener_, pool_,     *)
(* agent_, reactors_, acceptor_.                                           *)

\* Variant: reactors_ is declared after pool_.
DestroyPoolLast ==
  /\ At("unwind")
  /\ SetStop
  /\ freed' = TRUE
  /\ UNCHANGED <<proc, stage, setupVars, listenVars>>

DestroyPool ==
  /\ At("unwind")
  /\ SetStop
  /\ UNCHANGED serverVars

JoiningPool == Up /\ Destroy /\ UNCHANGED serverVars

DestroyRest ==
  /\ Up /\ stage = "unwind" /\ pc[Owner] = "joined"
  /\ stage' = "left" /\ freed' = TRUE /\ sock' = "closed"
  /\ where' = [c \in Clients |-> IF where[c] = "away" THEN "away" ELSE "done"]
  /\ UNCHANGED <<vars, proc, setupVars, ready, looper>>

-----------------------------------------------------------------------------
\* Environment: a client connects to a socket that listens.
Connect(c) ==
  /\ Up /\ sock \in {"listening", "registered"} /\ where[c] = "away"
  /\ where' = [where EXCEPT ![c] = "backlog"]
  /\ ready' = (ready \/ sock = "registered")
  /\ UNCHANGED <<vars, proc, stage, freed, setupVars, sock, looper>>

\* Environment: the client of an open connection sends requests, or leaves.
\* There is no timeout: one that does neither keeps its descriptor.
Ask(c) ==
  /\ Up
  /\ \/ where[c] = "open" /\ where' = [where EXCEPT ![c] = "asked"]
     \/ where[c] \in {"open", "asked"} /\ where' = [where EXCEPT ![c] = "left"]
  /\ UNCHANGED <<vars, proc, stage, freed, setupVars, sock, ready, looper>>

ListenerStep ==
  \/ ListenerPoll \/ AcceptFails
  \/ \E c \in Clients : SetNonBlockingFails(c) \/ \E t \in Tasks : AcceptClient(c, t)

OwnerStep ==
  \/ StartReactor \/ Submitting
  \/ CreateSocket \/ Bind \/ Listen \/ SetUpFails \/ AddAcceptor
  \/ ListenerStep
  \/ DestroyPool \/ JoiningPool \/ DestroyRest

LoopStep(w, c) == Handle(w, c) \/ HandlerThrows(w, c)

ServerNext ==
  \/ OwnerStep \/ OnHandle \/ Begin
  \/ \E w \in Workers : PoolStep(w) \/ Wakes(w) \/ \E c \in Clients : LoopStep(w, c)
  \/ EpollFails
  \/ \E c \in Clients : Connect(c) \/ Ask(c)

ServerSpec == ServerInit /\ [][ServerNext]_allVars

\* Threads run, a mutex that is free again and again is obtained in the end.
\* A loop handles all that a poll has reported, so that no client is passed over.
\* Nobody has to connect, to send anything or to leave, nobody has to call
\* OnHandle or Begin, and no call has to fail.
ServerFairness ==
  /\ WF_allVars(OwnerStep) /\ SF_allVars(Submitting)
  /\ \A w \in Workers :
       /\ WF_allVars(PoolStep(w)) /\ SF_allVars(Up /\ Lock(w) /\ UNCHANGED serverVars)
       /\ \A c \in Clients : WF_allVars(LoopStep(w, c))

ServerFairSpec == ServerSpec /\ ServerFairness

-----------------------------------------------------------------------------
(* Properties.                                                             *)

Stages_ == {"reactors", "bind", "listen", "register", "built", "serving",
            "accept", "unwind", "left"}

\* Every variable keeps its type.
ServerTypeOK ==
  /\ TypeOK
  /\ proc \in {"up", "exited", "aborted"} /\ stage \in Stages_
  /\ made \in 0..Cardinality(Workers) /\ storage \in Nat
  /\ ref \in [Tasks -> Nat \cup {Nil}]
  /\ freed \in BOOLEAN /\ handler \in BOOLEAN /\ ready \in BOOLEAN
  /\ sock \in {"none", "open", "bound", "listening", "registered", "closed"}
  /\ where \in [Clients -> {"away", "backlog", "open", "asked", "left", "done"}]
  /\ looper \in [Clients -> Tasks \cup {Nil}]

\* A worker that starts a loop follows a reference into reactors_, taken while
\* the constructor was still adding to it: it is never a moved element.
ReferencesHold ==
  \A w \in Workers : pc[w] = "run" => ref[task[w]] = storage

\* ~Server, or the unwinding of its constructor, destroys the Loopers only
\* after the loops of all of them have been started and have ended.
LoopersOutliveLoops == freed => 1..made \subseteq ran

Serving == Up /\ stage \in {"serving", "accept"}

\* The process goes on serving, and no loop has been ended by an exception.
Healthy == Serving /\ ran = {}

\* "under high pressure, accept might fail. but server should not fail at this
\* time": a client that connects while all descriptors are in use is accepted
\* in the end, because the listener is not edge triggered, unless from some
\* point on the clients with a connection never give one up.
BacklogDrained ==
  []<>(Cardinality(Open) < MaxFds) =>
    \A c \in Clients : (where[c] = "backlog") ~> (where[c] # "backlog" \/ ~ Serving)

\* Whichever looper the agent picks, a worker runs its loop in the end, and a
\* client that sends something or leaves is handled by a callback that is set.
AcceptedServed ==
  \A c \in Clients : Asking(c) ~> (~ Asking(c) \/ ~ Healthy)
=============================================================================
