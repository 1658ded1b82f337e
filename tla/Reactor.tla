------------------------------ MODULE Reactor ------------------------------
(***************************************************************************)
(* The reactor core of the server: the listener thread (Acceptor on its    *)
(* own Looper), the reactor threads (one Looper with one Poller each), the *)
(* Connection objects they hand over, and the kernel objects they share:   *)
(* the descriptor table, the epoll instances and the forked CGI children.  *)
(*                                                                         *)
(* A value of Conns is at once a client, the open file description of its  *)
(* socket and the Connection object that owns the descriptor.  Requests    *)
(* are whole HTTP requests (the framing is not modelled here).  Sets stand *)
(* for the accept backlog, the epoll ready list and the ready vector, so   *)
(* every order of service is explored.                                     *)
(***************************************************************************)
EXTENDS Naturals, Sequences, FiniteSets

CONSTANTS
  Conns,        \* clients, one Connection object each
  Reactors,     \* the loopers of the thread pool
  Fds,          \* descriptors the process may open for clients
  Requests,     \* request values
  Closing,      \* the requests whose handler returns should_finish
  Cgi,          \* the requests answered by a forked CGI program
  MaxRequests,  \* bound: requests a client sends
  PollSize,     \* Poller::kDefaultListenedEvents
  Listener,     \* the thread that runs the acceptor's looper
  Nil

ASSUME ReactorAssumption ==
  /\ Closing \subseteq Requests
  /\ Cgi \subseteq Requests
  /\ MaxRequests \in Nat
  /\ PollSize \in Nat \ {0}
  /\ Nil \notin Conns \cup Reactors \cup Fds
  /\ Listener \notin Reactors \cup {Nil}

VARIABLES
  client,       \* client[c]: "idle" before connect(), "up", "gone" after FIN or RST
  sent,         \* sent[c]: requests the client has sent
  rx,           \* rx[c]: requests in the socket's receive queue
  file,         \* file[f]: the description behind descriptor f, or Nil
  epoll,        \* epoll[r]: the descriptions registered with r's epoll instance
  rdl,          \* rdl[r]: the epoll ready list (edge triggered)
  child,        \* child[r]: descriptions held by the CGI child r has forked
  obj,          \* obj[c]: the Connection object: "none", "live" or "freed"
  connFd,       \* connFd[c]: Socket::fd_
  owner,        \* owner[c]: Connection::owner_looper_
  rbuf,         \* rbuf[c]: Connection::read_buffer_
  served,       \* served[c]: responses sent
  connections,  \* connections[r][f]: Looper::connections_
  mtx,          \* mtx[r]: the holder of Looper::mtx_
  pc,           \* pc[r]: where the reactor thread is
  batch,        \* batch[r]: ready_connections not yet started
  cur,          \* cur[r]: the connection whose callback runs
  lpc,          \* where the listener thread is
  lcur          \* the connection the acceptor callback is handing over

clientVars == <<client, sent>>
kernelVars == <<rx, file, epoll, rdl, child>>
connVars   == <<obj, connFd, owner, rbuf, served>>
looperVars == <<connections, mtx>>
reactVars  == <<pc, batch, cur>>
listenVars == <<lpc, lcur>>
vars == <<clientVars, kernelVars, connVars, looperVars, reactVars, listenVars>>

Init ==
  /\ client = [c \in Conns |-> "idle"]
  /\ sent = [c \in Conns |-> 0]
  /\ rx = [c \in Conns |-> <<>>]
  /\ file = [f \in Fds |-> Nil]
  /\ epoll = [r \in Reactors |-> {}]
  /\ rdl = [r \in Reactors |-> {}]
  /\ child = [r \in Reactors |-> {}]
  /\ obj = [c \in Conns |-> "none"]
  /\ connFd = [c \in Conns |-> Nil]
  /\ owner = [c \in Conns |-> Nil]
  /\ rbuf = [c \in Conns |-> <<>>]
  /\ served = [c \in Conns |-> 0]
  /\ connections = [r \in Reactors |-> [f \in Fds |-> Nil]]
  /\ mtx = [r \in Reactors |-> Nil]
  /\ pc = [r \in Reactors |-> "next"]
  /\ batch = [r \in Reactors |-> {}]
  /\ cur = [r \in Reactors |-> Nil]
  /\ lpc = "accept"
  /\ lcur = Nil

-----------------------------------------------------------------------------
(* Clients and the network stack (external to the program).                *)

\* recv() on the socket would not answer EAGAIN.
Readable(c) == rx[c] # <<>> \/ client[c] = "gone"

\* What epoll does when input arrives on a description: every instance the
\* description is registered with puts it on its ready list.
Signal(c) == rdl' = [r \in Reactors |-> IF c \in epoll[r] THEN rdl[r] \cup {c} ELSE rdl[r]]

\* A description that no process refers to any more leaves every epoll
\* instance; tab and held are the descriptor tables after the step.
Referenced(c, tab, held) ==
  (\E f \in Fds : tab[f] = c) \/ (\E r \in Reactors : c \in held[r])
Forget(tab, held) ==
  /\ epoll' = [r \in Reactors |-> {c \in epoll[r] : Referenced(c, tab, held)}]
  /\ rdl' = [r \in Reactors |-> {c \in rdl[r] : Referenced(c, tab, held)}]

Connect(c) ==
  /\ client[c] = "idle"
  /\ client' = [client EXCEPT ![c] = "up"]
  /\ UNCHANGED <<sent, kernelVars, connVars, looperVars, reactVars, listenVars>>

\* The socket can still receive: it is queued for accept(), or open.
Receiving(c) == obj[c] # "freed" \/ \E r \in Reactors : c \in child[r]

ClientSend(c, q) ==
  /\ client[c] = "up" /\ sent[c] < MaxRequests /\ Receiving(c)
  /\ sent' = [sent EXCEPT ![c] = @ + 1]
  /\ rx' = [rx EXCEPT ![c] = Append(@, q)]
  /\ Signal(c)
  /\ UNCHANGED <<client, file, epoll, child, connVars, looperVars, reactVars, listenVars>>

\* FIN keeps the queued input, RST discards it; recv() then answers 0 or an
\* error, which Connection::Receive treats alike.
ClientLeave(c) ==
  /\ client[c] = "up"
  /\ client' = [client EXCEPT ![c] = "gone"]
  /\ rx' \in {rx, [rx EXCEPT ![c] = <<>>]}
  /\ Signal(c)
  /\ UNCHANGED <<sent, file, epoll, child, connVars, looperVars, reactVars, listenVars>>

-----------------------------------------------------------------------------
(* The listener thread: Acceptor's callback and Looper::AddConnection.     *)

\* accept4() answers any connected client that has no Connection yet; a
\* failing accept4() makes the callback return at once and changes nothing.
AcceptClientAddress(c, f) == client[c] # "idle" /\ obj[c] = "none" /\ file[f] = Nil

\* The choice is random: any of the candidates the server has added.
SelectCandidate == Reactors

\* Variant: the callback forgets SetLooper.
AcceptNoLooper(c, f, r) ==
  /\ lpc = "accept"
  /\ AcceptClientAddress(c, f)
  /\ file' = [file EXCEPT ![f] = c]
  /\ obj' = [obj EXCEPT ![c] = "live"]
  /\ connFd' = [connFd EXCEPT ![c] = f]
  /\ lcur' = c
  /\ lpc' = "lock"
  /\ UNCHANGED <<clientVars, rx, epoll, rdl, child, owner, rbuf, served, looperVars, reactVars>>

\* The callback wraps the accepted socket, picks a reactor and sets the
\* looper.
Accept(c, f, r) ==
  /\ lpc = "accept"
  /\ AcceptClientAddress(c, f)
  /\ file' = [file EXCEPT ![f] = c]
  /\ obj' = [obj EXCEPT ![c] = "live"]
  /\ connFd' = [connFd EXCEPT ![c] = f]
  /\ owner' = [owner EXCEPT ![c] = r]
  /\ lcur' = c
  /\ lpc' = "lock"
  /\ UNCHANGED <<clientVars, rx, epoll, rdl, child, rbuf, served, looperVars, reactVars>>

AddLock ==
  /\ lpc = "lock"
  /\ mtx[owner[lcur]] = Nil
  /\ mtx' = [mtx EXCEPT ![owner[lcur]] = Listener]
  /\ lpc' = "add"
  /\ UNCHANGED <<clientVars, kernelVars, connVars, connections, reactVars, lcur>>

\* Variant: the lock is dropped before the map insertion.
EpollAddUnlocks ==
  /\ lpc = "add"
  /\ epoll' = [epoll EXCEPT ![owner[lcur]] = @ \cup {lcur}]
  /\ rdl' = [rdl EXCEPT ![owner[lcur]] = IF Readable(lcur) THEN @ \cup {lcur} ELSE @]
  /\ mtx' = [mtx EXCEPT ![owner[lcur]] = Nil]
  /\ lpc' = "insert"
  /\ UNCHANGED <<clientVars, rx, file, child, connVars, connections, reactVars, lcur>>

\* EPOLL_CTL_ADD: input that is already there counts as the first edge.
EpollAdd ==
  /\ lpc = "add"
  /\ epoll' = [epoll EXCEPT ![owner[lcur]] = @ \cup {lcur}]
  /\ rdl' = [rdl EXCEPT ![owner[lcur]] = IF Readable(lcur) THEN @ \cup {lcur} ELSE @]
  /\ lpc' = "insert"
  /\ UNCHANGED <<clientVars, rx, file, child, connVars, looperVars, reactVars, lcur>>

\* unordered_map::insert leaves an existing entry alone and the unique_ptr
\* argument then destroys the new Connection, which closes its descriptor.
Insert ==
  LET r == owner[lcur]
      f == connFd[lcur]
  IN
  /\ lpc = "insert"
  /\ IF connections[r][f] = Nil
       THEN /\ connections' = [connections EXCEPT ![r][f] = lcur]
            /\ UNCHANGED <<file, epoll, rdl, obj>>
       ELSE /\ file' = [file EXCEPT ![f] = Nil]
            /\ Forget(file', child)
            /\ obj' = [obj EXCEPT ![lcur] = "freed"]
            /\ UNCHANGED connections
  /\ mtx' = [mtx EXCEPT ![r] = Nil]
  /\ lpc' = "accept"
  /\ lcur' = Nil
  /\ UNCHANGED <<clientVars, rx, child, connFd, owner, rbuf, served, reactVars>>

-----------------------------------------------------------------------------
(* The reactor threads: Looper::StartLoop, Poller::Poll and the handler.   *)

\* epoll_wait(): the ready list is walked until PollSize events are found or
\* the list is exhausted; an entry that is no longer readable is dropped.
Poll(r) ==
  /\ pc[r] = "next" /\ batch[r] = {} /\ rdl[r] # {}
  /\ \E S \in SUBSET rdl[r] :
       LET ready == {c \in S : Readable(c)} IN
       /\ Cardinality(ready) <= PollSize
       /\ S = rdl[r] \/ Cardinality(ready) = PollSize
       /\ batch' = [batch EXCEPT ![r] = ready]
       /\ rdl' = [rdl EXCEPT ![r] = @ \ S]
  /\ UNCHANGED <<clientVars, rx, file, epoll, child, connVars, looperVars, pc, cur, listenVars>>

\* Connection::Start() on the next ready connection.  A freed object has no
\* callback to run: what happens then is outside the model.
Start(r, c) ==
  /\ pc[r] = "next" /\ c \in batch[r] /\ obj[c] = "live"
  /\ batch' = [batch EXCEPT ![r] = @ \ {c}]
  /\ cur' = [cur EXCEPT ![r] = c]
  /\ pc' = [pc EXCEPT ![r] = "recv"]
  /\ UNCHANGED <<clientVars, kernelVars, connVars, looperVars, listenVars>>

Goto(r, label) == pc' = [pc EXCEPT ![r] = label]

\* One successful recv(); a longer read is several of these steps.
Recv(r) ==
  LET c == cur[r] IN
  /\ pc[r] = "recv" /\ rx[c] # <<>>
  /\ rbuf' = [rbuf EXCEPT ![c] = Append(@, Head(rx[c]))]
  /\ rx' = [rx EXCEPT ![c] = Tail(@)]
  /\ UNCHANGED <<clientVars, file, epoll, rdl, child, obj, connFd, owner, served,
                 looperVars, reactVars, listenVars>>

\* recv() answers 0 or an error: the client has exited.
RecvExit(r) ==
  /\ pc[r] = "recv" /\ rx[cur[r]] = <<>> /\ client[cur[r]] = "gone"
  /\ Goto(r, "delete")
  /\ UNCHANGED <<clientVars, kernelVars, connVars, looperVars, batch, cur, listenVars>>

\* Variant: the receive loop stops after a successful recv().
RecvAgainUndrained(r) ==
  /\ pc[r] = "recv" /\ (rbuf[cur[r]] # <<>> \/ ~ Readable(cur[r]))
  /\ Goto(r, "parse")
  /\ UNCHANGED <<clientVars, kernelVars, connVars, looperVars, batch, cur, listenVars>>

\* recv() answers EAGAIN: everything has been read.
RecvAgain(r) ==
  /\ pc[r] = "recv" /\ ~ Readable(cur[r])
  /\ Goto(r, "parse")
  /\ UNCHANGED <<clientVars, kernelVars, connVars, looperVars, batch, cur, listenVars>>

\* The response to the first buffered request goes out; finish is what the
\* handler returned.
Answer(r, finish) ==
  LET c == cur[r] IN
  /\ rbuf' = [rbuf EXCEPT ![c] = Tail(@)]
  /\ served' = [served EXCEPT ![c] = @ + 1]
  /\ Goto(r, IF finish THEN "delete" ELSE "parse")
  /\ UNCHANGED <<clientVars, rx, file, obj, connFd, owner, looperVars, batch, cur, listenVars>>

Request(r) == Head(rbuf[cur[r]])
HasRequest(r) == pc[r] = "parse" /\ rbuf[cur[r]] # <<>>

\* A static resource, a 404 or a 400.
Serve(r) ==
  /\ HasRequest(r) /\ Request(r) \notin Cgi
  /\ Answer(r, Request(r) \in Closing)
  /\ UNCHANGED <<epoll, rdl, child>>

\* A CGI request without a valid program (400, 404: finish), or one whose
\* open() or fork() failed (an error text is the response body).
RefuseCgi(r) ==
  /\ HasRequest(r) /\ Request(r) \in Cgi
  /\ \E finish \in {TRUE, Request(r) \in Closing} : Answer(r, finish)
  /\ UNCHANGED <<epoll, rdl, child>>

\* fork(): the child has a copy of the descriptor table.
Fork(r) ==
  /\ HasRequest(r) /\ Request(r) \in Cgi
  /\ child' = [child EXCEPT ![r] = {c \in Conns : \E f \in Fds : file[f] = c}]
  /\ Goto(r, "wait")
  /\ UNCHANGED <<clientVars, rx, file, epoll, rdl, connVars, looperVars, batch, cur, listenVars>>

\* execve() closes the child's copies (they are SOCK_CLOEXEC); so does the
\* exit when it fails.
Exec(r) ==
  /\ child[r] # {}
  /\ child' = [child EXCEPT ![r] = {}]
  /\ Forget(file, child')
  /\ UNCHANGED <<clientVars, rx, file, connVars, looperVars, reactVars, listenVars>>

\* The program has ended and waitpid() lets the reactor answer.
Reap(r) ==
  /\ pc[r] = "wait" /\ child[r] = {}
  /\ Answer(r, Request(r) \in Closing)
  /\ UNCHANGED <<epoll, rdl, child>>

\* FindAndPopTill finds no further request: the callback returns.
Return(r) ==
  /\ pc[r] = "parse" /\ rbuf[cur[r]] = <<>>
  /\ Goto(r, "next")
  /\ cur' = [cur EXCEPT ![r] = Nil]
  /\ UNCHANGED <<clientVars, kernelVars, connVars, looperVars, batch, listenVars>>

-----------------------------------------------------------------------------
(* Looper::DeleteConnection(from_fd) on the connection's own looper.       *)

DeleteLock(r) ==
  /\ pc[r] = "delete" /\ mtx[r] = Nil
  /\ mtx' = [mtx EXCEPT ![r] = r]
  /\ Goto(r, "find")
  /\ UNCHANGED <<clientVars, kernelVars, connVars, connections, batch, cur, listenVars>>

\* Variant: the map entry outlives the critical section.
EraseKeepsEntry(r) ==
  /\ pc[r] = "find"
  /\ Goto(r, "close")
  /\ UNCHANGED <<clientVars, kernelVars, connVars, looperVars, batch, cur, listenVars>>

\* find() by descriptor: a miss returns false, which the handler ignores; a
\* hit unlinks the map node ...
Erase(r) ==
  LET f == connFd[cur[r]] IN
  /\ pc[r] = "find"
  /\ Goto(r, IF connections[r][f] = Nil THEN "unlock" ELSE "close")
  /\ connections' = [connections EXCEPT ![r][f] = Nil]
  /\ UNCHANGED <<clientVars, kernelVars, connVars, mtx, batch, cur, listenVars>>

\* Variant: the Socket goes without closing its descriptor.
CloseLeaks(r) ==
  /\ pc[r] = "close"
  /\ obj' = [obj EXCEPT ![cur[r]] = "freed"]
  /\ Goto(r, "unlock")
  /\ UNCHANGED <<clientVars, kernelVars, connFd, owner, rbuf, served, looperVars, batch, cur, listenVars>>

\* ... and destroys the Connection, whose Socket closes the descriptor.
Close(r) ==
  LET c == cur[r] IN
  /\ pc[r] = "close"
  /\ file' = [file EXCEPT ![connFd[c]] = Nil]
  /\ Forget(file', child)
  /\ obj' = [obj EXCEPT ![c] = "freed"]
  /\ Goto(r, "unlock")
  /\ UNCHANGED <<clientVars, rx, child, connFd, owner, rbuf, served, looperVars, batch, cur, listenVars>>

\* Variant: the handler goes on with its request loop after the deletion.
DeleteNoReturn(r) ==
  /\ pc[r] = "unlock"
  /\ mtx' = [mtx EXCEPT ![r] = Nil]
  /\ Goto(r, "parse")
  /\ UNCHANGED <<clientVars, kernelVars, connVars, connections, batch, cur, listenVars>>

\* The lock guard ends and the callback returns.
DeleteUnlock(r) ==
  /\ pc[r] = "unlock"
  /\ mtx' = [mtx EXCEPT ![r] = Nil]
  /\ Goto(r, "next")
  /\ cur' = [cur EXCEPT ![r] = Nil]
  /\ UNCHANGED <<clientVars, kernelVars, connVars, connections, batch, listenVars>>

-----------------------------------------------------------------------------
Clients ==
  \E c \in Conns : Connect(c) \/ ClientLeave(c) \/ \E q \in Requests : ClientSend(c, q)

ListenerStep ==
  \/ \E c \in Conns, f \in Fds, r \in SelectCandidate : Accept(c, f, r)
  \/ AddLock
  \/ EpollAdd
  \/ Insert

ReactorStep(r) ==
  \/ Poll(r)
  \/ \E c \in Conns : Start(r, c)
  \/ Recv(r) \/ RecvExit(r) \/ RecvAgain(r)
  \/ Serve(r) \/ RefuseCgi(r) \/ Fork(r) \/ Exec(r) \/ Reap(r) \/ Return(r)
  \/ DeleteLock(r) \/ Erase(r) \/ Close(r) \/ DeleteUnlock(r)

Next == Clients \/ ListenerStep \/ \E r \in Reactors : ReactorStep(r)

Spec == Init /\ [][Next]_vars

\* Every server thread keeps running, CGI programs end, and clients read
\* their responses (Connection::Send returns).  Clients owe nothing else.
Fairness == WF_vars(ListenerStep) /\ \A r \in Reactors : WF_vars(ReactorStep(r))

FairSpec == Spec /\ Fairness

-----------------------------------------------------------------------------
(* Properties.                                                             *)

Labels == {"next", "recv", "parse", "wait", "delete", "find", "close", "unlock"}

\* Every variable stays in the range its C++ or kernel counterpart has, and a
\* Connection has its descriptor and its looper from the moment it exists.
TypeOK ==
  /\ client \in [Conns -> {"idle", "up", "gone"}]
  /\ sent \in [Conns -> Nat] /\ served \in [Conns -> Nat]
  /\ rx \in [Conns -> Seq(Requests)] /\ rbuf \in [Conns -> Seq(Requests)]
  /\ file \in [Fds -> Conns \cup {Nil}]
  /\ epoll \in [Reactors -> SUBSET Conns]
  /\ rdl \in [Reactors -> SUBSET Conns]
  /\ child \in [Reactors -> SUBSET Conns]
  /\ obj \in [Conns -> {"none", "live", "freed"}]
  /\ connFd \in [Conns -> Fds \cup {Nil}]
  /\ owner \in [Conns -> Reactors \cup {Nil}]
  /\ \A c \in Conns : obj[c] # "none" => connFd[c] \in Fds /\ owner[c] \in Reactors
  /\ connections \in [Reactors -> [Fds -> Conns \cup {Nil}]]
  /\ mtx \in [Reactors -> Reactors \cup {Listener, Nil}]
  /\ pc \in [Reactors -> Labels]
  /\ batch \in [Reactors -> SUBSET Conns]
  /\ cur \in [Reactors -> Conns \cup {Nil}]
  /\ lpc \in {"accept", "lock", "add", "insert"}
  /\ lcur \in Conns \cup {Nil}

\* The raw pointers epoll gave back (Poller::Poll) and the one the handler
\* works on refer to live Connection objects until the handler has deleted
\* its own ("client_connection ptr is invalid below here").
NoDanglingPointer ==
  \A r \in Reactors :
    /\ \A c \in batch[r] : obj[c] = "live"
    /\ pc[r] \notin {"next", "unlock"} => obj[cur[r]] = "live"

\* DeleteConnection, whose result the handler ignores, always finds the entry
\* of the very connection it was called for, although the connection can be
\* polled before AddConnection has inserted it and descriptors are reused.
DeleteFindsConnection ==
  \A r \in Reactors : pc[r] = "find" => connections[r][connFd[cur[r]]] = cur[r]

\* AddConnection never meets an entry for its descriptor: insert() would then
\* silently destroy the new connection.
InsertFindsFreeSlot ==
  lpc = "insert" => connections[owner[lcur]][connFd[lcur]] = Nil

\* The places that keep a Connection alive.
Kept(c) ==
  \/ lcur = c
  \/ connections[owner[c]][connFd[c]] = c
  \/ pc[owner[c]] = "close" /\ cur[owner[c]] = c

\* Descriptors and Connection objects correspond one to one, and each live
\* Connection is kept by exactly the thread or map that must delete it: no
\* descriptor leaks and none is closed twice.
DescriptorsOwned ==
  /\ \A f \in Fds, c \in Conns :
       (file[f] = c) <=> (obj[c] = "live" /\ connFd[c] = f)
  /\ \A c \in Conns : obj[c] = "live" => Kept(c)

\* Edge triggering loses no input: whatever waits in the socket or in the
\* read buffer of a registered connection will be looked at again without
\* any further action of the client.
NoStrandedInput ==
  /\ \A r \in Reactors : \A c \in epoll[r] :
       obj[c] = "live" /\ Readable(c) =>
         \/ c \in rdl[r] \cup batch[r]
         \/ cur[r] = c /\ pc[r] \in {"recv", "delete", "find", "close"}
  /\ \A c \in Conns :
       obj[c] # "freed" /\ rbuf[c] # <<>> => \E r \in Reactors : cur[r] = c

\* Where raw pointers to c may be found on reactor r.
Pointers(r) == epoll[r] \cup rdl[r] \cup batch[r]

\* The rest of the inductive invariant that proves the properties above.
PointersOwned ==
  \A r \in Reactors : \A c \in Pointers(r) : obj[c] # "none" /\ owner[c] = r

HandingOver ==
  /\ lpc = "accept" => lcur = Nil
  /\ lpc # "accept" => lcur \in Conns /\ obj[lcur] = "live"
  /\ lpc \in {"lock", "add"} =>
       \A r \in Reactors : lcur \notin Pointers(r) /\ cur[r] # lcur
  /\ lpc \in {"add", "insert"} => mtx[owner[lcur]] = Listener

InCallback(r) == pc[r] \notin {"next", "unlock"}

Handling ==
  \A r \in Reactors :
    /\ InCallback(r) => cur[r] \in Conns /\ obj[cur[r]] = "live" /\ owner[cur[r]] = r
    /\ pc[r] = "next" => cur[r] = Nil
    /\ pc[r] = "unlock" => cur[r] \in Conns /\ obj[cur[r]] = "freed"
    /\ pc[r] = "wait" => rbuf[cur[r]] # <<>>
    /\ pc[r] \in {"find", "close", "unlock"} => mtx[r] = r

EntriesLive ==
  \A r \in Reactors, f \in Fds :
    connections[r][f] # Nil =>
      LET c == connections[r][f] IN
      /\ obj[c] = "live" /\ owner[c] = r /\ connFd[c] = f
      /\ c # lcur
      /\ ~ (pc[r] = "close" /\ cur[r] = c)

IndInv ==
  TypeOK /\ DescriptorsOwned /\ PointersOwned /\ HandingOver /\ Handling /\ EntriesLive

\* What it takes beside IndInv to keep the pointers valid: without children
\* a registration never outlives its Connection.
PointersLive ==
  \A r \in Reactors :
    /\ child[r] = {}
    /\ \A c \in Pointers(r) : obj[c] = "live"
    /\ cur[r] \notin batch[r]
    /\ pc[r] # "wait"

\* A response is written to a descriptor that still is the socket of the
\* client that asked, never to one reused for another client.
AnswerOnOwnSocket ==
  [][\A c \in Conns : served'[c] # served[c] => file[connFd[c]] = c]_vars

\* Every request of a client is answered, unless the server closes the
\* connection first (an earlier request ended it, or the client left).
EveryRequestAnswered ==
  \A c \in Conns, n \in 1..MaxRequests :
    (sent[c] = n) ~> (served[c] >= n \/ obj[c] = "freed")

\* The connection of a client that has left is deleted in the end, also when
\* the client left before it was accepted.
DepartedReleased ==
  \A c \in Conns : (client[c] = "gone") ~> (obj[c] = "freed")
=============================================================================
