--------------------------- MODULE Reactor_proofs ---------------------------
(***************************************************************************)
(* Safety of the reactor core, for every number of clients, reactors and   *)
(* descriptors.  IndInv is inductive; its preservation is proved action by *)
(* action.  Pointer validity (without CGI) and freedom from lost edges are *)
(* inductive relative to it.                                               *)
(***************************************************************************)
EXTENDS Reactor, TLAPS

USE DEF vars, clientVars, kernelVars, connVars, looperVars, reactVars, listenVars

\* insert() meets no entry for its descriptor: that entry's connection would
\* own the same descriptor, and the table gives a descriptor one owner.
LEMMA FreeSlot == IndInv => InsertFindsFreeSlot
<1>. SUFFICES ASSUME IndInv, lpc = "insert",
                     connections[owner[lcur]][connFd[lcur]] # Nil
              PROVE  FALSE
  BY DEF InsertFindsFreeSlot
<1>1. lcur \in Conns /\ owner[lcur] \in Reactors /\ connFd[lcur] \in Fds /\ obj[lcur] = "live"
  BY DEF IndInv, HandingOver, TypeOK
<1>. DEFINE d == connections[owner[lcur]][connFd[lcur]]
<1>2. d \in Conns /\ obj[d] = "live" /\ connFd[d] = connFd[lcur] /\ d # lcur
  BY <1>1 DEF IndInv, EntriesLive, TypeOK
<1>3. file[connFd[lcur]] = lcur /\ file[connFd[lcur]] = d
  BY <1>1, <1>2 DEF IndInv, DescriptorsOwned
<1>. QED
  BY <1>2, <1>3

\* find() meets the handler's own connection: it is live, so somebody keeps
\* it, and the lock rules out the listener.
LEMMA OwnEntry == IndInv => DeleteFindsConnection
<1>. SUFFICES ASSUME IndInv, NEW r \in Reactors, pc[r] = "find"
              PROVE  connections[r][connFd[cur[r]]] = cur[r]
  BY DEF DeleteFindsConnection
<1>1. cur[r] \in Conns /\ obj[cur[r]] = "live" /\ owner[cur[r]] = r /\ mtx[r] = r
  BY DEF IndInv, Handling, InCallback
<1>2. Kept(cur[r])
  BY <1>1 DEF IndInv, DescriptorsOwned
<1>3. lcur # cur[r]
  BY <1>1, ReactorAssumption DEF IndInv, HandingOver, TypeOK
<1>. QED
  BY <1>1, <1>2, <1>3 DEF Kept

\* A client connecting touches none of the server's state.
LEMMA ConnectStep ==
  ASSUME IndInv, NEW c \in Conns, Connect(c)
  PROVE  IndInv'
<1>1. TypeOK'
  BY DEF IndInv, TypeOK, Connect
<1>2. DescriptorsOwned'
  BY DEF IndInv, DescriptorsOwned, Kept, Connect
<1>3. PointersOwned'
  BY DEF IndInv, PointersOwned, Pointers, Connect
<1>4. HandingOver'
  BY DEF IndInv, HandingOver, Pointers, Connect
<1>5. Handling'
  BY DEF IndInv, Handling, InCallback, Connect
<1>6. EntriesLive'
  BY DEF IndInv, EntriesLive, Connect
<1>. QED
  BY <1>1, <1>2, <1>3, <1>4, <1>5, <1>6 DEF IndInv

\* Input on a registered socket only adds pointers that the epoll instance
\* already holds.
LEMMA ClientSendStep ==
  ASSUME IndInv, NEW c \in Conns, NEW q \in Requests, ClientSend(c, q)
  PROVE  IndInv'
<1>1. TypeOK'
  BY DEF IndInv, TypeOK, Labels, Handling, ClientSend, Signal
<1>2. DescriptorsOwned'
  BY DEF IndInv, DescriptorsOwned, Kept, ClientSend
<1>3. PointersOwned'
  BY DEF IndInv, PointersOwned, Pointers, ClientSend, Signal
<1>4. HandingOver'
  BY DEF IndInv, HandingOver, Pointers, ClientSend, Signal
<1>5. Handling'
  BY DEF IndInv, Handling, InCallback, ClientSend
<1>6. EntriesLive'
  BY ReactorAssumption DEF IndInv, EntriesLive, ClientSend
<1>. QED
  BY <1>1, <1>2, <1>3, <1>4, <1>5, <1>6 DEF IndInv

\* The same for the end of the input; the receive queue stays a sequence.
LEMMA ClientLeaveStep ==
  ASSUME IndInv, NEW c \in Conns, ClientLeave(c)
  PROVE  IndInv'
<1>0. rx' \in [Conns -> Seq(Requests)]
  <2>1. <<>> \in Seq(Requests)
    OBVIOUS
  <2>. QED
    BY <2>1 DEF IndInv, TypeOK, ClientLeave
<1>a. client' \in [Conns -> {"idle", "up", "gone"}] /\ rdl' \in [Reactors -> SUBSET Conns]
  BY DEF IndInv, TypeOK, ClientLeave, Signal
<1>1. TypeOK'
  BY <1>0, <1>a DEF IndInv, TypeOK, ClientLeave
<1>2. DescriptorsOwned'
  BY DEF IndInv, DescriptorsOwned, Kept, ClientLeave
<1>3. PointersOwned'
  BY DEF IndInv, PointersOwned, Pointers, ClientLeave, Signal
<1>4. HandingOver'
  BY DEF IndInv, HandingOver, Pointers, ClientLeave, Signal
<1>5. Handling'
  BY DEF IndInv, Handling, InCallback, ClientLeave
<1>6. EntriesLive'
  BY DEF IndInv, EntriesLive, ClientLeave
<1>. QED
  BY <1>1, <1>2, <1>3, <1>4, <1>5, <1>6 DEF IndInv

\* Acceptor's callback creates a connection nobody points to yet and takes
\* it in hand.
LEMMA AcceptStep ==
  ASSUME IndInv, NEW c \in Conns, NEW f \in Fds, NEW r \in Reactors, Accept(c, f, r)
  PROVE  IndInv'
<1>1. TypeOK'
  BY DEF IndInv, TypeOK, Accept, AcceptClientAddress
<1>2. DescriptorsOwned'
  BY ReactorAssumption DEF IndInv, DescriptorsOwned, Kept, TypeOK, HandingOver, Accept, AcceptClientAddress
<1>3. PointersOwned'
  BY DEF IndInv, PointersOwned, Pointers, Accept, AcceptClientAddress
<1>4. HandingOver'
  <2>1. ASSUME NEW i \in Reactors PROVE c \notin Pointers(i)
    BY DEF IndInv, PointersOwned, Accept, AcceptClientAddress
  <2>2. ASSUME NEW i \in Reactors PROVE cur[i] # c
    BY ReactorAssumption DEF IndInv, Handling, InCallback, Accept, AcceptClientAddress
  <2>. QED
    BY <2>1, <2>2 DEF IndInv, HandingOver, Pointers, TypeOK, Accept, AcceptClientAddress
<1>5. Handling'
  BY DEF IndInv, Handling, InCallback, Accept, AcceptClientAddress
<1>6. EntriesLive'
  BY DEF IndInv, EntriesLive, Accept, AcceptClientAddress
<1>. QED
  BY <1>1, <1>2, <1>3, <1>4, <1>5, <1>6 DEF IndInv

\* AddConnection enters the critical section of the chosen looper.
LEMMA AddLockStep ==
  ASSUME IndInv, AddLock
  PROVE  IndInv'
<1>1. TypeOK'
  BY DEF IndInv, TypeOK, AddLock
<1>2. DescriptorsOwned'
  BY DEF IndInv, DescriptorsOwned, Kept, AddLock
<1>3. PointersOwned'
  BY DEF IndInv, PointersOwned, Pointers, AddLock
<1>4. HandingOver'
  BY DEF IndInv, HandingOver, Pointers, TypeOK, AddLock
<1>5. Handling'
  BY ReactorAssumption DEF IndInv, Handling, InCallback, AddLock
<1>6. EntriesLive'
  BY DEF IndInv, EntriesLive, AddLock
<1>. QED
  BY <1>1, <1>2, <1>3, <1>4, <1>5, <1>6 DEF IndInv

\* Registration publishes the pointer while the listener still keeps the
\* connection.
LEMMA EpollAddStep ==
  ASSUME IndInv, EpollAdd
  PROVE  IndInv'
<1>1. TypeOK'
  BY DEF IndInv, TypeOK, HandingOver, EpollAdd
<1>2. DescriptorsOwned'
  BY DEF IndInv, DescriptorsOwned, Kept, EpollAdd
<1>3. PointersOwned'
  BY DEF IndInv, PointersOwned, Pointers, HandingOver, EpollAdd
<1>4. HandingOver'
  BY DEF IndInv, HandingOver, EpollAdd
<1>5. Handling'
  BY DEF IndInv, Handling, InCallback, EpollAdd
<1>6. EntriesLive'
  BY DEF IndInv, EntriesLive, EpollAdd
<1>. QED
  BY <1>1, <1>2, <1>3, <1>4, <1>5, <1>6 DEF IndInv

\* The map takes the connection over from the listener; FreeSlot rules out
\* the collision.
LEMMA InsertStep ==
  ASSUME IndInv, Insert
  PROVE  IndInv'
<1>0. lpc = "insert" /\ connections[owner[lcur]][connFd[lcur]] = Nil
  BY FreeSlot DEF Insert, InsertFindsFreeSlot
<1>a. lcur \in Conns /\ owner[lcur] \in Reactors /\ connFd[lcur] \in Fds /\ obj[lcur] = "live"
  BY <1>0 DEF IndInv, HandingOver, TypeOK
<1>b. /\ connections' = [connections EXCEPT ![owner[lcur]][connFd[lcur]] = lcur]
      /\ mtx' = [mtx EXCEPT ![owner[lcur]] = Nil]
      /\ lpc' = "accept" /\ lcur' = Nil
      /\ UNCHANGED <<file, epoll, rdl, obj>>
  BY <1>0 DEF Insert
<1>1. TypeOK'
  BY <1>0, <1>a, <1>b DEF IndInv, TypeOK, Insert
<1>2. DescriptorsOwned'
  BY <1>0, <1>a, <1>b DEF IndInv, DescriptorsOwned, Kept, TypeOK, Insert
<1>3. PointersOwned'
  BY <1>0, <1>a, <1>b DEF IndInv, PointersOwned, Pointers, Insert
<1>4. HandingOver'
  BY <1>0, <1>a, <1>b DEF HandingOver
<1>5. Handling'
  BY <1>0, <1>a, <1>b, ReactorAssumption DEF IndInv, Handling, InCallback, HandingOver, Insert
<1>6. EntriesLive'
  BY <1>0, <1>a, <1>b, ReactorAssumption DEF IndInv, EntriesLive, Handling, HandingOver, Insert
<1>. QED
  BY <1>1, <1>2, <1>3, <1>4, <1>5, <1>6 DEF IndInv

\* epoll_wait moves pointers from the ready list to the batch.
LEMMA PollStep ==
  ASSUME IndInv, NEW r \in Reactors, Poll(r)
  PROVE  IndInv'
<1>1. TypeOK'
  BY DEF IndInv, TypeOK, Poll
<1>2. DescriptorsOwned'
  BY DEF IndInv, DescriptorsOwned, Kept, Poll
<1>3. PointersOwned'
  BY DEF IndInv, PointersOwned, Pointers, Poll
<1>4. HandingOver'
  BY DEF IndInv, HandingOver, Pointers, Poll
<1>5. Handling'
  BY DEF IndInv, Handling, InCallback, Poll
<1>6. EntriesLive'
  BY DEF IndInv, EntriesLive, Poll
<1>. QED
  BY <1>1, <1>2, <1>3, <1>4, <1>5, <1>6 DEF IndInv

\* The handler starts on a live connection of its own looper.
LEMMA StartStep ==
  ASSUME IndInv, NEW r \in Reactors, NEW c \in Conns, Start(r, c)
  PROVE  IndInv'
<1>1. TypeOK'
  BY DEF IndInv, TypeOK, Labels, Start
<1>2. DescriptorsOwned'
  BY DEF IndInv, DescriptorsOwned, Kept, Start
<1>3. PointersOwned'
  BY DEF IndInv, PointersOwned, Pointers, Start
<1>4. HandingOver'
  BY DEF IndInv, HandingOver, Pointers, Start
<1>5. Handling'
  BY DEF IndInv, Handling, InCallback, PointersOwned, Pointers, TypeOK, Start
<1>6. EntriesLive'
  BY DEF IndInv, EntriesLive, Start
<1>. QED
  BY <1>1, <1>2, <1>3, <1>4, <1>5, <1>6 DEF IndInv

\* Receiving moves a request from the socket to the read buffer.
LEMMA RecvStep ==
  ASSUME IndInv, NEW r \in Reactors, Recv(r)
  PROVE  IndInv'
<1>0. cur[r] \in Conns /\ rx[cur[r]] \in Seq(Requests) /\ rbuf[cur[r]] \in Seq(Requests)
  BY DEF IndInv, TypeOK, Handling, InCallback, Recv
<1>a. Head(rx[cur[r]]) \in Requests /\ Tail(rx[cur[r]]) \in Seq(Requests)
  BY <1>0 DEF Recv
<1>b. Append(rbuf[cur[r]], Head(rx[cur[r]])) \in Seq(Requests)
  BY <1>0, <1>a
<1>1. TypeOK'
  BY <1>0, <1>a, <1>b DEF IndInv, TypeOK, Recv
<1>2. DescriptorsOwned'
  BY DEF IndInv, DescriptorsOwned, Kept, Recv
<1>3. PointersOwned'
  BY DEF IndInv, PointersOwned, Pointers, Recv
<1>4. HandingOver'
  BY DEF IndInv, HandingOver, Pointers, Recv
<1>5. Handling'
  BY DEF IndInv, Handling, InCallback, Recv
<1>6. EntriesLive'
  BY DEF IndInv, EntriesLive, Recv
<1>. QED
  BY <1>1, <1>2, <1>3, <1>4, <1>5, <1>6 DEF IndInv

\* The client has exited: only the control point moves.
LEMMA RecvExitStep ==
  ASSUME IndInv, NEW r \in Reactors, RecvExit(r)
  PROVE  IndInv'
<1>1. TypeOK'
  BY DEF IndInv, TypeOK, Labels, RecvExit, Goto
<1>2. DescriptorsOwned'
  BY DEF IndInv, DescriptorsOwned, Kept, RecvExit, Goto
<1>3. PointersOwned'
  BY DEF IndInv, PointersOwned, Pointers, RecvExit
<1>4. HandingOver'
  BY DEF IndInv, HandingOver, Pointers, RecvExit
<1>5. Handling'
  BY DEF IndInv, Handling, InCallback, RecvExit, Goto
<1>6. EntriesLive'
  BY DEF IndInv, EntriesLive, RecvExit, Goto
<1>. QED
  BY <1>1, <1>2, <1>3, <1>4, <1>5, <1>6 DEF IndInv

\* Everything is read: only the control point moves.
LEMMA RecvAgainStep ==
  ASSUME IndInv, NEW r \in Reactors, RecvAgain(r)
  PROVE  IndInv'
<1>1. TypeOK'
  BY DEF IndInv, TypeOK, Labels, RecvAgain, Goto
<1>2. DescriptorsOwned'
  BY DEF IndInv, DescriptorsOwned, Kept, RecvAgain, Goto
<1>3. PointersOwned'
  BY DEF IndInv, PointersOwned, Pointers, RecvAgain
<1>4. HandingOver'
  BY DEF IndInv, HandingOver, Pointers, RecvAgain
<1>5. Handling'
  BY DEF IndInv, Handling, InCallback, RecvAgain, Goto
<1>6. EntriesLive'
  BY DEF IndInv, EntriesLive, RecvAgain, Goto
<1>. QED
  BY <1>1, <1>2, <1>3, <1>4, <1>5, <1>6 DEF IndInv

\* A static answer consumes one buffered request.
LEMMA ServeStep ==
  ASSUME IndInv, NEW r \in Reactors, Serve(r)
  PROVE  IndInv'
<1>1. TypeOK'
  BY ReactorAssumption, SMTT(30)
  DEF IndInv, TypeOK, Labels, Handling, InCallback, Serve, Answer, HasRequest, Goto
<1>2. DescriptorsOwned'
  BY ReactorAssumption DEF IndInv, DescriptorsOwned, Kept, Serve, Answer, HasRequest, Goto
<1>3. PointersOwned'
  BY DEF IndInv, PointersOwned, Pointers, Serve, Answer
<1>4. HandingOver'
  BY DEF IndInv, HandingOver, Pointers, Serve, Answer
<1>5. Handling'
  BY DEF IndInv, Handling, InCallback, PointersOwned, Serve, Answer, HasRequest, Goto
<1>6. EntriesLive'
  BY DEF IndInv, EntriesLive, Serve, Answer, Goto
<1>. QED
  BY <1>1, <1>2, <1>3, <1>4, <1>5, <1>6 DEF IndInv

\* So does a CGI request that is answered without a child.
LEMMA RefuseCgiStep ==
  ASSUME IndInv, NEW r \in Reactors, RefuseCgi(r)
  PROVE  IndInv'
<1>1. TypeOK'
  BY ReactorAssumption, SMTT(30)
  DEF IndInv, TypeOK, Labels, Handling, InCallback, HandingOver, RefuseCgi, Answer, Request,
      HasRequest, Goto
<1>2. DescriptorsOwned'
  BY DEF IndInv, DescriptorsOwned, Kept, RefuseCgi, Answer, HasRequest, Goto
<1>3. PointersOwned'
  BY DEF IndInv, PointersOwned, Pointers, RefuseCgi, Answer
<1>4. HandingOver'
  BY DEF IndInv, HandingOver, Pointers, RefuseCgi, Answer
<1>5. Handling'
  BY DEF IndInv, Handling, InCallback, RefuseCgi, Answer, HasRequest, Goto
<1>6. EntriesLive'
  BY DEF IndInv, EntriesLive, RefuseCgi, Answer, Goto
<1>. QED
  BY <1>1, <1>2, <1>3, <1>4, <1>5, <1>6 DEF IndInv

\* fork() copies the descriptor table and leaves the parent's state alone.
LEMMA ForkStep ==
  ASSUME IndInv, NEW r \in Reactors, Fork(r)
  PROVE  IndInv'
<1>1. TypeOK'
  BY DEF IndInv, TypeOK, Labels, Fork, Goto
<1>2. DescriptorsOwned'
  BY DEF IndInv, DescriptorsOwned, Kept, Fork, HasRequest, Goto
<1>3. PointersOwned'
  BY DEF IndInv, PointersOwned, Pointers, Fork
<1>4. HandingOver'
  BY DEF IndInv, HandingOver, Pointers, Fork
<1>5. Handling'
  BY DEF IndInv, Handling, InCallback, Fork, HasRequest, Goto
<1>6. EntriesLive'
  BY DEF IndInv, EntriesLive, Fork, Goto
<1>. QED
  BY <1>1, <1>2, <1>3, <1>4, <1>5, <1>6 DEF IndInv

\* The child's copies go; every description the server still has open stays
\* registered.
LEMMA ExecStep ==
  ASSUME IndInv, NEW r \in Reactors, Exec(r)
  PROVE  IndInv'
<1>1. TypeOK'
  BY DEF IndInv, TypeOK, Exec, Forget
<1>2. DescriptorsOwned'
  BY DEF IndInv, DescriptorsOwned, Kept, Exec
<1>3. PointersOwned'
  BY DEF IndInv, PointersOwned, Pointers, Exec, Forget
<1>4. HandingOver'
  BY DEF IndInv, HandingOver, Pointers, Exec, Forget
<1>5. Handling'
  BY DEF IndInv, Handling, InCallback, Exec
<1>6. EntriesLive'
  BY DEF IndInv, EntriesLive, Exec
<1>. QED
  BY <1>1, <1>2, <1>3, <1>4, <1>5, <1>6 DEF IndInv

\* The buffered request the child was forked for is answered.
LEMMA ReapStep ==
  ASSUME IndInv, NEW r \in Reactors, Reap(r)
  PROVE  IndInv'
<1>1. TypeOK'
  BY SMTT(30) DEF IndInv, TypeOK, Labels, Handling, InCallback, Reap, Answer, Goto
<1>2. DescriptorsOwned'
  BY DEF IndInv, DescriptorsOwned, Kept, Reap, Answer, Goto
<1>3. PointersOwned'
  BY DEF IndInv, PointersOwned, Pointers, Reap, Answer
<1>4. HandingOver'
  BY DEF IndInv, HandingOver, Pointers, Reap, Answer
<1>5. Handling'
  BY DEF IndInv, Handling, InCallback, TypeOK, Reap, Answer, Goto
<1>6. EntriesLive'
  BY DEF IndInv, EntriesLive, Reap, Answer, Goto
<1>. QED
  BY <1>1, <1>2, <1>3, <1>4, <1>5, <1>6 DEF IndInv

\* The callback returns and lets go of its connection.
LEMMA ReturnStep ==
  ASSUME IndInv, NEW r \in Reactors, Return(r)
  PROVE  IndInv'
<1>1. TypeOK'
  BY DEF IndInv, TypeOK, Labels, Return, Goto
<1>2. DescriptorsOwned'
  BY DEF IndInv, DescriptorsOwned, Kept, Return, Goto
<1>3. PointersOwned'
  BY DEF IndInv, PointersOwned, Pointers, Return
<1>4. HandingOver'
  BY ReactorAssumption DEF IndInv, HandingOver, Pointers, Return
<1>5. Handling'
  BY DEF IndInv, Handling, InCallback, TypeOK, Return, Goto
<1>6. EntriesLive'
  BY DEF IndInv, EntriesLive, Return, Goto
<1>. QED
  BY <1>1, <1>2, <1>3, <1>4, <1>5, <1>6 DEF IndInv

\* DeleteConnection enters the critical section, which excludes the
\* listener.
LEMMA DeleteLockStep ==
  ASSUME IndInv, NEW r \in Reactors, DeleteLock(r)
  PROVE  IndInv'
<1>1. TypeOK'
  BY DEF IndInv, TypeOK, Labels, DeleteLock, Goto
<1>2. DescriptorsOwned'
  BY DEF IndInv, DescriptorsOwned, Kept, DeleteLock, Goto
<1>3. PointersOwned'
  BY DEF IndInv, PointersOwned, Pointers, DeleteLock
<1>4. HandingOver'
  BY ReactorAssumption DEF IndInv, HandingOver, Pointers, DeleteLock
<1>5. Handling'
  BY DEF IndInv, Handling, InCallback, TypeOK, DeleteLock, Goto
<1>6. EntriesLive'
  BY DEF IndInv, EntriesLive, DeleteLock, Goto
<1>. QED
  BY <1>1, <1>2, <1>3, <1>4, <1>5, <1>6 DEF IndInv

\* The handler takes its connection out of the map; OwnEntry rules out the
\* miss.
LEMMA EraseStep ==
  ASSUME IndInv, NEW r \in Reactors, Erase(r)
  PROVE  IndInv'
<1>1. TypeOK'
  BY DEF IndInv, TypeOK, Labels, Erase, Goto
<1>2. DescriptorsOwned'
  BY DEF IndInv, DescriptorsOwned, Kept, TypeOK, Handling, InCallback, Erase, Goto
<1>3. PointersOwned'
  BY DEF IndInv, PointersOwned, Pointers, Erase
<1>4. HandingOver'
  BY DEF IndInv, HandingOver, Pointers, Erase
<1>5. Handling'
  <2>1. connections[r][connFd[cur[r]]] = cur[r] /\ cur[r] # Nil
    BY OwnEntry, ReactorAssumption
    DEF IndInv, DeleteFindsConnection, Handling, InCallback, Erase
  <2>. QED
    BY <2>1 DEF IndInv, Handling, InCallback, Erase, Goto
<1>6. EntriesLive'
  BY DEF IndInv, EntriesLive, TypeOK, Erase, Goto
<1>. QED
  BY <1>1, <1>2, <1>3, <1>4, <1>5, <1>6 DEF IndInv

\* Destroying the connection closes the descriptor it alone owned.
LEMMA CloseStep ==
  ASSUME IndInv, NEW r \in Reactors, Close(r)
  PROVE  IndInv'
<1>1. TypeOK'
  BY DEF IndInv, TypeOK, Labels, Handling, InCallback, Close, Forget, Referenced, Goto
<1>2. DescriptorsOwned'
  BY ReactorAssumption
  DEF IndInv, DescriptorsOwned, Kept, TypeOK, Handling, InCallback, Close, Goto
<1>3. PointersOwned'
  BY DEF IndInv, PointersOwned, Pointers, Close, Forget
<1>4. HandingOver'
  BY ReactorAssumption
  DEF IndInv, HandingOver, Pointers, TypeOK, Handling, InCallback, Close, Forget
<1>5. Handling'
  BY DEF IndInv, Handling, InCallback, TypeOK, Close, Goto
<1>6. EntriesLive'
  BY DEF IndInv, EntriesLive, Handling, InCallback, Close, Goto
<1>. QED
  BY <1>1, <1>2, <1>3, <1>4, <1>5, <1>6 DEF IndInv

\* DeleteConnection leaves the critical section and the callback returns.
LEMMA DeleteUnlockStep ==
  ASSUME IndInv, NEW r \in Reactors, DeleteUnlock(r)
  PROVE  IndInv'
<1>1. TypeOK'
  BY DEF IndInv, TypeOK, Labels, DeleteUnlock, Goto
<1>2. DescriptorsOwned'
  BY DEF IndInv, DescriptorsOwned, Kept, DeleteUnlock, Goto
<1>3. PointersOwned'
  BY DEF IndInv, PointersOwned, Pointers, DeleteUnlock
<1>4. HandingOver'
  BY ReactorAssumption DEF IndInv, HandingOver, Pointers, Handling, InCallback, DeleteUnlock
<1>5. Handling'
  BY DEF IndInv, Handling, InCallback, TypeOK, DeleteUnlock, Goto
<1>6. EntriesLive'
  BY DEF IndInv, EntriesLive, DeleteUnlock, Goto
<1>. QED
  BY <1>1, <1>2, <1>3, <1>4, <1>5, <1>6 DEF IndInv

\* The inductive invariant holds when the server starts.
LEMMA InitInv == Init => IndInv
<1>. SUFFICES ASSUME Init PROVE IndInv
  OBVIOUS
<1>1. TypeOK
  BY DEF Init, TypeOK, Labels
<1>2. DescriptorsOwned /\ PointersOwned /\ HandingOver /\ Handling /\ EntriesLive
  BY ReactorAssumption DEF Init, DescriptorsOwned, PointersOwned, Pointers, HandingOver,
     Handling, InCallback, EntriesLive
<1>. QED
  BY <1>1, <1>2 DEF IndInv

\* Every step of a client, the listener or a reactor preserves it.
LEMMA NextInv == IndInv /\ [Next]_vars => IndInv'
<1>. SUFFICES ASSUME IndInv, [Next]_vars PROVE IndInv'
  OBVIOUS
<1>1. CASE Clients
  BY <1>1, ConnectStep, ClientSendStep, ClientLeaveStep DEF Clients
<1>2. CASE ListenerStep
  BY <1>2, AcceptStep, AddLockStep, EpollAddStep, InsertStep DEF ListenerStep, SelectCandidate
<1>3. ASSUME NEW r \in Reactors, ReactorStep(r) PROVE IndInv'
  BY <1>3, PollStep, StartStep, RecvStep, RecvExitStep, RecvAgainStep, ServeStep, RefuseCgiStep,
     ForkStep, ExecStep, ReapStep, ReturnStep, DeleteLockStep, EraseStep, CloseStep, DeleteUnlockStep
  DEF ReactorStep
<1>4. CASE UNCHANGED vars
  BY <1>4 DEF IndInv, TypeOK, DescriptorsOwned, Kept, PointersOwned, Pointers, HandingOver,
     Handling, InCallback, EntriesLive
<1>. QED
  BY <1>1, <1>2, <1>3, <1>4 DEF Next

\* It therefore always holds.
LEMMA Invariance == Spec => []IndInv
  BY InitInv, NextInv, PTL DEF Spec

\* Every variable keeps its type in every execution, for every number of
\* clients, reactors and descriptors.
THEOREM TypeCorrect == Spec => []TypeOK
<1>1. IndInv => TypeOK
  BY DEF IndInv
<1>. QED
  BY <1>1, Invariance, PTL

\* Looper and Socket: descriptors and live Connection objects correspond one
\* to one and every live one is kept by the thread or map that must delete
\* it, CGI children or not.
THEOREM DescriptorSafety == Spec => []DescriptorsOwned
<1>1. IndInv => DescriptorsOwned
  BY DEF IndInv
<1>. QED
  BY <1>1, Invariance, PTL

\* Looper::DeleteConnection always finds the entry of the connection it is
\* called for, so ignoring its result is harmless.
THEOREM DeletionSafety == Spec => []DeleteFindsConnection
  BY Invariance, OwnEntry, PTL

\* Looper::AddConnection never finds its slot taken, so insert() never
\* destroys a new connection.
THEOREM InsertionSafety == Spec => []InsertFindsFreeSlot
  BY Invariance, FreeSlot, PTL

\* Connection::Send only ever writes to the socket of the client whose
\* request it answers.
THEOREM AnswerSafety == Spec => AnswerOnOwnSocket
<1>1. IndInv /\ [Next]_vars => [\A c \in Conns : served'[c] # served[c] => file[connFd[c]] = c]_vars
  <2>. SUFFICES ASSUME IndInv, Next, NEW c \in Conns, served'[c] # served[c]
                PROVE  file[connFd[c]] = c
    OBVIOUS
  <2>1. PICK r \in Reactors : Serve(r) \/ RefuseCgi(r) \/ Reap(r)
    BY DEF Next, Clients, Connect, ClientSend, ClientLeave, ListenerStep, SelectCandidate, Accept, AddLock,
       EpollAdd, Insert, ReactorStep, Poll, Start, Recv, RecvExit, RecvAgain, Fork, Exec, Return,
       DeleteLock, Erase, Close, DeleteUnlock
  <2>2. pc[r] \in {"parse", "wait"} /\ served' = [served EXCEPT ![cur[r]] = @ + 1]
    BY <2>1 DEF Serve, RefuseCgi, Reap, HasRequest, Answer
  <2>3. cur[r] \in Conns /\ obj[cur[r]] = "live"
    BY <2>2 DEF IndInv, Handling, InCallback
  <2>4. c = cur[r]
    BY <2>2 DEF IndInv, TypeOK
  <2>. QED
    BY <2>3, <2>4 DEF IndInv, DescriptorsOwned, TypeOK
<1>. QED
  BY <1>1, Invariance, PTL DEF Spec, AnswerOnOwnSocket

\* Without CGI children, closing a descriptor unregisters it, so no step
\* leaves a pointer to a freed connection behind.
LEMMA PointersStep ==
  ASSUME Cgi = {}, IndInv, PointersLive, [Next]_vars
  PROVE  PointersLive'
<1>1. CASE UNCHANGED vars
  BY <1>1 DEF PointersLive, Pointers
<1>2. ASSUME NEW c \in Conns, Connect(c) PROVE PointersLive'
  BY <1>2 DEF PointersLive, Pointers, Connect
<1>3. ASSUME NEW c \in Conns, NEW q \in Requests, ClientSend(c, q) PROVE PointersLive'
  BY <1>3 DEF PointersLive, Pointers, ClientSend, Signal
<1>4. ASSUME NEW c \in Conns, ClientLeave(c) PROVE PointersLive'
  BY <1>4 DEF PointersLive, Pointers, ClientLeave, Signal
<1>5. ASSUME NEW c \in Conns, NEW f \in Fds, NEW r \in Reactors, Accept(c, f, r) PROVE PointersLive'
  BY <1>5 DEF PointersLive, Pointers, Accept, AcceptClientAddress
<1>6. ASSUME AddLock PROVE PointersLive'
  BY <1>6 DEF PointersLive, Pointers, AddLock
<1>7. ASSUME EpollAdd PROVE PointersLive'
  BY <1>7 DEF PointersLive, Pointers, IndInv, HandingOver, EpollAdd
<1>8. ASSUME Insert PROVE PointersLive'
  BY <1>8, ReactorAssumption, FreeSlot
  DEF PointersLive, Pointers, HandingOver, InsertFindsFreeSlot, Insert
<1>9. ASSUME NEW r \in Reactors, Poll(r) PROVE PointersLive'
  BY <1>9, ReactorAssumption
  DEF PointersLive, Pointers, IndInv, Handling, TypeOK, InCallback, Poll
<1>10. ASSUME NEW r \in Reactors, NEW c \in Conns, Start(r, c) PROVE PointersLive'
  BY <1>10 DEF PointersLive, Pointers, IndInv, TypeOK, Start
<1>11. ASSUME NEW r \in Reactors, Recv(r) PROVE PointersLive'
  BY <1>11 DEF PointersLive, Pointers, Recv
<1>12. ASSUME NEW r \in Reactors, RecvExit(r) PROVE PointersLive'
  BY <1>12 DEF PointersLive, Pointers, RecvExit, Goto
<1>13. ASSUME NEW r \in Reactors, RecvAgain(r) PROVE PointersLive'
  BY <1>13 DEF PointersLive, Pointers, RecvAgain, Goto
<1>14. ASSUME NEW r \in Reactors, Serve(r) PROVE PointersLive'
  BY <1>14 DEF PointersLive, Pointers, Serve, Answer, Goto
<1>15. ASSUME NEW r \in Reactors, RefuseCgi(r) PROVE PointersLive'
  BY <1>15 DEF PointersLive, Pointers, RefuseCgi, Answer
<1>16. ASSUME NEW r \in Reactors, Fork(r) PROVE PointersLive'
  BY <1>16 DEF PointersLive, Pointers, Fork
<1>17. ASSUME NEW r \in Reactors, Exec(r) \/ Reap(r) PROVE PointersLive'
  BY <1>17 DEF PointersLive, Exec, Reap
<1>18. ASSUME NEW r \in Reactors, Return(r) PROVE PointersLive'
  BY <1>18, ReactorAssumption DEF PointersLive, Pointers, IndInv, TypeOK, Return, Goto
<1>19. ASSUME NEW r \in Reactors, DeleteLock(r) PROVE PointersLive'
  BY <1>19 DEF PointersLive, Pointers, DeleteLock, Goto
<1>20. ASSUME NEW r \in Reactors, Erase(r) PROVE PointersLive'
  BY <1>20 DEF PointersLive, Pointers, Erase, Goto
<1>21. ASSUME NEW r \in Reactors, Close(r) PROVE PointersLive'
  BY <1>21, ReactorAssumption
  DEF PointersLive, Pointers, IndInv, TypeOK, DescriptorsOwned, Handling, InCallback,
      PointersOwned, Close, Forget, Referenced, Goto
<1>22. ASSUME NEW r \in Reactors, DeleteUnlock(r) PROVE PointersLive'
  BY <1>22, ReactorAssumption DEF PointersLive, Pointers, IndInv, TypeOK, DeleteUnlock, Goto
<1>. QED
  BY <1>1, <1>2, <1>3, <1>4, <1>5, <1>6, <1>7, <1>8, <1>9, <1>10, <1>11, <1>12, <1>13, <1>14,
     <1>15, <1>16, <1>17, <1>18, <1>19, <1>20, <1>21, <1>22
  DEF Next, Clients, ListenerStep, ReactorStep, SelectCandidate

\* Poller::Poll and the handler dereference live connections only, provided
\* no request forks a CGI program; the run reactor_cgi_dangling shows that
\* the proviso is needed.
THEOREM PointerSafety ==
  ASSUME Cgi = {}
  PROVE  Spec => []NoDanglingPointer
<1>1. Init => PointersLive
  BY ReactorAssumption DEF Init, PointersLive, Pointers
<1>2. IndInv /\ PointersLive /\ [Next]_vars => PointersLive'
  BY PointersStep
<1>3. IndInv /\ PointersLive => NoDanglingPointer
  BY DEF IndInv, PointersLive, Pointers, Handling, InCallback, NoDanglingPointer
<1>. QED
  BY <1>1, <1>2, <1>3, Invariance, PTL DEF Spec

\* Answering a request strands no input: it leaves the socket and the ready
\* list of a live connection alone.
LEMMA AnswerKeepsInput ==
  ASSUME IndInv, NoStrandedInput, NEW r \in Reactors, pc[r] \in {"parse", "wait"},
         UNCHANGED <<rx, client, obj, batch, cur, epoll, rdl>>,
         NEW label \in {"delete", "parse"}, pc' = [pc EXCEPT ![r] = label],
         rbuf' = [rbuf EXCEPT ![cur[r]] = Tail(rbuf[cur[r]])]
  PROVE  NoStrandedInput'
<1>2. cur[r] \in Conns
  BY DEF IndInv, Handling, InCallback
<1>3. ASSUME NEW i \in Reactors, NEW c \in epoll'[i], obj'[c] = "live", Readable(c)'
      PROVE  \/ c \in rdl'[i] \cup batch'[i]
             \/ cur'[i] = c /\ pc'[i] \in {"recv", "delete", "find", "close"}
  <2>1. \/ c \in rdl[i] \cup batch[i]
        \/ cur[i] = c /\ pc[i] \in {"recv", "delete", "find", "close"}
    BY <1>3 DEF NoStrandedInput, Readable
  <2>. QED
    BY <1>3, <2>1 DEF IndInv, TypeOK
<1>4. ASSUME NEW c \in Conns, obj'[c] # "freed", rbuf'[c] # <<>>
      PROVE  \E i \in Reactors : cur'[i] = c
  <2>1. CASE c = cur[r]
    BY <2>1
  <2>2. CASE c # cur[r]
    <3>1. rbuf[c] # <<>>
      BY <1>2, <1>4, <2>2 DEF IndInv, TypeOK
    <3>. QED
      BY <1>4, <3>1 DEF NoStrandedInput
  <2>. QED
    BY <2>1, <2>2
<1>. QED
  BY <1>3, <1>4 DEF NoStrandedInput

\* No step strands input of a live registered connection.
LEMMA StrandedStep ==
  ASSUME IndInv, NoStrandedInput, [Next]_vars
  PROVE  NoStrandedInput'
<1>1. CASE UNCHANGED vars
  BY <1>1 DEF NoStrandedInput, Readable
<1>2. ASSUME NEW c \in Conns, Connect(c) PROVE NoStrandedInput'
  BY <1>2 DEF NoStrandedInput, Readable, Connect
<1>3. ASSUME NEW c \in Conns, NEW q \in Requests, ClientSend(c, q) PROVE NoStrandedInput'
  BY <1>3 DEF NoStrandedInput, Readable, ClientSend, Signal
<1>4. ASSUME NEW c \in Conns, ClientLeave(c) PROVE NoStrandedInput'
  BY <1>4 DEF NoStrandedInput, Readable, IndInv, TypeOK, ClientLeave, Signal
<1>5. ASSUME NEW c \in Conns, NEW f \in Fds, NEW r \in Reactors, Accept(c, f, r) PROVE NoStrandedInput'
  BY <1>5 DEF NoStrandedInput, Readable, IndInv, PointersOwned, Pointers, Accept, AcceptClientAddress
<1>6. ASSUME AddLock PROVE NoStrandedInput'
  BY <1>6 DEF NoStrandedInput, Readable, AddLock
<1>7. ASSUME EpollAdd PROVE NoStrandedInput'
  BY <1>7 DEF NoStrandedInput, Readable, IndInv, TypeOK, EpollAdd
<1>8. ASSUME Insert PROVE NoStrandedInput'
  BY <1>8, ReactorAssumption, FreeSlot
  DEF NoStrandedInput, Readable, IndInv, TypeOK, Insert, Forget
<1>9. ASSUME NEW r \in Reactors, Poll(r) PROVE NoStrandedInput'
  BY <1>9 DEF NoStrandedInput, Readable, IndInv, TypeOK, Poll
<1>10. ASSUME NEW r \in Reactors, NEW c \in Conns, Start(r, c) PROVE NoStrandedInput'
  BY <1>10, ReactorAssumption
  DEF NoStrandedInput, Readable, IndInv, TypeOK, Handling, InCallback, Start
<1>11. ASSUME NEW r \in Reactors, Recv(r) PROVE NoStrandedInput'
  BY <1>11 DEF NoStrandedInput, Readable, Recv
<1>12. ASSUME NEW r \in Reactors, RecvExit(r) PROVE NoStrandedInput'
  BY <1>12 DEF NoStrandedInput, Readable, RecvExit, Goto
<1>13. ASSUME NEW r \in Reactors, RecvAgain(r) PROVE NoStrandedInput'
  BY <1>13 DEF NoStrandedInput, Readable, RecvAgain, Goto
<1>14. ASSUME NEW r \in Reactors, Serve(r) PROVE NoStrandedInput'
  <2>1. /\ pc[r] \in {"parse", "wait"} /\ UNCHANGED <<epoll, rdl>>
        /\ UNCHANGED <<rx, client, obj, batch, cur>>
        /\ rbuf' = [rbuf EXCEPT ![cur[r]] = Tail(rbuf[cur[r]])]
    BY <1>14 DEF Serve, HasRequest, Answer
  <2>2. PICK label \in {"delete", "parse"} : pc' = [pc EXCEPT ![r] = label]
    BY <1>14 DEF Serve, Answer, Goto
  <2>. QED
    BY <2>1, <2>2, AnswerKeepsInput
<1>15. ASSUME NEW r \in Reactors, RefuseCgi(r) PROVE NoStrandedInput'
  <2>1. /\ pc[r] \in {"parse", "wait"} /\ UNCHANGED <<epoll, rdl>>
        /\ UNCHANGED <<rx, client, obj, batch, cur>>
        /\ rbuf' = [rbuf EXCEPT ![cur[r]] = Tail(rbuf[cur[r]])]
    BY <1>15 DEF RefuseCgi, HasRequest, Answer
  <2>2. PICK label \in {"delete", "parse"} : pc' = [pc EXCEPT ![r] = label]
    BY <1>15 DEF RefuseCgi, Answer, Goto
  <2>. QED
    BY <2>1, <2>2, AnswerKeepsInput
<1>16. ASSUME NEW r \in Reactors, Fork(r) PROVE NoStrandedInput'
  BY <1>16 DEF NoStrandedInput, Readable, Fork, Request, HasRequest, Goto
<1>17. ASSUME NEW r \in Reactors, Exec(r) PROVE NoStrandedInput'
  <2>1. Forget(file, child') /\ UNCHANGED <<rx, client, obj, pc, batch, cur, rbuf>>
    BY <1>17 DEF Exec
  <2>2. \A i \in Reactors : epoll'[i] \subseteq epoll[i]
    BY <2>1 DEF Forget
  <2>3. ASSUME NEW i \in Reactors, NEW c \in rdl[i], obj[c] = "live" PROVE c \in rdl'[i]
    <3>1. c \in Conns /\ connFd[c] \in Fds /\ file[connFd[c]] = c
      BY <2>3 DEF IndInv, TypeOK, DescriptorsOwned
    <3>. QED
      BY <2>1, <3>1 DEF Forget, Referenced
  <2>. QED
    BY <2>1, <2>2, <2>3 DEF NoStrandedInput, Readable
<1>23. ASSUME NEW r \in Reactors, Reap(r) PROVE NoStrandedInput'
  <2>1. /\ pc[r] \in {"parse", "wait"} /\ UNCHANGED <<epoll, rdl>>
        /\ UNCHANGED <<rx, client, obj, batch, cur>>
        /\ rbuf' = [rbuf EXCEPT ![cur[r]] = Tail(rbuf[cur[r]])]
    BY <1>23 DEF Reap, Answer
  <2>2. PICK label \in {"delete", "parse"} : pc' = [pc EXCEPT ![r] = label]
    BY <1>23 DEF Reap, Answer, Goto
  <2>. QED
    BY <2>1, <2>2, AnswerKeepsInput
<1>18. ASSUME NEW r \in Reactors, Return(r) PROVE NoStrandedInput'
  BY <1>18 DEF NoStrandedInput, Readable, Return, Goto
<1>19. ASSUME NEW r \in Reactors, DeleteLock(r) PROVE NoStrandedInput'
  BY <1>19 DEF NoStrandedInput, Readable, DeleteLock, Goto
<1>20. ASSUME NEW r \in Reactors, Erase(r) PROVE NoStrandedInput'
  <2>1. connections[r][connFd[cur[r]]] = cur[r] /\ cur[r] # Nil
    BY <1>20, OwnEntry, ReactorAssumption
    DEF IndInv, DeleteFindsConnection, Handling, InCallback, Erase
  <2>. QED
    BY <1>20, <2>1 DEF NoStrandedInput, Readable, IndInv, TypeOK, Erase, Goto
<1>21. ASSUME NEW r \in Reactors, Close(r) PROVE NoStrandedInput'
  BY <1>21 DEF NoStrandedInput, Readable, IndInv, TypeOK, Close, Forget, Goto
<1>22. ASSUME NEW r \in Reactors, DeleteUnlock(r) PROVE NoStrandedInput'
  BY <1>22 DEF NoStrandedInput, Readable, IndInv, Handling, InCallback, DeleteUnlock, Goto
<1>. QED
  BY <1>1, <1>2, <1>3, <1>4, <1>5, <1>6, <1>7, <1>8, <1>9, <1>10, <1>11, <1>12, <1>13, <1>14,
     <1>15, <1>16, <1>17, <1>18, <1>19, <1>20, <1>21, <1>22, <1>23
  DEF Next, Clients, ListenerStep, ReactorStep, SelectCandidate

\* Edge-triggered registration loses no input: Connection::Receive drains
\* the socket and the handler its read buffer, whatever arrives in between.
THEOREM InputSafety == Spec => []NoStrandedInput
<1>1. Init => NoStrandedInput
  BY DEF Init, NoStrandedInput, Readable
<1>2. IndInv /\ NoStrandedInput /\ [Next]_vars => NoStrandedInput'
  BY StrandedStep
<1>. QED
  BY <1>1, <1>2, Invariance, PTL DEF Spec
=============================================================================
