------------------------- MODULE HttpSession_proofs -------------------------
(***************************************************************************)
(* Proofs about the session of one client, for any requests, any way they  *)
(* are cut up, any files and any failures: the Connection header tells the *)
(* truth, the process ends for the known reasons only, every variable      *)
(* keeps its type, no request is skipped, a CGI answer holds its own       *)
(* program's output, a response has the length it announces, and the       *)
(* client gets the responses in order and byte for byte.                   *)
(***************************************************************************)
EXTENDS HttpSession, SequenceTheorems, WellFoundedInduction, FiniteSetTheorems, TLAPS

\* The history is a sequence of something.
History == \E S : replies \in Seq(S)

Inv == History /\ CloseInv

\* A step that writes no response and stays clear of Send and the deletion
\* keeps the invariant.
LEMMA QuietStep ==
  ASSUME Inv, UNCHANGED <<replies, finish>>,
         pc \notin {"send", "deleted", "abort"}, pc' \notin {"send", "deleted"}
  PROVE  Inv'
BY DEF Inv, History, CloseInv, Closing

\* A step of the client, of an editor or of another reactor: the client can
\* only leave.
LEMMA OutsideStep ==
  ASSUME Inv, UNCHANGED handlerVars, peer' # peer => peer' # "open"
  PROVE  Inv'
BY DEF Inv, History, CloseInv, Closing, handlerVars

\* Writing a response whose header says what the handler returns.
LEMMA RespondStep ==
  ASSUME Inv, NEW head, NEW bytes, NEW done \in BOOLEAN, head.close = done,
         pc \notin {"send", "deleted", "abort"}, Respond(head, bytes, done)
  PROVE  Inv'
<1>. DEFINE r == [of |-> req, head |-> head, body |-> bytes]
<1>1. PICK S : replies \in Seq(S)
  BY DEF Inv, History
<1>2. replies \in Seq(S \cup {r}) /\ replies' = Append(replies, r)
  BY <1>1 DEF Respond
<1>3. /\ replies' \in Seq(S \cup {r})
      /\ Len(replies') = Len(replies) + 1 /\ Len(replies) \in Nat
      /\ DOMAIN replies' = 1..(Len(replies) + 1)
      /\ replies'[Len(replies')] = r
      /\ \A k \in 1..Len(replies) : replies'[k] = replies[k]
  BY <1>2
<1>4. r.head.close = done
  OBVIOUS
<1>5. \A k \in 1..Len(replies) : ~ replies[k].head.close
  BY <1>1 DEF Inv, CloseInv, Closing
<1>6. Closing' = done
  BY <1>3, <1>4 DEF Closing
<1>7. History'
  BY <1>3 DEF History
<1>8. \A k \in DOMAIN replies' : replies'[k].head.close => k = Len(replies')
  BY <1>3, <1>5
<1>9. pc' = "send" /\ finish' = done
  BY DEF Respond, Goto
<1>. QED
  BY <1>6, <1>7, <1>8, <1>9 DEF Inv, CloseInv

\* Send and what follows it: a response that says Close leads to the
\* deletion, any other back to the request loop.
LEMMA AfterSend ==
  ASSUME Inv, UNCHANGED <<replies, finish, peer>>, pc = "send",
         pc' \in {"send", "abort", IF finish THEN "deleted" ELSE "parse"}
  PROVE  Inv'
BY DEF Inv, History, CloseInv, Closing

LEMMA EnvironmentStep ==
  ASSUME Inv, Environment PROVE Inv'
<1>1. UNCHANGED handlerVars /\ (peer' # peer => peer' # "open")
  BY DEF Environment, ClientSend, ClientSendRest, ClientFin, ClientReset, OtherReactor, Edit,
         clientVars
<1>. QED
  BY <1>1, OutsideStep

LEMMA StaticStep ==
  ASSUME Inv, Static PROVE Inv'
<1>1. CASE StaticMissing
  BY <1>1, RespondStep, ZenonT(60) DEF StaticMissing, Make404Response, MakeResponse
<1>2. CASE StaticRespond
  <2>1. ShouldClose(req) \in BOOLEAN
    BY DEF ShouldClose
  <2>2. Make200Response(length).close = ShouldClose(req)
    BY DEF Make200Response, MakeResponse
  <2>. QED
    BY <1>2, <2>1, <2>2, RespondStep DEF StaticRespond
<1>3. CASE StaticFound \/ ResponseHead \/ TryLoad \/ LoadSize \/ LoadRead \/ TryInsert
  <2>1. /\ UNCHANGED <<replies, finish>>
        /\ pc \notin {"send", "deleted", "abort"} /\ pc' \notin {"send", "deleted"}
    BY <1>3 DEF StaticFound, ResponseHead, TryLoad, LoadSize, LoadRead, TryInsert, Goto
  <2>. QED
    BY <2>1, QuietStep
<1>. QED
  BY <1>1, <1>2, <1>3 DEF Static

\* Whatever takes the place of a program's output is answered like it.
LEMMA CgiRespondStep ==
  ASSUME Inv, NEW result, pc \notin {"send", "deleted", "abort"}, CgiRespond(result)
  PROVE  Inv'
<1>1. ShouldClose(req) \in BOOLEAN
  BY DEF ShouldClose
<1>2. ChangeHeader(Make200Response(0), Len(result)).close = ShouldClose(req)
  BY DEF ChangeHeader, Make200Response, MakeResponse
<1>. QED
  BY <1>1, <1>2, RespondStep DEF CgiRespond

LEMMA CgiPreserves ==
  ASSUME Inv, CgiStep PROVE Inv'
<1>1. CASE CgiMissing
  BY <1>1, RespondStep, ZenonT(60) DEF CgiMissing, Make404Response, MakeResponse
<1>2. CASE CgiOpenFails \/ ForkFails \/ WaitFails \/ Harvest
  BY <1>2, CgiRespondStep DEF CgiOpenFails, ForkFails, WaitFails, Harvest
<1>3. CASE CgiOpen \/ Fork \/ ChildRuns
  <2>1. /\ UNCHANGED <<replies, finish>>
        /\ pc \notin {"send", "deleted", "abort"} /\ pc' \notin {"send", "deleted"}
    BY <1>3 DEF CgiOpen, Fork, ChildRuns, Goto
  <2>. QED
    BY <2>1, QuietStep
<1>. QED
  BY <1>1, <1>2, <1>3 DEF CgiStep

LEMMA HandlerStep ==
  ASSUME Inv, Handler PROVE Inv'
<1>1. CASE Start \/ RecvAgain \/ Recv \/ NextRequest \/ Return \/ Abort
  <2>1. /\ UNCHANGED <<replies, finish>>
        /\ pc \notin {"send", "deleted", "abort"} /\ pc' \notin {"send", "deleted"}
    BY <1>1 DEF Start, RecvAgain, Recv, NextRequest, Return, Abort, Goto, handlerVars
  <2>. QED
    BY <2>1, QuietStep
<1>2. CASE RecvExit
  BY <1>2 DEF RecvExit, Goto, clientVars, Inv, History, CloseInv, Closing
<1>3. CASE Refuse
  BY <1>3, RespondStep DEF Refuse, Make400Response, MakeResponse
<1>4. CASE Send \/ SendDone \/ SendFails \/ Sigpipe
  <2>1. /\ UNCHANGED <<replies, finish, peer>> /\ pc = "send"
        /\ pc' \in {"send", "abort", IF finish THEN "deleted" ELSE "parse"}
    BY <1>4 DEF Send, SendDone, SendFails, Sigpipe, Goto, clientVars, handlerVars
  <2>. QED
    BY <2>1, AfterSend
<1>. QED
  BY <1>1, <1>2, <1>3, <1>4, StaticStep, CgiPreserves DEF Handler

LEMMA InitInv == Init => Inv
<1>. SUFFICES ASSUME Init PROVE Inv
  OBVIOUS
<1>1. replies \in Seq({}) /\ replies = <<>>
  BY DEF Init
<1>. QED
  BY <1>1 DEF Init, Inv, History, CloseInv, Closing

LEMMA NextInv == Inv /\ [Next]_vars => Inv'
<1>. SUFFICES ASSUME Inv, [Next]_vars PROVE Inv'
  OBVIOUS
<1>1. CASE Environment
  BY <1>1, EnvironmentStep
<1>2. CASE Handler
  BY <1>2, HandlerStep
<1>3. CASE UNCHANGED vars
  BY <1>3, OutsideStep DEF vars, clientVars
<1>. QED
  BY <1>1, <1>2, <1>3 DEF Next

\* Nothing follows a response that says Close, and the handler deletes a
\* connection only after such a response or when the client has left
\* (ProcessHttpRequest, http_server.cc 92-155).
THEOREM CloseSafety == Spec => []CloseHonest
<1>1. Inv => CloseHonest
  BY DEF Inv, CloseInv, CloseHonest
<1>. QED
  BY <1>1, InitInv, NextInv, PTL DEF Spec

-----------------------------------------------------------------------------
(* What ends the process.                                                  *)

Entries == [kind : Kinds, size : Nat]

Piece == [of : DOMAIN sent, last : BOOLEAN]

\* What is read belongs to requests that have been sent, and the files are
\* what the file system may have.
Feed ==
  /\ sent \in Seq(Texts) /\ edits \in Nat
  /\ half => sent # <<>>
  /\ rx \in Seq(Piece) /\ rbuf \in Seq(Piece)
  /\ file \in [Paths -> Entries] /\ \A p \in Paths : file[p] \in Disk[p]

AInv == Feed /\ AbortInv

\* A set of positions has a least element.
LEMMA MinIn ==
  ASSUME NEW E, E \subseteq Nat, E # {}
  PROVE  Min(E) \in E /\ \A y \in E : Min(E) <= y
<1>1. PICK x \in E : \A y \in E : ~ (<<y, x>> \in OpToRel(<, Nat))
  BY NatLessThanWellFounded, WFMin
<1>2. \A y \in E : ~ (y < x)
  <2>1. ASSUME NEW a \in Nat, NEW b \in Nat, a < b PROVE <<a, b>> \in OpToRel(<, Nat)
    BY <2>1 DEF OpToRel
  <2>. QED
    BY <1>1, <2>1, Zenon
<1>3. \A y \in E : x =< y
  BY <1>2
<1>. QED
  BY <1>3 DEF Min

\* The path of a request that has been sent names a file.
LEMMA UrlIsPath ==
  ASSUME NEW n \in DOMAIN sent, sent \in Seq(Texts)
  PROVE  ResourceUrl(n) \in Paths
<1>1. sent[n] \in Texts
  OBVIOUS
<1>. QED
  BY <1>1, SessionAssumption DEF ResourceUrl

\* The pieces of a longer history are pieces still.
LEMMA PiecesGrow ==
  ASSUME Feed, NEW t \in Texts, sent' = Append(sent, t)
  PROVE  /\ sent' \in Seq(Texts) /\ Len(sent') = Len(sent) + 1 /\ Len(sent) \in Nat
         /\ Seq(Piece) \subseteq Seq(Piece')
         /\ \A i \in DOMAIN sent : i \in DOMAIN sent' /\ sent'[i] = sent[i]
<1>1. /\ sent' \in Seq(Texts) /\ Len(sent') = Len(sent) + 1 /\ Len(sent) \in Nat
      /\ \A i \in DOMAIN sent : i \in DOMAIN sent' /\ sent'[i] = sent[i]
  BY DEF Feed
<1>2. Piece \subseteq Piece'
  BY <1>1 DEF Piece
<1>. QED
  BY <1>1, <1>2, SeqMonotonic

\* The client and the other reactors change neither the files nor the request.
LEMMA AbortClient ==
  ASSUME AInv, \/ \E t \in Texts : ClientSend(t)
               \/ ClientSendRest \/ ClientFin \/ ClientReset
               \/ \E p \in Paths \ CgiFolder : OtherReactor(p)
  PROVE  AInv'
<1>1. ASSUME NEW t \in Texts, ClientSend(t) PROVE AInv'
  <2>. DEFINE piece == [of |-> Len(sent'), last |-> FALSE]
  <2>1. /\ sent' = Append(sent, t) /\ rx' = Append(rx, piece)
        /\ UNCHANGED <<rbuf, file, edits, pc, req, peer>> /\ half'
    BY <1>1 DEF ClientSend, diskVars, connVars, handlerVars
  <2>2. /\ sent' \in Seq(Texts) /\ Len(sent') = Len(sent) + 1 /\ Len(sent) \in Nat
        /\ Seq(Piece) \subseteq Seq(Piece')
        /\ \A i \in DOMAIN sent : i \in DOMAIN sent' /\ sent'[i] = sent[i]
    BY <2>1, PiecesGrow DEF AInv
  <2>3. piece \in Piece'
    BY <2>2 DEF Piece
  <2>4. rx' \in Seq(Piece')
    <3>1. rx \in Seq(Piece')
      BY <2>2 DEF AInv, Feed
    <3>. QED
      BY <2>1, <2>3, <3>1, AppendProperties
  <2>5. Feed'
    BY <2>1, <2>2, <2>4, SMTT(20) DEF AInv, Feed
  <2>6. req \in DOMAIN sent => url' = url
    BY <2>1, <2>2 DEF AInv, AbortInv, url, ResourceUrl
  <2>7. AbortInv'
    BY <2>1, <2>2, <2>6 DEF AInv, AbortInv, AbortsOnlyOnChange
  <2>. QED
    BY <2>5, <2>7 DEF AInv
<1>2. ASSUME ClientSendRest \/ ClientFin \/ ClientReset
             \/ \E p \in Paths \ CgiFolder : OtherReactor(p)
      PROVE  AInv'
  <2>1. /\ UNCHANGED <<sent, rbuf, file, edits, pc, req>>
        /\ peer' # peer => peer' # "open" /\ peer # "reset"
        /\ half' => half
    BY <1>2 DEF ClientSendRest, ClientFin, ClientReset, OtherReactor, clientVars, diskVars,
                connVars, handlerVars
  <2>2. rx' \in Seq(Piece)
    <3>1. CASE ClientSendRest
      <4>. DEFINE piece == [of |-> Len(sent), last |-> TRUE]
      <4>1. Len(sent) \in DOMAIN sent
        BY <3>1 DEF ClientSendRest, AInv, Feed
      <4>2. piece \in Piece
        BY <4>1 DEF Piece
      <4>. QED
        BY <3>1, <4>2, AppendProperties DEF ClientSendRest, AInv, Feed
    <3>2. CASE ~ ClientSendRest
      <4>1. rx' \in {rx, <<>>}
        BY <1>2, <3>2 DEF ClientFin, ClientReset, OtherReactor, clientVars
      <4>2. rx \in Seq(Piece) /\ <<>> \in Seq(Piece)
        BY EmptySeq DEF AInv, Feed
      <4>. QED
        BY <4>1, <4>2, Zenon
    <3>. QED
      BY <3>1, <3>2
  <2>3. Feed'
    BY <2>1, <2>2 DEF AInv, Feed, Piece
  <2>4. AbortInv'
    BY <2>1 DEF AInv, AbortInv, AbortsOnlyOnChange, url, ResourceUrl
  <2>. QED
    BY <2>3, <2>4 DEF AInv
<1>. QED
  BY <1>1, <1>2

\* A change of the files is what the property allows for.
LEMMA AbortEdit ==
  ASSUME AInv, NEW q \in Paths, NEW entry \in Disk[q], Edit(q, entry)
  PROVE  AInv'
<1>1. /\ UNCHANGED <<sent, half, rx, rbuf, pc, req, peer>> /\ edits' = edits + 1
  BY DEF Edit, clientVars, connVars, handlerVars
<1>2. edits' \in Nat /\ edits' # 0
  BY <1>1 DEF AInv, Feed
<1>3. Feed'
  <2>1. entry \in Entries
    BY SessionAssumption DEF Entries
  <2>2. file' \in [Paths -> Entries] /\ \A p \in Paths : file'[p] \in Disk[p]
    BY <2>1 DEF Edit, AInv, Feed
  <2>. QED
    BY <1>1, <1>2, <2>2 DEF AInv, Feed, Piece
<1>4. AbortInv'
  BY <1>1, <1>2 DEF AInv, AbortInv, AbortsOnlyOnChange
<1>. QED
  BY <1>3, <1>4 DEF AInv

\* A step of the handler that leaves the request and the read buffer alone
\* and only goes on to look at a file if it has been found.
LEMMA AbortQuiet ==
  ASSUME AInv, UNCHANGED <<sent, half, peer, file, edits, rx, rbuf, req>>,
         pc' \in {"static", "cgi"} => pc' = pc,
         pc' \in {"head", "load", "size", "read"} =>
            \/ pc \in {"head", "load", "size", "read"}
            \/ pc = "static" /\ file[url].kind # "none",
         pc' = "abort" => peer = "reset" \/ pc = "abort"
  PROVE  AInv'
<1>1. url' = url
  BY DEF url, ResourceUrl
<1>2. Feed'
  BY DEF AInv, Feed, Piece
<1>3. AbortInv'
  BY <1>1 DEF AInv, AbortInv, AbortsOnlyOnChange
<1>. QED
  BY <1>2, <1>3 DEF AInv

\* The helpers throw for a name that has changed, or that is no plain file.
LEMMA AbortThrows ==
  ASSUME AInv, Abort
  PROVE  AInv'
<1>1. UNCHANGED <<sent, half, peer, file, edits, rx, rbuf, req>> /\ pc' = "abort"
  BY DEF Abort, Goto, clientVars, diskVars, connVars
<1>2. pc \in {"static", "cgi", "head", "size", "read"} /\ req \in DOMAIN sent
  BY DEF Abort, AInv, AbortInv
<1>3. file[url].kind \in Kinds
  <2>1. url \in Paths
    BY <1>2, UrlIsPath DEF url, AInv, Feed
  <2>. QED
    BY <2>1 DEF AInv, Feed, Entries
<1>4. edits # 0 \/ file[url].kind \in {"directory", "locked", "error"}
  BY <1>3 DEF Abort, HasSize, Kinds, AInv, AbortInv
<1>5. url' = url
  BY <1>1 DEF url, ResourceUrl
<1>6. Feed'
  BY <1>1 DEF AInv, Feed, Piece
<1>7. AbortInv'
  BY <1>1, <1>2, <1>4, <1>5 DEF AbortInv, AbortsOnlyOnChange
<1>. QED
  BY <1>6, <1>7 DEF AInv

\* recv() moves pieces from the socket to the read buffer.
LEMMA AbortRecv ==
  ASSUME AInv, Recv
  PROVE  AInv'
<1>1. PICK n \in 1..Len(rx) :
        rbuf' = rbuf \o SubSeq(rx, 1, n) /\ rx' = SubSeq(rx, n + 1, Len(rx))
  BY DEF Recv
<1>2. UNCHANGED <<sent, half, peer, file, edits, pc, req>>
  BY DEF Recv, diskVars, handlerVars
<1>3. rx \in Seq(Piece) /\ rbuf \in Seq(Piece)
  BY DEF AInv, Feed
<1>4. SubSeq(rx, 1, n) \in Seq(Piece) /\ SubSeq(rx, n + 1, Len(rx)) \in Seq(Piece)
  BY <1>3
<1>5. rbuf' \in Seq(Piece) /\ rx' \in Seq(Piece)
  BY <1>1, <1>3, <1>4, ConcatProperties
<1>6. Feed'
  BY <1>2, <1>5 DEF AInv, Feed, Piece
<1>7. AbortInv'
  BY <1>2 DEF AInv, AbortInv, AbortsOnlyOnChange, url, ResourceUrl
<1>. QED
  BY <1>6, <1>7 DEF AInv

\* A valid request is one that has been sent.
LEMMA AbortNext ==
  ASSUME AInv, NextRequest
  PROVE  AInv'
<1>. DEFINE ends == {i \in DOMAIN rbuf : rbuf[i].last}
            text == SubSeq(rbuf, 1, Min(ends))
<1>1. /\ ends # {}
      /\ rbuf' = SubSeq(rbuf, Min(ends) + 1, Len(rbuf))
      /\ req' = IF Len(text) = 2 /\ text[1].of = text[2].of THEN text[1].of ELSE 0
      /\ UNCHANGED <<sent, half, peer, rx, file, edits>>
      /\ pc' \in {"invalid", "cgi", "static"} /\ (pc' \in {"static", "cgi"} => req' # 0)
  BY DEF NextRequest, FindAndPopTill, clientVars, diskVars, Goto, IsValid
<1>2. rbuf \in Seq(Piece) /\ Len(rbuf) \in Nat /\ DOMAIN rbuf = 1..Len(rbuf)
  BY DEF AInv, Feed
<1>3. Min(ends) \in 1..Len(rbuf)
  <2>1. ends \subseteq Nat /\ ends \subseteq 1..Len(rbuf)
    BY <1>2
  <2>. HIDE DEF ends
  <2>. QED
    BY <1>1, <2>1, MinIn
<1>4. /\ text \in Seq(Piece) /\ SubSeq(rbuf, Min(ends) + 1, Len(rbuf)) \in Seq(Piece)
      /\ text[1] = rbuf[1] /\ rbuf[1] \in Piece
  <2>. HIDE DEF ends
  <2>. QED
    BY <1>2, <1>3
<1>5. req' # 0 => req' \in DOMAIN sent
  BY <1>1, <1>4 DEF Piece
<1>6. Feed'
  BY <1>1, <1>4 DEF AInv, Feed, Piece
<1>7. AbortInv'
  BY <1>1, <1>5 DEF AbortInv, AbortsOnlyOnChange
<1>. QED
  BY <1>6, <1>7 DEF AInv

\* Every other step of the handler.
LEMMA AbortHandler ==
  ASSUME AInv, Handler
  PROVE  AInv'
<1>1. CASE Start \/ RecvExit \/ RecvAgain \/ Return
  BY <1>1, AbortQuiet DEF Start, RecvExit, RecvAgain, Return, Goto, clientVars, diskVars, connVars
<1>2. CASE Refuse \/ StaticMissing \/ StaticRespond \/ CgiMissing \/ CgiOpenFails \/ ForkFails
           \/ WaitFails \/ Harvest
  BY <1>2, AbortQuiet DEF Refuse, StaticMissing, StaticRespond, CgiMissing, CgiOpenFails,
     ForkFails, WaitFails, Harvest, CgiRespond, Respond, Goto, clientVars, diskVars
<1>3. CASE StaticFound \/ ResponseHead \/ TryLoad \/ LoadSize \/ LoadRead \/ TryInsert
  BY <1>3, AbortQuiet DEF StaticFound, ResponseHead, TryLoad, LoadSize, LoadRead, TryInsert,
     Goto, Exists, clientVars, diskVars, connVars
<1>4. CASE CgiOpen \/ Fork \/ ChildRuns
  BY <1>4, AbortQuiet DEF CgiOpen, Fork, ChildRuns, Goto, clientVars, diskVars, connVars
<1>5. CASE Send \/ SendDone \/ SendFails \/ Sigpipe
  BY <1>5, AbortQuiet DEF Send, SendDone, SendFails, Sigpipe, Goto, clientVars, diskVars,
     connVars, handlerVars
<1>. QED
  BY <1>1, <1>2, <1>3, <1>4, <1>5, AbortRecv, AbortNext, AbortThrows DEF Handler, Static, CgiStep

LEMMA AbortInvariance == Spec => []AInv
<1>1. Init => AInv
  <2>. SUFFICES ASSUME Init PROVE AInv
    OBVIOUS
  <2>0. file \in [Paths -> Entries] /\ \A p \in Paths : file[p] \in Disk[p]
    <3>1. UNION {Disk[p] : p \in Paths} \subseteq Entries
      BY SessionAssumption DEF Entries
    <3>. QED
      BY <3>1 DEF Init
  <2>1. Feed
    BY <2>0 DEF Init, Feed
  <2>2. AbortInv
    BY DEF Init, AbortInv, AbortsOnlyOnChange
  <2>. QED
    BY <2>1, <2>2 DEF AInv
<1>2. AInv /\ [Next]_vars => AInv'
  <2>. SUFFICES ASSUME AInv, [Next]_vars PROVE AInv'
    OBVIOUS
  <2>1. CASE Environment
    BY <2>1, AbortClient, AbortEdit DEF Environment
  <2>2. CASE Handler
    BY <2>2, AbortHandler
  <2>3. CASE UNCHANGED vars
    BY <2>3, AbortQuiet DEF vars, clientVars, diskVars, connVars, handlerVars
  <2>. QED
    BY <2>1, <2>2, <2>3 DEF Next
<1>. QED
  BY <1>1, <1>2, PTL DEF Spec

\* IsFileExists, CheckFileSize and LoadFile (http_utils.cc 164-189): for any
\* requests and files, the process is only ended by a file that changes while
\* the server runs, by a client that resets its connection, or by a request
\* for a directory, a file that does not open or a name stat() refuses.
THEOREM AbortSafety == Spec => []AbortsOnlyOnChange
<1>1. AInv => AbortsOnlyOnChange
  BY DEF AInv, AbortInv
<1>. QED
  BY <1>1, AbortInvariance, PTL

-----------------------------------------------------------------------------
(* Types.                                                                  *)

Heads == [status : Nat, close : BOOLEAN, length : Nat]
Reply == [of : Nat, head : Heads, body : Seq(Bytes)]
ResultFile == {"file"} \X Seq(Bytes)

\* Every variable keeps its type, the thread reads a result file only after
\* it has opened one, and the history is made of responses.
TInv ==
  /\ half \in BOOLEAN /\ peer \in {"open", "fin", "reset"} /\ Len(sent) <= MaxSent
  /\ got \in Seq(Bytes) /\ wbuf \in Seq(Bytes) /\ body \in Seq(Bytes)
  /\ wrote \in 0..Len(wbuf)
  /\ file \in [Paths -> Entries] /\ edits \in 0..MaxEdits
  /\ cached \in [Paths -> {NoFile} \cup ResultFile]
  /\ pc \in Labels
  /\ req \in 0..Len(sent)
  /\ length \in Nat
  /\ shared \in {NoFile} \cup ResultFile
  /\ pc \in {"fork", "child", "wait"} => shared \in ResultFile
  /\ finish \in BOOLEAN
  /\ replies \in Seq(Reply)

\* The steps that write a response.
Answers ==
  \/ Refuse \/ StaticMissing \/ StaticRespond
  \/ CgiMissing \/ CgiOpenFails \/ ForkFails \/ WaitFails \/ Harvest

\* A sequence of equal elements.
LEMMA ConstantSeq ==
  ASSUME NEW S, NEW e \in S, NEW n \in Nat
  PROVE  [i \in 1..n |-> e] \in Seq(S) /\ Len([i \in 1..n |-> e]) = n
OBVIOUS

\* The content of a file is as long as its size, and made of bytes; so are
\* the zeros that stand for it.
LEMMA ContentBytes ==
  ASSUME NEW n \in Nat
  PROVE  /\ Content(n) \in Seq(Bytes) /\ Len(Content(n)) = n
         /\ Zeros(n) \in Seq(Bytes) /\ Len(Zeros(n)) = n
<1>1. <<"file", n>> \in Bytes /\ <<"zero", 0>> \in Bytes
  BY DEF Bytes
<1>. QED
  BY <1>1 DEF Content, Zeros

\* What another reactor may load.
Loaded(p) == IF file[p].kind = "file" THEN Content(file[p].size) ELSE Zeros(file[p].size)

LEMMA LoadedBytes ==
  ASSUME TInv, NEW p \in Paths
  PROVE  /\ file[p].size \in Nat
         /\ Loaded(p) \in Seq(Bytes) /\ Len(Loaded(p)) = file[p].size
         /\ <<"file", Loaded(p)>> \in ResultFile /\ <<"file", Loaded(p)>>[2] = Loaded(p)
<1>1. file[p].size \in Nat
  BY DEF TInv, Entries
<1>2. Loaded(p) \in Seq(Bytes) /\ Len(Loaded(p)) = file[p].size
  BY <1>1, ContentBytes DEF Loaded
<1>3. <<"file", Loaded(p)>> \in ResultFile /\ <<"file", Loaded(p)>>[2] = Loaded(p)
  <2>. HIDE DEF Loaded
  <2>. QED
    BY <1>2 DEF ResultFile
<1>. QED
  BY <1>1, <1>2, <1>3

\* The cache after a step of another reactor.
LEMMA OtherEffect ==
  ASSUME TInv, NEW p \in Paths, OtherReactor(p)
  PROVE  /\ \/ cached' = [cached EXCEPT ![p] = <<"file", Loaded(p)>>]
            \/ cached' = [cached EXCEPT ![p] = NoFile]
         /\ \A q \in Paths : \/ cached'[q] = cached[q] \/ cached'[q] = NoFile
                             \/ q = p /\ cached'[q] = <<"file", Loaded(p)>>
         /\ UNCHANGED <<clientVars, diskVars, connVars, handlerVars, shared>>
<1>1. /\ \/ cached' = [cached EXCEPT ![p] = <<"file", Loaded(p)>>]
         \/ cached' = [cached EXCEPT ![p] = NoFile]
      /\ UNCHANGED <<clientVars, diskVars, connVars, handlerVars, shared>>
  BY DEF OtherReactor, Loaded
<1>2. DOMAIN cached = Paths
  BY DEF TInv
<1>. HIDE DEF Loaded
<1>. QED
  BY <1>1, <1>2

\* What clients, editors and the other reactors do keeps the types.
LEMMA TypedClient ==
  ASSUME AInv, TInv, Environment
  PROVE  TInv'
<1>0. Len(sent) \in Nat
  BY DEF AInv, Feed
<1>1. ASSUME NEW t \in Texts, ClientSend(t) PROVE TInv'
  <2>1. Len(sent') = Len(sent) + 1 /\ Len(sent) < MaxSent
    BY <1>1, PiecesGrow DEF ClientSend, AInv
  <2>. QED
    BY <1>0, <1>1, <2>1, SessionAssumption DEF ClientSend, TInv, diskVars, connVars, handlerVars
<1>2. CASE ClientSendRest \/ ClientFin \/ ClientReset
  BY <1>2 DEF ClientSendRest, ClientFin, ClientReset, TInv, diskVars, connVars, handlerVars
<1>3. ASSUME NEW p \in Paths, OtherReactor(p) PROVE TInv'
  <2>1. <<"file", Loaded(p)>> \in ResultFile
    BY LoadedBytes
  <2>2. cached' \in [Paths -> {NoFile} \cup ResultFile]
    BY <1>3, <2>1, OtherEffect DEF TInv
  <2>. QED
    BY <1>3, <2>2, OtherEffect DEF TInv, clientVars, diskVars, connVars, handlerVars
<1>4. ASSUME NEW p \in Paths, NEW entry \in Disk[p], Edit(p, entry) PROVE TInv'
  <2>0. entry \in Entries
    BY SessionAssumption DEF Entries
  <2>1. file' \in [Paths -> Entries] /\ edits' \in 0..MaxEdits
    BY <1>4, <2>0, SessionAssumption DEF Edit, TInv
  <2>. QED
    BY <1>4, <2>1 DEF Edit, TInv, clientVars, connVars, handlerVars
<1>. QED
  BY <1>1, <1>2, <1>3, <1>4 DEF Environment

\* What a response is made of.
Carries(head, bytes) ==
  \/ (Refuse \/ StaticMissing \/ CgiMissing) /\ head.length = 0 /\ bytes = <<>>
  \/ StaticRespond /\ head.length = length /\ bytes = body
  \/ /\ \/ CgiOpenFails /\ bytes = OpenError
        \/ ForkFails /\ bytes = ForkError
        \/ WaitFails /\ bytes = WaitError
        \/ Harvest /\ bytes = shared[2]
     /\ head.length = Len(bytes)

\* Every step that answers goes through one call of Respond.
LEMMA AnswerParts ==
  ASSUME TInv, Answers
  PROVE  \E head \in Heads, bytes \in Seq(Bytes), done \in BOOLEAN :
           Respond(head, bytes, done) /\ Carries(head, bytes)
<1>1. ShouldClose(req) \in BOOLEAN
  BY DEF ShouldClose
<1>2. /\ Make400Response \in Heads /\ Make400Response.length = 0
      /\ Make404Response \in Heads /\ Make404Response.length = 0
      /\ <<>> \in Seq(Bytes)
  BY DEF Make400Response, Make404Response, MakeResponse, Heads
<1>3. \A n \in Nat :
        /\ Make200Response(n) \in Heads /\ Make200Response(n).length = n
        /\ ChangeHeader(Make200Response(0), n) \in Heads
        /\ ChangeHeader(Make200Response(0), n).length = n
  BY <1>1 DEF Make200Response, MakeResponse, ChangeHeader, Heads
<1>4. CASE Refuse
  BY <1>2, <1>4 DEF Refuse, Carries
<1>5. CASE StaticMissing \/ CgiMissing
  BY <1>2, <1>5 DEF StaticMissing, CgiMissing, Carries
<1>6. CASE StaticRespond
  <2>1. length \in Nat /\ body \in Seq(Bytes)
    BY DEF TInv
  <2>2. Respond(Make200Response(length), body, ShouldClose(req))
    BY <1>6 DEF StaticRespond
  <2>3. Carries(Make200Response(length), body)
    BY <1>3, <1>6, <2>1 DEF Carries
  <2>. QED
    BY <1>1, <1>3, <2>1, <2>2, <2>3
<1>7. ASSUME NEW result \in Seq(Bytes), CgiRespond(result),
             \A head : head.length = Len(result) => Carries(head, result)
      PROVE  \E head \in Heads, bytes \in Seq(Bytes), done \in BOOLEAN :
               Respond(head, bytes, done) /\ Carries(head, bytes)
  <2>. DEFINE head == ChangeHeader(Make200Response(0), Len(result))
  <2>1. Len(result) \in Nat
    OBVIOUS
  <2>2. head \in Heads /\ head.length = Len(result)
    BY <1>3, <2>1
  <2>3. Respond(head, result, ShouldClose(req))
    BY <1>7 DEF CgiRespond
  <2>. HIDE DEF head
  <2>4. Carries(head, result)
    BY <1>7, <2>2
  <2>. QED
    BY <1>1, <2>2, <2>3, <2>4
<1>8. OpenError \in Seq(Bytes) /\ ForkError \in Seq(Bytes) /\ WaitError \in Seq(Bytes)
  BY DEF OpenError, ForkError, WaitError, Bytes
<1>9. CASE CgiOpenFails
  <2>1. CgiRespond(OpenError)
    BY <1>9 DEF CgiOpenFails
  <2>2. \A head : head.length = Len(OpenError) => Carries(head, OpenError)
    BY <1>9 DEF Carries
  <2>. QED
    BY <1>7, <1>8, <2>1, <2>2
<1>10. CASE ForkFails
  <2>1. CgiRespond(ForkError)
    BY <1>10 DEF ForkFails
  <2>2. \A head : head.length = Len(ForkError) => Carries(head, ForkError)
    BY <1>10 DEF Carries
  <2>. QED
    BY <1>7, <1>8, <2>1, <2>2
<1>11. CASE WaitFails
  <2>1. CgiRespond(WaitError)
    BY <1>11 DEF WaitFails
  <2>2. \A head : head.length = Len(WaitError) => Carries(head, WaitError)
    BY <1>11 DEF Carries
  <2>. QED
    BY <1>7, <1>8, <2>1, <2>2
<1>12. CASE Harvest
  <2>1. shared[2] \in Seq(Bytes)
    BY <1>12 DEF Harvest, TInv, ResultFile
  <2>2. CgiRespond(shared[2])
    BY <1>12 DEF Harvest
  <2>3. \A head : head.length = Len(shared[2]) => Carries(head, shared[2])
    BY <1>12 DEF Carries
  <2>. QED
    BY <1>7, <2>1, <2>2, <2>3
<1>. QED
  BY <1>4, <1>5, <1>6, <1>9, <1>10, <1>11, <1>12 DEF Answers

\* What every response does to the state.
LEMMA AnswerEffect ==
  ASSUME TInv, Answers
  PROVE  /\ \E r \in Reply :
              /\ r.of = req /\ replies' = Append(replies, r) /\ Carries(r.head, r.body)
              /\ wbuf' = wbuf \o (<<<<"head", Len(replies) + 1>>>> \o r.body)
              /\ replies'[Len(replies) + 1] = r
         /\ replies' \in Seq(Reply)
         /\ Len(replies') = Len(replies) + 1 /\ Len(replies) \in Nat
         /\ \A k \in DOMAIN replies : k \in DOMAIN replies' /\ replies'[k] = replies[k]
         /\ \A k \in DOMAIN replies' : k \in DOMAIN replies \/ k = Len(replies) + 1
         /\ wbuf' \in Seq(Bytes) /\ Len(wbuf) <= Len(wbuf')
         /\ pc' = "send" /\ finish' \in BOOLEAN
         /\ UNCHANGED <<sent, half, peer, rx, got, file, edits, rbuf, wrote, req>>
<1>1. PICK head \in Heads, bytes \in Seq(Bytes), done \in BOOLEAN :
         Respond(head, bytes, done) /\ Carries(head, bytes)
  BY AnswerParts
<1>. DEFINE r == [of |-> req, head |-> head, body |-> bytes]
<1>2. r \in Reply /\ r.of = req /\ r.head = head /\ r.body = bytes
  BY DEF TInv, Reply
<1>3. /\ replies' = Append(replies, r) /\ finish' = done /\ pc' = "send"
      /\ wbuf' = wbuf \o (<<<<"head", Len(replies')>>>> \o bytes)
      /\ UNCHANGED <<sent, half, peer, rx, got, file, edits, rbuf, wrote, req>>
  BY <1>1 DEF Respond, Write, Goto, clientVars, diskVars
<1>. HIDE DEF r
<1>4. /\ replies' \in Seq(Reply) /\ replies'[Len(replies) + 1] = r
      /\ Len(replies') = Len(replies) + 1 /\ Len(replies) \in Nat
      /\ \A k \in DOMAIN replies : k \in DOMAIN replies' /\ replies'[k] = replies[k]
      /\ \A k \in DOMAIN replies' : k \in DOMAIN replies \/ k = Len(replies) + 1
  BY <1>2, <1>3 DEF TInv
<1>5. <<<<"head", Len(replies')>>>> \in Seq(Bytes)
  BY <1>4 DEF Bytes
<1>6. <<<<"head", Len(replies')>>>> \o bytes \in Seq(Bytes)
  BY <1>5, ConcatProperties
<1>7. wbuf' \in Seq(Bytes) /\ Len(wbuf) <= Len(wbuf')
  BY <1>3, <1>6, ConcatProperties DEF TInv
<1>8. wbuf' = wbuf \o (<<<<"head", Len(replies) + 1>>>> \o r.body) /\ Carries(r.head, r.body)
  BY <1>1, <1>2, <1>3, <1>4
<1>. QED
  BY <1>2, <1>3, <1>4, <1>7, <1>8

\* Serialize, Write and the entry of Send keep the types.
LEMMA TypedAnswer ==
  ASSUME TInv, Answers
  PROVE  TInv'
<1>1. UNCHANGED <<cached, length>> /\ (shared' = shared \/ shared' = NoFile)
  BY DEF Answers, Refuse, StaticMissing, StaticRespond, CgiMissing, CgiOpenFails, ForkFails,
         WaitFails, Harvest
<1>2. body' \in Seq(Bytes)
  <2>1. CASE Harvest
    BY <2>1 DEF Harvest, TInv, ResultFile
  <2>2. CASE ~ Harvest
    BY <2>2 DEF Answers, Refuse, StaticMissing, StaticRespond, CgiMissing, CgiOpenFails, ForkFails,
       WaitFails, TInv
  <2>. QED
    BY <2>1, <2>2
<1>3. /\ replies' \in Seq(Reply) /\ wbuf' \in Seq(Bytes) /\ Len(wbuf) <= Len(wbuf')
      /\ pc' = "send" /\ finish' \in BOOLEAN
      /\ UNCHANGED <<sent, half, peer, rx, got, file, edits, rbuf, wrote, req>>
  BY AnswerEffect
<1>4. wrote' \in 0..Len(wbuf')
  <2>1. Len(wbuf) \in Nat /\ Len(wbuf') \in Nat
    BY <1>3 DEF TInv
  <2>. QED
    BY <1>3, <2>1 DEF TInv
<1>. QED
  BY <1>1, <1>2, <1>3, <1>4 DEF TInv, Labels

\* The steps of HandleStaticResourceRequest before its response.
Looks ==
  \/ StaticFound \/ ResponseHead \/ TryLoad \/ LoadSize \/ LoadRead \/ TryInsert

\* Before its response a static request touches neither connection nor
\* result file.
LEMMA LooksEffect ==
  ASSUME Looks
  PROVE  UNCHANGED <<clientVars, diskVars, connVars, req, finish, replies, shared>>
BY DEF Looks, StaticFound, ResponseHead, TryLoad, LoadSize, LoadRead, TryInsert

\* CheckFileSize, TryLoad, LoadFile and TryInsert keep the types.
LEMMA TypedLooks ==
  ASSUME AInv, TInv, Looks
  PROVE  TInv'
<1>1. pc \in {"static", "head", "load", "size", "read"} => url \in Paths
  BY UrlIsPath DEF AInv, AbortInv, Feed, url
<1>2. pc \in {"static", "head", "load", "size", "read"} => file[url].size \in Nat
  BY <1>1 DEF TInv, Entries
<1>3. length' \in Nat
  BY <1>2 DEF Looks, StaticFound, ResponseHead, TryLoad, LoadSize, LoadRead, TryInsert, TInv
<1>4. body' \in Seq(Bytes)
  <2>1. CASE LoadSize
    BY <1>2, <2>1, ContentBytes DEF LoadSize
  <2>2. CASE LoadRead
    <3>. DEFINE n == file[url].size
                plain == file[url].kind = "file"
    <3>1. /\ Content(n) \in Seq(Bytes) /\ Len(Content(n)) = n /\ n \in Nat
      BY <1>2, <2>2, ContentBytes DEF LoadRead
    <3>2. body \in Seq(Bytes) /\ DOMAIN body = 1..Len(body) /\ Len(body) \in Nat
      BY DEF TInv
    <3>3. body' = [i \in 1..Len(body) |-> IF plain /\ i <= n THEN Content(n)[i] ELSE body[i]]
      BY <2>2, <3>2 DEF LoadRead
    <3>. HIDE DEF n, plain
    <3>4. \A i \in 1..Len(body) : (IF plain /\ i <= n THEN Content(n)[i] ELSE body[i]) \in Bytes
      BY <3>1, <3>2
    <3>. QED
      BY <3>2, <3>3, <3>4
  <2>3. CASE TryLoad
    <3>1. cached[url] \in {NoFile} \cup ResultFile /\ <<>> \in Seq(Bytes)
      BY <1>1, <2>3 DEF TryLoad, TInv
    <3>. QED
      BY <2>3, <3>1 DEF TryLoad, ResultFile
  <2>4. CASE StaticFound \/ ResponseHead \/ TryInsert
    BY <2>4 DEF StaticFound, ResponseHead, TryInsert, TInv
  <2>. QED
    BY <2>1, <2>2, <2>3, <2>4 DEF Looks
<1>5. cached' \in [Paths -> {NoFile} \cup ResultFile]
  <2>1. <<"file", body>> \in ResultFile
    BY DEF ResultFile, TInv
  <2>. QED
    BY <2>1 DEF Looks, StaticFound, ResponseHead, TryLoad, LoadSize, LoadRead, TryInsert, TInv
<1>6. pc' \in {"head", "load", "body", "size", "read", "insert"}
  BY DEF Looks, StaticFound, ResponseHead, TryLoad, LoadSize, LoadRead, TryInsert, Goto
<1>. QED
  BY <1>3, <1>4, <1>5, <1>6, LooksEffect DEF TInv, Labels, clientVars, diskVars, connVars

\* open(), fork() and the child keep the types: after open() there is a
\* result file.
LEMMA TypedCgi ==
  ASSUME TInv, CgiOpen \/ Fork \/ ChildRuns
  PROVE  TInv'
<1>1. CASE CgiOpen
  <2>1. <<"file", <<>>>> \in ResultFile
    BY EmptySeq, Zenon DEF ResultFile
  <2>. QED
    BY <1>1, <2>1 DEF CgiOpen, TInv, Labels, Goto, clientVars, diskVars, connVars
<1>2. CASE Fork
  BY <1>2 DEF Fork, TInv, Labels, Goto, clientVars, diskVars, connVars
<1>3. CASE ChildRuns
  <2>1. PICK n \in {0, 1} : shared' = <<"file", shared[2] \o [i \in 1..n |-> <<"out", req>>]>>
    BY <1>3 DEF ChildRuns
  <2>2. shared[2] \in Seq(Bytes)
    BY <1>3 DEF ChildRuns, TInv, ResultFile
  <2>3. [i \in 1..n |-> <<"out", req>>] \in Seq(Bytes)
    <3>1. <<"out", req>> \in Bytes
      BY DEF TInv, Bytes
    <3>. QED
      BY <3>1
  <2>4. shared[2] \o [i \in 1..n |-> <<"out", req>>] \in Seq(Bytes)
    BY <2>2, <2>3, ConcatProperties
  <2>5. shared' \in ResultFile
    BY <2>1, <2>4 DEF ResultFile
  <2>. QED
    BY <1>3, <2>5 DEF ChildRuns, TInv, Labels, Goto, clientVars, diskVars, connVars
<1>. QED
  BY <1>1, <1>2, <1>3

\* What send() takes goes to the client; the write buffer is emptied at the end.
LEMMA TypedSend ==
  ASSUME TInv, Send \/ SendDone \/ SendFails \/ Sigpipe
  PROVE  TInv'
<1>1. CASE Send
  <2>1. PICK n \in 1..(Len(wbuf) - wrote) :
          got' = got \o SubSeq(wbuf, wrote + 1, wrote + n) /\ wrote' = wrote + n
    BY <1>1 DEF Send
  <2>2. wrote \in Nat /\ Len(wbuf) \in Nat /\ wrote + n \in 0..Len(wbuf)
    BY <2>1 DEF TInv
  <2>3. SubSeq(wbuf, wrote + 1, wrote + n) \in Seq(Bytes)
    BY <2>1, <2>2, SMTT(20) DEF TInv
  <2>4. got' \in Seq(Bytes)
    BY <2>1, <2>3, ConcatProperties DEF TInv
  <2>. QED
    BY <1>1, <2>1, <2>2, <2>4 DEF Send, TInv, diskVars, handlerVars
<1>2. CASE SendDone \/ SendFails
  <2>1. wbuf' \in Seq(Bytes) /\ wrote' \in 0..Len(wbuf')
    <3>1. wbuf' = <<>> /\ wrote' = 0
      BY <1>2 DEF SendDone, SendFails
    <3>2. <<>> \in Seq(Bytes) /\ Len(<<>>) = 0
      BY EmptySeq
    <3>. QED
      BY <3>1, <3>2
  <2>2. pc' \in {"deleted", "parse"}
    BY <1>2 DEF SendDone, SendFails, Goto
  <2>. QED
    BY <1>2, <2>1, <2>2 DEF SendDone, SendFails, TInv, Labels, clientVars, diskVars
<1>3. CASE Sigpipe
  BY <1>3 DEF Sigpipe, TInv, Labels, Goto, clientVars, diskVars, connVars
<1>. QED
  BY <1>1, <1>2, <1>3

\* A request that is popped has been sent, or is broken.
LEMMA NextRequestEffect ==
  ASSUME AInv, NextRequest
  PROVE  /\ req' \in 0..Len(sent) /\ (pc' # "invalid" => req' # 0)
         /\ pc' \in {"invalid", "cgi", "static"} /\ length' = 0 /\ body' = <<>>
         /\ UNCHANGED <<clientVars, diskVars, cached, wbuf, wrote, finish, replies, shared>>
<1>1. /\ pc' \in {"invalid", "cgi", "static"} /\ (pc' # "invalid" => req' # 0)
      /\ length' = 0 /\ body' = <<>>
      /\ UNCHANGED <<clientVars, diskVars, cached, wbuf, wrote, finish, replies, shared>>
  BY DEF NextRequest, Goto, IsValid
<1>. DEFINE ends == {i \in DOMAIN rbuf : rbuf[i].last}
            text == SubSeq(rbuf, 1, Min(ends))
<1>2. ends # {} /\ req' = IF Len(text) = 2 /\ text[1].of = text[2].of THEN text[1].of ELSE 0
  BY DEF NextRequest, FindAndPopTill
<1>3. rbuf \in Seq(Piece) /\ Len(rbuf) \in Nat /\ DOMAIN rbuf = 1..Len(rbuf)
      /\ sent \in Seq(Texts)
  BY DEF AInv, Feed
<1>4. Min(ends) \in 1..Len(rbuf)
  <2>1. ends \subseteq Nat /\ ends \subseteq 1..Len(rbuf)
    BY <1>3
  <2>. HIDE DEF ends
  <2>. QED
    BY <1>2, <2>1, MinIn
<1>5. text[1] \in Piece
  <2>. HIDE DEF ends
  <2>. QED
    BY <1>3, <1>4
<1>6. req' \in 0..Len(sent)
  <2>1. text[1].of \in 1..Len(sent) /\ Len(sent) \in Nat /\ req' \in {text[1].of, 0}
    <3>. HIDE DEF text
    <3>. QED
      BY <1>2, <1>3, <1>5 DEF Piece
  <2>. HIDE DEF text
  <2>. QED
    BY <2>1
<1>. QED
  BY <1>1, <1>6

\* Every step keeps the types.
LEMMA TypedStep ==
  ASSUME AInv, TInv, [Next]_vars
  PROVE  TInv'
<1>1. CASE Start \/ RecvExit \/ RecvAgain \/ Return \/ Abort
  BY <1>1 DEF Start, RecvExit, RecvAgain, Return, Abort, Goto, TInv, Labels, clientVars, diskVars, connVars
<1>2. CASE Recv
  BY <1>2 DEF Recv, TInv, diskVars, handlerVars
<1>3. CASE NextRequest
  <2>1. <<>> \in Seq(Bytes)
    OBVIOUS
  <2>. QED
    BY <1>3, <2>1, NextRequestEffect DEF TInv, Labels, clientVars, diskVars
<1>4. CASE UNCHANGED vars
  BY <1>4 DEF vars, clientVars, diskVars, connVars, handlerVars, TInv
<1>. QED
  BY <1>1, <1>2, <1>3, <1>4, TypedClient, TypedAnswer, TypedLooks, TypedCgi, TypedSend
  DEF Next, Handler, Static, CgiStep, Answers, Looks

\* The types hold in every state.
LEMMA TypedInvariance == Spec => []TInv
<1>1. Init => TInv
  <2>. SUFFICES ASSUME Init PROVE TInv
    OBVIOUS
  <2>1. <<>> \in Seq(Bytes) /\ <<>> \in Seq(Reply) /\ Len(<<>>) = 0
    BY EmptySeq
  <2>2. cached \in [Paths -> {NoFile} \cup ResultFile] /\ file \in [Paths -> Entries]
    <3>1. UNION {Disk[p] : p \in Paths} \subseteq Entries
      BY SessionAssumption DEF Entries
    <3>. QED
      BY <3>1 DEF Init
  <2>3. /\ Len(sent) <= MaxSent /\ wrote \in 0..Len(wbuf) /\ req \in 0..Len(sent)
        /\ edits \in 0..MaxEdits
    BY <2>1, SessionAssumption DEF Init
  <2>4. /\ got \in Seq(Bytes) /\ wbuf \in Seq(Bytes) /\ body \in Seq(Bytes) /\ replies \in Seq(Reply)
        /\ pc = "poll"
    BY <2>1 DEF Init
  <2>. QED
    BY <2>2, <2>3, <2>4 DEF Init, TInv, Labels
<1>. QED
  BY <1>1, TypedStep, AbortInvariance, PTL DEF Spec

-----------------------------------------------------------------------------
(* Framing: which request is where.                                        *)

ServingLabels ==
  {"invalid", "static", "head", "load", "size", "read", "insert", "body",
   "cgi", "fork", "child", "wait"}

\* Number n of the pieces the client has sent: the pieces of request k are
\* number 2k - 1 and number 2k.
Follows(piece, n) == 2 * piece.of = IF piece.last THEN n ELSE n + 1

Pending == IF half THEN 1 ELSE 0

\* The read buffer and the receive queue hold the pieces behind the last
\* request taken, in order and without a gap; and the requests taken are
\* answered one by one.
FInv ==
  /\ \A j \in DOMAIN rbuf : Follows(rbuf[j], 2 * req + j)
  /\ \A j \in DOMAIN rx : Follows(rx[j], 2 * req + Len(rbuf) + j)
  /\ peer # "reset" => 2 * req + Len(rbuf) + Len(rx) = 2 * Len(sent) - Pending
  /\ pc = "poll" => \A j \in DOMAIN rbuf : ~ rbuf[j].last
  /\ pc \in ServingLabels => req = Len(replies) + 1
  /\ pc \notin ServingLabels \cup {"abort"} => req = Len(replies)
  /\ Len(replies) <= req
  /\ \A k \in DOMAIN replies : replies[k].of = k

\* What is left of a sequence behind its first n elements.
LEMMA SubSeqRest ==
  ASSUME NEW S, NEW s \in Seq(S), NEW n \in 0..Len(s), NEW rest, rest = SubSeq(s, n + 1, Len(s))
  PROVE  /\ rest \in Seq(S) /\ Len(rest) = Len(s) - n /\ DOMAIN rest = 1..(Len(s) - n)
         /\ \A j \in 1..(Len(s) - n) : rest[j] = s[j + n]
<1>1. rest \in Seq(S) /\ Len(rest) = Len(s) - n
  OBVIOUS
<1>2. \A j \in 1..(Len(s) - n) : rest[j] = s[j + n]
  OBVIOUS
<1>. QED
  BY <1>1, <1>2

\* The elements of a concatenation.
LEMMA ConcatElements ==
  ASSUME NEW S, NEW s \in Seq(S), NEW t \in Seq(S), NEW both, both = s \o t
  PROVE  /\ both \in Seq(S) /\ Len(both) = Len(s) + Len(t) /\ DOMAIN both = 1..(Len(s) + Len(t))
         /\ \A j \in 1..(Len(s) + Len(t)) : both[j] = IF j <= Len(s) THEN s[j] ELSE t[j - Len(s)]
<1>1. both \in Seq(S) /\ Len(both) = Len(s) + Len(t)
  BY ConcatProperties
<1>2. \A j \in 1..(Len(s) + Len(t)) : both[j] = IF j <= Len(s) THEN s[j] ELSE t[j - Len(s)]
  BY ConcatProperties
<1>. QED
  BY <1>1, <1>2, LenProperties

\* A step that moves no piece, takes no request and answers none.
LEMMA FrameQuiet ==
  ASSUME TInv, FInv, UNCHANGED <<sent, half, rx, rbuf, req, replies>>,
         peer # "reset" \/ peer' = "reset",
         pc' = "poll" => pc = "poll" \/ \A j \in DOMAIN rbuf : ~ rbuf[j].last,
         pc' \in ServingLabels => pc \in ServingLabels,
         pc' \notin ServingLabels \cup {"abort"} => pc \notin ServingLabels \cup {"abort"}
  PROVE  FInv'
BY DEF FInv, Pending, Follows

\* A new piece goes to the end of the receive queue.
LEMMA FrameClient ==
  ASSUME AInv, TInv, FInv, Environment
  PROVE  FInv'
<1>0. /\ sent \in Seq(Texts) /\ rx \in Seq(Piece) /\ rbuf \in Seq(Piece) /\ (half => sent # <<>>)
      /\ Len(sent) \in Nat /\ Len(rx) \in Nat /\ Len(rbuf) \in Nat /\ req \in Nat
      /\ DOMAIN rx = 1..Len(rx)
  BY DEF AInv, Feed, TInv
<1>1. ASSUME NEW t \in Texts, ClientSend(t) PROVE FInv'
  <2>. DEFINE piece == [of |-> Len(sent) + 1, last |-> FALSE]
  <2>1. /\ ~ half /\ half' /\ peer = "open" /\ peer' = "open"
        /\ UNCHANGED <<rbuf, pc, req, replies>> /\ sent' = Append(sent, t)
        /\ rx' = Append(rx, [of |-> Len(sent'), last |-> FALSE])
    BY <1>1 DEF ClientSend, connVars, handlerVars
  <2>2. Len(sent') = Len(sent) + 1
    BY <1>0, <2>1
  <2>3. rx' = Append(rx, piece)
    BY <2>1, <2>2
  <2>4. /\ DOMAIN rx' = 1..(Len(rx) + 1) /\ Len(rx') = Len(rx) + 1 /\ rx'[Len(rx) + 1] = piece
        /\ \A j \in 1..Len(rx) : rx'[j] = rx[j]
    <3>. HIDE DEF piece
    <3>. QED
      BY <1>0, <2>3
  <2>5. 2 * req + Len(rbuf) + Len(rx) = 2 * Len(sent)
    BY <1>0, <2>1 DEF FInv, Pending
  <2>6. Follows(piece, 2 * req + Len(rbuf) + (Len(rx) + 1))
    BY <1>0, <2>5 DEF Follows
  <2>7. ASSUME NEW j \in DOMAIN rx' PROVE Follows(rx'[j], 2 * req + Len(rbuf) + j)
    <3>1. CASE j = Len(rx) + 1
      BY <2>4, <2>6, <3>1
    <3>2. CASE j \in 1..Len(rx)
      BY <1>0, <2>4, <3>2 DEF FInv
    <3>. QED
      BY <1>0, <2>4, <3>1, <3>2
  <2>8. 2 * req' + Len(rbuf') + Len(rx') = 2 * Len(sent') - Pending'
    <3>1. Pending' = 1 /\ UNCHANGED <<req, rbuf>>
      BY <2>1 DEF Pending
    <3>2. Len(rx') = Len(rx) + 1
      BY <2>4
    <3>. QED
      BY <1>0, <2>2, <2>5, <3>1, <3>2, SMTT(30)
  <2>. HIDE DEF piece
  <2>. QED
    BY <2>1, <2>7, <2>8 DEF FInv, Follows
<1>2. CASE ClientSendRest
  <2>. DEFINE piece == [of |-> Len(sent), last |-> TRUE]
  <2>1. /\ half /\ ~ half' /\ peer = "open" /\ peer' = "open"
        /\ UNCHANGED <<sent, rbuf, pc, req, replies>> /\ rx' = Append(rx, piece)
    BY <1>2 DEF ClientSendRest, connVars, handlerVars
  <2>4. /\ DOMAIN rx' = 1..(Len(rx) + 1) /\ Len(rx') = Len(rx) + 1 /\ rx'[Len(rx) + 1] = piece
        /\ \A j \in 1..Len(rx) : rx'[j] = rx[j]
    <3>. HIDE DEF piece
    <3>. QED
      BY <1>0, <2>1
  <2>5. 2 * req + Len(rbuf) + Len(rx) = 2 * Len(sent) - 1
    BY <1>0, <2>1 DEF FInv, Pending
  <2>6. Follows(piece, 2 * req + Len(rbuf) + (Len(rx) + 1))
    BY <1>0, <2>5 DEF Follows
  <2>7. ASSUME NEW j \in DOMAIN rx' PROVE Follows(rx'[j], 2 * req + Len(rbuf) + j)
    <3>1. CASE j = Len(rx) + 1
      BY <2>4, <2>6, <3>1
    <3>2. CASE j \in 1..Len(rx)
      BY <1>0, <2>4, <3>2 DEF FInv
    <3>. QED
      BY <1>0, <2>4, <3>1, <3>2
  <2>8. 2 * req' + Len(rbuf') + Len(rx') = 2 * Len(sent') - Pending'
    BY <1>0, <2>1, <2>4, <2>5 DEF Pending
  <2>. HIDE DEF piece
  <2>. QED
    BY <2>1, <2>7, <2>8 DEF FInv, Follows
<1>3. CASE ClientReset
  <2>1. /\ peer' = "reset" /\ UNCHANGED <<sent, half, rbuf, pc, req, replies>>
        /\ rx' = rx \/ rx' = <<>>
    BY <1>3 DEF ClientReset, connVars, handlerVars
  <2>2. CASE rx' = rx
    BY <2>1, <2>2, FrameQuiet
  <2>3. CASE rx' = <<>>
    <3>1. DOMAIN rx' = {}
      BY <2>3
    <3>. QED
      BY <2>1, <3>1 DEF FInv, Follows
  <2>. QED
    BY <2>1, <2>2, <2>3
<1>4. CASE ClientFin \/ (\E p \in Paths \ CgiFolder : OtherReactor(p))
           \/ \E p \in Paths : \E entry \in Disk[p] : Edit(p, entry)
  BY <1>4, FrameQuiet DEF ClientFin, OtherReactor, Edit, clientVars, connVars, handlerVars
<1>. QED
  BY <1>1, <1>2, <1>3, <1>4 DEF Environment

\* recv() keeps the order of the pieces.
LEMMA FrameRecv ==
  ASSUME AInv, TInv, FInv, Recv
  PROVE  FInv'
<1>0. /\ rx \in Seq(Piece) /\ rbuf \in Seq(Piece)
      /\ Len(rx) \in Nat /\ Len(rbuf) \in Nat /\ req \in Nat
      /\ DOMAIN rx = 1..Len(rx) /\ DOMAIN rbuf = 1..Len(rbuf)
  BY DEF AInv, Feed, TInv
<1>1. PICK n \in 1..Len(rx) :
        rbuf' = rbuf \o SubSeq(rx, 1, n) /\ rx' = SubSeq(rx, n + 1, Len(rx))
  BY DEF Recv
<1>2. UNCHANGED <<sent, half, peer, pc, req, replies>> /\ pc = "recv"
  BY DEF Recv, handlerVars
<1>3. /\ SubSeq(rx, 1, n) \in Seq(Piece) /\ Len(SubSeq(rx, 1, n)) = n
      /\ \A j \in 1..n : SubSeq(rx, 1, n)[j] = rx[j]
  BY <1>0
<1>4. /\ rbuf' \in Seq(Piece) /\ Len(rbuf') = Len(rbuf) + n /\ DOMAIN rbuf' = 1..(Len(rbuf) + n)
      /\ \A j \in 1..(Len(rbuf) + n) : rbuf'[j] = IF j <= Len(rbuf) THEN rbuf[j] ELSE rx[j - Len(rbuf)]
  <2>. DEFINE part == SubSeq(rx, 1, n)
  <2>. HIDE DEF part
  <2>1. part \in Seq(Piece) /\ Len(part) = n /\ \A j \in 1..n : part[j] = rx[j]
    BY <1>3 DEF part
  <2>2. rbuf' = rbuf \o part
    BY <1>1 DEF part
  <2>3. /\ rbuf' \in Seq(Piece) /\ Len(rbuf') = Len(rbuf) + n /\ DOMAIN rbuf' = 1..(Len(rbuf) + n)
        /\ \A j \in 1..(Len(rbuf) + n) :
              rbuf'[j] = IF j <= Len(rbuf) THEN rbuf[j] ELSE part[j - Len(rbuf)]
    <3>1. /\ rbuf' \in Seq(Piece) /\ Len(rbuf') = Len(rbuf) + Len(part)
          /\ DOMAIN rbuf' = 1..(Len(rbuf) + Len(part))
          /\ \A j \in 1..(Len(rbuf) + Len(part)) :
                rbuf'[j] = IF j <= Len(rbuf) THEN rbuf[j] ELSE part[j - Len(rbuf)]
      <4>1. rbuf \in Seq(Piece) /\ part \in Seq(Piece) /\ rbuf' = rbuf \o part
        BY <1>0, <2>1, <2>2
      <4>. QED
        BY <4>1, ConcatElements
    <3>. QED
      BY <2>1, <3>1
  <2>. QED
    BY <1>0, <2>1, <2>3
<1>5. /\ Len(rx') = Len(rx) - n /\ DOMAIN rx' = 1..(Len(rx) - n)
      /\ \A j \in 1..(Len(rx) - n) : rx'[j] = rx[j + n]
  <2>1. n \in 0..Len(rx) /\ rx' = SubSeq(rx, n + 1, Len(rx)) /\ rx \in Seq(Piece)
    BY <1>0, <1>1
  <2>. QED
    BY <2>1, SubSeqRest
<1>6. ASSUME NEW j \in DOMAIN rbuf' PROVE Follows(rbuf'[j], 2 * req + j)
  <2>1. CASE j <= Len(rbuf)
    BY <1>0, <1>4, <2>1 DEF FInv
  <2>2. CASE j > Len(rbuf)
    <3>1. j - Len(rbuf) \in DOMAIN rx /\ rbuf'[j] = rx[j - Len(rbuf)]
      BY <1>0, <1>4, <2>2
    <3>2. 2 * req + Len(rbuf) + (j - Len(rbuf)) = 2 * req + j
      BY <1>0, <1>4
    <3>. QED
      BY <3>1, <3>2 DEF FInv
  <2>. QED
    BY <1>0, <1>4, <2>1, <2>2
<1>7. ASSUME NEW j \in DOMAIN rx' PROVE Follows(rx'[j], 2 * req + Len(rbuf') + j)
  <2>1. j + n \in DOMAIN rx /\ rx'[j] = rx[j + n]
    BY <1>0, <1>5
  <2>2. 2 * req + Len(rbuf) + (j + n) = 2 * req + Len(rbuf') + j
    BY <1>0, <1>4, <1>5
  <2>. QED
    BY <2>1, <2>2 DEF FInv
<1>8. Len(rbuf') + Len(rx') = Len(rbuf) + Len(rx)
  BY <1>0, <1>4, <1>5
<1>9. 2 * req + Len(rbuf') + Len(rx') = 2 * req + Len(rbuf) + Len(rx)
  BY <1>0, <1>4, <1>5
<1>. QED
  BY <1>2, <1>6, <1>7, <1>9 DEF FInv, Follows, Pending

\* FindAndPopTill takes exactly the next request, whatever the pieces of it
\* came with.
LEMMA FrameNext ==
  ASSUME AInv, TInv, FInv, NextRequest
  PROVE  FInv' /\ req' = req + 1
<1>. DEFINE ends == {i \in DOMAIN rbuf : rbuf[i].last}
<1>0. /\ rbuf \in Seq(Piece) /\ Len(rbuf) \in Nat /\ req \in Nat /\ Len(rx) \in Nat
      /\ DOMAIN rbuf = 1..Len(rbuf) /\ sent \in Seq(Texts) /\ DOMAIN sent = 1..Len(sent)
  BY DEF AInv, Feed, TInv
<1>1. /\ ends # {} /\ pc = "parse" /\ pc' \in {"invalid", "cgi", "static"}
      /\ UNCHANGED <<sent, half, peer, rx, replies>>
  BY NextRequestEffect DEF NextRequest, FindAndPopTill, clientVars
<1>2. \A i \in DOMAIN rbuf : rbuf[i].of \in Nat /\ rbuf[i].last \in BOOLEAN
  <2>1. \A i \in DOMAIN rbuf : rbuf[i] \in Piece
    BY <1>0
  <2>. QED
    BY <1>0, <2>1 DEF Piece
<1>3. \A i \in DOMAIN rbuf : rbuf[i].last => 2 * rbuf[i].of = 2 * req + i
  BY DEF FInv, Follows
<1>4. \A i \in DOMAIN rbuf : ~ rbuf[i].last => 2 * rbuf[i].of = 2 * req + i + 1
  BY DEF FInv, Follows
<1>5. 1 \notin ends
  <2>. SUFFICES ASSUME 1 \in DOMAIN rbuf, rbuf[1].last PROVE FALSE
    OBVIOUS
  <2>. QED
    BY <1>0, <1>2, <1>3
<1>6. 2 \in ends
  <2>1. PICK e \in ends : e \in 1..Len(rbuf) /\ e # 1
    BY <1>0, <1>1, <1>5
  <2>2. 2 \in DOMAIN rbuf
    BY <1>0, <2>1
  <2>3. rbuf[2].last
    <3>. SUFFICES ASSUME ~ rbuf[2].last PROVE FALSE
      OBVIOUS
    <3>. QED
      BY <1>0, <1>2, <1>4, <2>2, SMTT(30)
  <2>. QED
    BY <2>2, <2>3
<1>7. Min(ends) = 2
  <2>1. ends \subseteq Nat \ {0} /\ 2 \in ends /\ 1 \notin ends
    BY <1>0, <1>5, <1>6
  <2>. HIDE DEF ends
  <2>2. Min(ends) \in ends /\ \A y \in ends : Min(ends) <= y
    BY <2>1, MinIn
  <2>3. Min(ends) \in Nat /\ Min(ends) # 0 /\ Min(ends) # 1 /\ Min(ends) <= 2
    BY <2>1, <2>2
  <2>. QED
    BY <2>3
<1>8. /\ rbuf' = SubSeq(rbuf, 2 + 1, Len(rbuf)) /\ 2 \in 1..Len(rbuf)
      /\ req' = IF Len(SubSeq(rbuf, 1, 2)) = 2
                   /\ SubSeq(rbuf, 1, 2)[1].of = SubSeq(rbuf, 1, 2)[2].of
                THEN SubSeq(rbuf, 1, 2)[1].of ELSE 0
  <2>1. /\ rbuf' = SubSeq(rbuf, Min(ends) + 1, Len(rbuf))
        /\ req' = IF Len(SubSeq(rbuf, 1, Min(ends))) = 2
                     /\ SubSeq(rbuf, 1, Min(ends))[1].of = SubSeq(rbuf, 1, Min(ends))[2].of
                  THEN SubSeq(rbuf, 1, Min(ends))[1].of ELSE 0
    BY DEF NextRequest, FindAndPopTill
  <2>2. 2 \in 1..Len(rbuf)
    BY <1>0, <1>6
  <2>. HIDE DEF ends
  <2>. QED
    BY <1>7, <2>1, <2>2
<1>9. /\ Len(SubSeq(rbuf, 1, 2)) = 2
      /\ SubSeq(rbuf, 1, 2)[1] = rbuf[1] /\ SubSeq(rbuf, 1, 2)[2] = rbuf[2]
  BY <1>0, <1>8
<1>10. 2 * rbuf[1].of = 2 * req + 2 /\ 2 * rbuf[2].of = 2 * req + 2
       /\ rbuf[1].of \in Nat /\ rbuf[2].of \in Nat
  <2>1. 1 \in DOMAIN rbuf /\ 2 \in DOMAIN rbuf /\ ~ rbuf[1].last /\ rbuf[2].last
    BY <1>0, <1>5, <1>6
  <2>2. 2 * rbuf[1].of = 2 * req + 1 + 1
    BY <1>4, <2>1
  <2>3. 2 * rbuf[2].of = 2 * req + 2
    BY <1>3, <2>1
  <2>. QED
    BY <1>0, <1>2, <2>1, <2>2, <2>3
<1>11. rbuf[1].of = req + 1 /\ rbuf[2].of = req + 1
  BY <1>0, <1>10, SMTT(30)
<1>12. req' = req + 1
  BY <1>8, <1>9, <1>11
<1>13. /\ Len(rbuf') = Len(rbuf) - 2 /\ DOMAIN rbuf' = 1..(Len(rbuf) - 2)
       /\ \A j \in 1..(Len(rbuf) - 2) : rbuf'[j] = rbuf[j + 2]
  <2>1. 2 \in 0..Len(rbuf) /\ rbuf' = SubSeq(rbuf, 2 + 1, Len(rbuf)) /\ rbuf \in Seq(Piece)
    BY <1>0, <1>8
  <2>2. PICK m \in 0..Len(rbuf) : m = 2 /\ rbuf' = SubSeq(rbuf, m + 1, Len(rbuf))
    BY <2>1
  <2>3. /\ Len(rbuf') = Len(rbuf) - m /\ DOMAIN rbuf' = 1..(Len(rbuf) - m)
        /\ \A j \in 1..(Len(rbuf) - m) : rbuf'[j] = rbuf[j + m]
    <3>1. rbuf' = SubSeq(rbuf, m + 1, Len(rbuf))
      BY <2>2
    <3>. QED
      BY <2>1, <3>1, SubSeqRest
  <2>. QED
    BY <2>2, <2>3
<1>14. ASSUME NEW j \in DOMAIN rbuf' PROVE Follows(rbuf'[j], 2 * req' + j)
  <2>1. j + 2 \in DOMAIN rbuf /\ rbuf'[j] = rbuf[j + 2]
    BY <1>0, <1>13
  <2>2. 2 * req' + j = 2 * req + (j + 2)
    BY <1>0, <1>12, <1>13
  <2>. QED
    BY <2>1, <2>2 DEF FInv
<1>15. 2 * req' + Len(rbuf') = 2 * req + Len(rbuf)
  BY <1>0, <1>12, <1>13
<1>16. \A j \in DOMAIN rx' : Follows(rx'[j], 2 * req' + Len(rbuf') + j)
  BY <1>1, <1>15 DEF FInv, Follows
<1>17. peer' # "reset" => 2 * req' + Len(rbuf') + Len(rx') = 2 * Len(sent') - Pending'
  BY <1>1, <1>15 DEF FInv, Pending
<1>18. req = Len(replies) /\ Len(replies) \in Nat
  BY <1>0, <1>1 DEF FInv, ServingLabels
<1>. QED
  BY <1>1, <1>12, <1>14, <1>16, <1>17, <1>18 DEF FInv, ServingLabels

\* The request being handled is the next one to be answered.
LEMMA FrameAnswer ==
  ASSUME TInv, FInv, Answers
  PROVE  FInv' /\ pc \in ServingLabels
<1>1. pc \in ServingLabels
  BY DEF Answers, Refuse, StaticMissing, StaticRespond, CgiMissing, CgiOpenFails, ForkFails,
         WaitFails, Harvest, ServingLabels
<1>2. PICK r \in Reply : r.of = req /\ replies' = Append(replies, r)
  BY AnswerEffect
<1>3. /\ Len(replies') = Len(replies) + 1 /\ Len(replies) \in Nat /\ pc' = "send"
      /\ UNCHANGED <<sent, half, peer, rx, rbuf, req>>
  BY AnswerEffect
<1>4. \A k \in DOMAIN replies' : replies'[k].of = k
  <2>1. replies \in Seq(Reply) /\ req = Len(replies) + 1
    BY <1>1 DEF TInv, FInv
  <2>2. \A k \in DOMAIN replies' : IF k = Len(replies) + 1 THEN replies'[k] = r
                                   ELSE k \in DOMAIN replies /\ replies'[k] = replies[k]
    BY <1>2, <2>1
  <2>. QED
    BY <1>2, <2>1, <2>2 DEF FInv
<1>. QED
  BY <1>1, <1>3, <1>4 DEF FInv, ServingLabels, Follows, Pending

\* Every step keeps the framing.
LEMMA FrameStep ==
  ASSUME AInv, TInv, FInv, [Next]_vars
  PROVE  FInv'
<1>1. CASE Start \/ RecvExit \/ RecvAgain \/ Return \/ Abort
  BY <1>1, FrameQuiet DEF Start, RecvExit, RecvAgain, Return, Abort, Goto, clientVars, connVars, ServingLabels
<1>2. CASE Looks
  <2>1. pc \in ServingLabels /\ pc' \in ServingLabels /\ pc' # "poll"
    BY <1>2 DEF Looks, StaticFound, ResponseHead, TryLoad, LoadSize, LoadRead, TryInsert, Goto,
       ServingLabels
  <2>. QED
    BY <1>2, <2>1, LooksEffect, FrameQuiet DEF clientVars, connVars
<1>3. CASE CgiOpen \/ Fork \/ ChildRuns
  <2>1. pc \in ServingLabels /\ pc' \in ServingLabels /\ pc' # "poll"
    BY <1>3 DEF CgiOpen, Fork, ChildRuns, Goto, ServingLabels
  <2>. QED
    BY <1>3, <2>1, FrameQuiet DEF CgiOpen, Fork, ChildRuns, clientVars, connVars
<1>4. CASE Send \/ SendDone \/ SendFails \/ Sigpipe
  <2>1. pc = "send" /\ pc' \in {"send", "deleted", "parse", "abort"}
    BY <1>4 DEF Send, SendDone, SendFails, Sigpipe, Goto, handlerVars
  <2>2. UNCHANGED <<sent, half, rx, rbuf, req, replies, peer>>
    BY <1>4 DEF Send, SendDone, SendFails, Sigpipe, clientVars, connVars, handlerVars
  <2>. QED
    BY <2>1, <2>2, FrameQuiet DEF ServingLabels
<1>5. CASE UNCHANGED vars
  BY <1>5, FrameQuiet DEF vars, clientVars, connVars, handlerVars
<1>. QED
  BY <1>1, <1>2, <1>3, <1>4, <1>5, FrameClient, FrameRecv, FrameNext, FrameAnswer
  DEF Next, Handler, Static, CgiStep, Answers, Looks

\* The framing holds in every state.
LEMMA FrameInvariance == Spec => []FInv
<1>1. Init => FInv
  <2>. SUFFICES ASSUME Init PROVE FInv
    OBVIOUS
  <2>1. Len(<<>>) = 0 /\ DOMAIN <<>> = {}
    OBVIOUS
  <2>. QED
    BY <2>1 DEF Init, FInv, Pending, ServingLabels
<1>. QED
  BY <1>1, FrameStep, AbortInvariance, TypedInvariance, PTL DEF Spec

\* Every variable keeps its type: what is in read_buffer_ and in the receive
\* queue are pieces of requests that were sent, send() never runs past the
\* end of write_buffer_, and the result file is read only when it is open.
THEOREM TypeCorrect == Spec => []TypeOK
<1>1. AInv /\ TInv /\ FInv => TypeOK
  <2>. SUFFICES ASSUME AInv, TInv, FInv PROVE TypeOK
    OBVIOUS
  <2>1. rx \in Seq(Pieces) /\ rbuf \in Seq(Pieces)
    <3>1. Piece \subseteq Pieces
      BY SessionAssumption DEF Piece, Pieces, AInv, Feed, TInv
    <3>. QED
      BY <3>1, SeqMonotonic DEF AInv, Feed
  <2>2. Len(replies) <= Len(sent)
    BY DEF AInv, Feed, TInv, FInv
  <2>3. shared = NoFile \/ shared[2] \in Seq(Bytes)
    BY DEF TInv, ResultFile
  <2>4. sent \in Seq(Texts) /\ \A p \in Paths : file[p] \in Disk[p]
    BY DEF AInv, Feed
  <2>5. \A p \in Paths : cached[p] = NoFile \/ cached[p][2] \in Seq(Bytes)
    BY DEF TInv, ResultFile
  <2>. QED
    BY <2>1, <2>2, <2>3, <2>4, <2>5 DEF TInv, TypeOK
<1>. QED
  BY <1>1, AbortInvariance, TypedInvariance, FrameInvariance, PTL

\* When the callback has returned to epoll, every request that has been
\* received to its end is answered (FindAndPopTill in a loop, until the read
\* buffer holds no end of a request), however recv() cut and bunched them.
THEOREM NoRequestSkipped == Spec => []NothingSkipped
<1>1. AInv /\ TInv /\ FInv => NothingSkipped
  <2>. SUFFICES ASSUME AInv, TInv, FInv, pc = "poll", peer # "reset"
                PROVE  Len(replies) + Cardinality({i \in DOMAIN rx : rx[i].last}) = Len(sent) - Pending
    BY DEF NothingSkipped, Pending
  <2>. DEFINE base == 2 * req + Len(rbuf)
              whole == {i \in DOMAIN rx : rx[i].last}
              total == Len(sent) - Pending
  <2>0. /\ rx \in Seq(Piece) /\ rbuf \in Seq(Piece) /\ sent \in Seq(Texts) /\ Len(sent) \in Nat
        /\ Len(rx) \in Nat /\ Len(rbuf) \in Nat /\ req \in Nat /\ Pending \in {0, 1}
        /\ DOMAIN rx = 1..Len(rx) /\ DOMAIN rbuf = 1..Len(rbuf) /\ DOMAIN sent = 1..Len(sent)
    BY DEF AInv, Feed, TInv, Pending
  <2>1. \A i \in DOMAIN rx : rx[i].of \in 1..Len(sent) /\ rx[i].last \in BOOLEAN
    <3>1. \A i \in DOMAIN rx : rx[i] \in Piece
      BY <2>0
    <3>. QED
      BY <2>0, <3>1 DEF Piece
  <2>2. \A i \in DOMAIN rx : 2 * rx[i].of = IF rx[i].last THEN base + i ELSE base + i + 1
    BY DEF FInv, Follows
  <2>3. base + Len(rx) = 2 * Len(sent) - Pending /\ req = Len(replies)
    BY DEF FInv, ServingLabels
  <2>4. Len(rbuf) <= 1
    <3>. SUFFICES ASSUME 2 <= Len(rbuf) PROVE FALSE
      BY <2>0
    <3>1. 2 \in DOMAIN rbuf /\ ~ rbuf[2].last /\ rbuf[2] \in Piece
      BY <2>0 DEF FInv
    <3>2. 2 * rbuf[2].of = 2 * req + 2 + 1
      BY <3>1 DEF FInv, Follows
    <3>3. rbuf[2].of \in Nat
      BY <2>0, <3>1 DEF Piece
    <3>. QED
      BY <2>0, <3>2, <3>3
  <2>. DEFINE f == [k \in (req + 1)..total |-> 2 * k - base]
  <2>5. base \in Nat /\ 2 * req <= base /\ base <= 2 * req + 1 /\ total \in Int
    BY <2>0, <2>4
  <2>. HIDE DEF base, total
  <2>6. ASSUME NEW k \in (req + 1)..total PROVE 2 * k - base \in whole
    <3>1. 2 * k - base \in DOMAIN rx
      BY <2>0, <2>3, <2>5 DEF total
    <3>2. rx[2 * k - base].last
      <4>. SUFFICES ASSUME ~ rx[2 * k - base].last PROVE FALSE
        OBVIOUS
      <4>1. 2 * rx[2 * k - base].of = base + (2 * k - base) + 1 /\ rx[2 * k - base].of \in Int
        BY <2>1, <2>2, <3>1
      <4>2. base + (2 * k - base) + 1 = 2 * k + 1 /\ k \in Int
        BY <2>0, <2>5
      <4>3. PICK x \in Int : 2 * x = 2 * k + 1
        BY <4>1, <4>2
      <4>. QED
        BY <4>2, <4>3
    <3>. QED
      BY <3>1, <3>2
  <2>7. ASSUME NEW i \in whole PROVE \E k \in (req + 1)..total : 2 * k - base = i
    <3>1. i \in 1..Len(rx) /\ 2 * rx[i].of = base + i /\ rx[i].of \in Int
      BY <2>0, <2>1, <2>2
    <3>2. rx[i].of \in (req + 1)..total
      BY <2>0, <2>3, <2>5, <3>1, SMTT(30) DEF total
    <3>. QED
      BY <2>5, <3>1, <3>2
  <2>8. f \in Bijection((req + 1)..total, whole)
    <3>. HIDE DEF whole
    <3>1. f \in [(req + 1)..total -> whole]
      BY <2>6
    <3>2. \A a, b \in (req + 1)..total : f[a] = f[b] => a = b
      BY <2>0, <2>5
    <3>3. \A i \in whole : \E k \in (req + 1)..total : f[k] = i
      BY <2>7
    <3>. QED
      BY <3>1, <3>2, <3>3 DEF Bijection, Injection, Surjection, IsInjective
  <2>9. /\ IsFiniteSet((req + 1)..total)
        /\ Cardinality((req + 1)..total) = IF req + 1 > total THEN 0 ELSE total - (req + 1) + 1
    <3>1. req + 1 \in Int /\ total \in Int
      BY <2>0, <2>5
    <3>. QED
      BY <3>1, FS_Interval
  <2>10. Cardinality(whole) = Cardinality((req + 1)..total)
    <3>. HIDE DEF whole, f
    <3>1. ExistsBijection((req + 1)..total, whole)
      BY <2>8 DEF ExistsBijection
    <3>. QED
      BY <2>9, <3>1, FS_Bijection
  <2>11. req <= total
    BY <2>0, <2>3, <2>5 DEF total
  <2>. HIDE DEF whole
  <2>12. Len(replies) + Cardinality(whole) = total
    <3>1. req \in Int /\ total \in Int /\ req <= total /\ Len(replies) = req
      BY <2>0, <2>3, <2>5, <2>11
    <3>2. Cardinality(whole) = total - req
      BY <2>9, <2>10, <3>1
    <3>. QED
      BY <3>1, <3>2
  <2>. QED
    BY <2>12 DEF whole, total
<1>. QED
  BY <1>1, AbortInvariance, TypedInvariance, FrameInvariance, PTL

-----------------------------------------------------------------------------
(* The output of CGI programs.                                             *)

StaticLabels == {"static", "head", "load", "size", "read", "insert", "body"}
CgiLabels    == {"cgi", "fork", "child", "wait"}

NoOutput(bytes) == \A i \in DOMAIN bytes : bytes[i][1] # "out"

\* Output that an earlier request has left in the result file.
Left(n) == n \in DOMAIN replies /\ replies[n].body = WaitError
OwnOrLeft(bytes, n) == \A i \in DOMAIN bytes : bytes[i][1] = "out" => bytes[i][2] = n \/ Left(bytes[i][2])
OnlyLeft(bytes) == \A i \in DOMAIN bytes : bytes[i][1] = "out" => Left(bytes[i][2])

\* Program output is in the result file and in the responses only; in the
\* file there is nothing but the output of the request being handled and of
\* requests whose waitpid() failed.
OInv ==
  /\ shared # NoFile /\ pc = "wait" => OwnOrLeft(shared[2], req)
  /\ shared # NoFile /\ pc # "wait" => OnlyLeft(shared[2])
  /\ \A p \in Paths : cached[p] # NoFile => NoOutput(cached[p][2])
  /\ pc \in StaticLabels => NoOutput(body)
  /\ \A k \in DOMAIN replies : OwnOrLeft(replies[k].body, k)

\* Steps that leave the history, the result file and the cache alone.
LEMMA OutputQuiet ==
  ASSUME OInv, UNCHANGED <<cached, shared, replies, req>>,
         pc' = "wait" <=> pc = "wait", pc' \in StaticLabels => NoOutput(body')
  PROVE  OInv'
BY DEF OInv, OnlyLeft, OwnOrLeft, Left

\* Another reactor caches content of files only.
LEMMA OutputOther ==
  ASSUME TInv, OInv, NEW p \in Paths, OtherReactor(p)
  PROVE  OInv'
<1>1. NoOutput(Loaded(p))
  BY DEF NoOutput, Content, Zeros, Loaded
<1>2. <<"file", Loaded(p)>>[2] = Loaded(p)
  BY LoadedBytes
<1>3. \A q \in Paths : cached'[q] # NoFile => NoOutput(cached'[q][2])
  BY <1>1, <1>2, OtherEffect DEF OInv
<1>4. UNCHANGED <<shared, replies, req, pc, body>>
  BY DEF OtherReactor, handlerVars
<1>. QED
  BY <1>3, <1>4 DEF OInv, OnlyLeft, OwnOrLeft, Left, NoOutput

\* A static request handles content of files only.
LEMMA OutputLooks ==
  ASSUME AInv, TInv, OInv, Looks
  PROVE  OInv'
<1>0. pc \in StaticLabels /\ pc' # "wait" /\ UNCHANGED <<req, replies, shared>>
  BY LooksEffect DEF Looks, StaticFound, ResponseHead, TryLoad, LoadSize, LoadRead, TryInsert,
     Goto, StaticLabels
<1>1. pc # "wait" /\ NoOutput(body)
  BY <1>0 DEF StaticLabels, OInv
<1>2. NoOutput(body')
  <2>1. CASE TryLoad
    <3>1. url \in Paths
      BY <2>1, UrlIsPath DEF TryLoad, AInv, AbortInv, Feed, url
    <3>. QED
      BY <2>1, <3>1 DEF TryLoad, OInv, NoOutput
  <2>2. CASE LoadSize
    BY <2>2 DEF LoadSize, Zeros, NoOutput
  <2>3. CASE LoadRead
    <3>. DEFINE n == file[url].size
                plain == file[url].kind = "file"
    <3>1. body' = [i \in DOMAIN body |-> IF plain /\ i <= n THEN Content(n)[i] ELSE body[i]]
      BY <2>3 DEF LoadRead
    <3>2. n \in Nat
      <4>1. url \in Paths
        BY <2>3, UrlIsPath DEF LoadRead, AInv, AbortInv, Feed, url
      <4>. QED
        BY <4>1 DEF TInv, Entries
    <3>. HIDE DEF n, plain
    <3>3. \A i \in DOMAIN body : i \in Nat /\ i >= 1
      BY DEF TInv
    <3>4. \A i \in DOMAIN body : i <= n => Content(n)[i] = <<"file", n>>
      BY <3>2, <3>3 DEF Content
    <3>. QED
      BY <1>1, <3>1, <3>4 DEF NoOutput
  <2>4. CASE ~ (TryLoad \/ LoadSize \/ LoadRead)
    <3>1. body' = body
      BY <2>4 DEF Looks, StaticFound, ResponseHead, TryInsert
    <3>. QED
      BY <1>1, <3>1
  <2>. QED
    BY <2>1, <2>2, <2>3, <2>4
<1>3. \A q \in Paths : cached'[q] # NoFile => NoOutput(cached'[q][2])
  <2>1. CASE TryInsert
    <3>1. \A q \in Paths : cached'[q] = cached[q] \/ cached'[q][2] = body
      BY <2>1 DEF TryInsert, TInv
    <3>. QED
      BY <1>1, <3>1 DEF OInv
  <2>2. CASE ~ TryInsert
    <3>1. cached' = cached
      BY <2>2 DEF Looks, StaticFound, ResponseHead, TryLoad, LoadSize, LoadRead
    <3>. QED
      BY <3>1 DEF OInv
  <2>. QED
    BY <2>1, <2>2
<1>. QED
  BY <1>0, <1>1, <1>2, <1>3 DEF OInv, OnlyLeft, OwnOrLeft, Left

\* The child's output is the request's own.
LEMMA OutputCgi ==
  ASSUME TInv, OInv, CgiOpen \/ Fork \/ ChildRuns
  PROVE  OInv'
<1>1. CASE CgiOpen
  <2>1. /\ pc = "cgi" /\ pc' = "fork" /\ UNCHANGED <<cached, req, replies>>
        /\ shared' = IF shared = NoFile THEN <<"file", <<>>>> ELSE shared
    BY <1>1 DEF CgiOpen, Goto
  <2>2. OnlyLeft(shared'[2])
    <3>1. OnlyLeft(<<>>)
      BY DEF OnlyLeft
    <3>. QED
      BY <2>1, <3>1 DEF OInv
  <2>. QED
    BY <2>1, <2>2 DEF OInv, OnlyLeft, OwnOrLeft, Left, StaticLabels
<1>2. CASE Fork
  BY <1>2, OutputQuiet DEF Fork, Goto, StaticLabels
<1>3. CASE ChildRuns
  <2>1. PICK n \in {0, 1} : shared' = <<"file", shared[2] \o [i \in 1..n |-> <<"out", req>>]>>
    BY <1>3 DEF ChildRuns
  <2>2. pc = "child" /\ pc' = "wait" /\ UNCHANGED <<cached, req, replies>>
    BY <1>3 DEF ChildRuns, Goto
  <2>3. shared \in ResultFile /\ shared # NoFile
    BY <2>2 DEF TInv, ResultFile, NoFile
  <2>. DEFINE old == shared[2]
              new == [i \in 1..n |-> <<"out", req>>]
              all == old \o new
  <2>4. old \in Seq(Bytes) /\ new \in Seq(Bytes) /\ OnlyLeft(old)
    <3>1. <<"out", req>> \in Bytes
      BY DEF TInv, Bytes
    <3>. QED
      BY <2>2, <2>3, <3>1 DEF ResultFile, OInv
  <2>5. \A i \in DOMAIN new : new[i] = <<"out", req>>
    OBVIOUS
  <2>. HIDE DEF old, new
  <2>6. \A i \in DOMAIN all : (i \in DOMAIN old /\ all[i] = old[i]) \/ all[i] = <<"out", req>>
    BY <2>4, <2>5
  <2>. HIDE DEF all
  <2>7. OwnOrLeft(all, req)
    BY <2>4, <2>6 DEF OnlyLeft, OwnOrLeft
  <2>8. shared'[2] = all
    BY <2>1 DEF all, old, new
  <2>. QED
    BY <2>2, <2>7, <2>8 DEF OInv, OnlyLeft, OwnOrLeft, Left, StaticLabels
<1>. QED
  BY <1>1, <1>2, <1>3

\* A response carries the request's own output, or what has been left.
LEMMA OutputAnswer ==
  ASSUME TInv, FInv, OInv, Answers
  PROVE  OInv'
<1>1. PICK r \in Reply : /\ r.of = req /\ replies' = Append(replies, r) /\ Carries(r.head, r.body)
                         /\ replies'[Len(replies) + 1] = r
  BY AnswerEffect
<1>2. /\ Len(replies') = Len(replies) + 1 /\ Len(replies) \in Nat
      /\ \A k \in DOMAIN replies : k \in DOMAIN replies' /\ replies'[k] = replies[k]
      /\ \A k \in DOMAIN replies' : k \in DOMAIN replies \/ k = Len(replies) + 1
      /\ pc' = "send" /\ UNCHANGED <<req, file>> /\ Len(replies) + 1 \in DOMAIN replies'
  <2>1. replies' \in Seq(Reply) /\ Len(replies') = Len(replies) + 1 /\ Len(replies) \in Nat
    BY AnswerEffect
  <2>2. Len(replies) + 1 \in DOMAIN replies'
    BY <2>1
  <2>. QED
    BY <2>2, AnswerEffect
<1>3. req = Len(replies) + 1 /\ UNCHANGED cached
  <2>1. pc \in ServingLabels
    BY FrameAnswer
  <2>. QED
    BY <2>1 DEF FInv, Answers, Refuse, StaticMissing, StaticRespond, CgiMissing, CgiOpenFails,
       ForkFails, WaitFails, Harvest
<1>4. \A n : Left(n) => Left(n)'
  BY <1>2 DEF Left
<1>5. OwnOrLeft(r.body, req)
  <2>1. CASE StaticRespond /\ r.body = body
    BY <2>1 DEF StaticRespond, OInv, StaticLabels, NoOutput, OwnOrLeft
  <2>2. CASE r.body = <<>>
    BY <2>2 DEF OwnOrLeft
  <2>3. CASE r.body = OpenError \/ r.body = ForkError \/ r.body = WaitError
    BY <2>3 DEF OpenError, ForkError, WaitError, OwnOrLeft
  <2>4. CASE Harvest /\ r.body = shared[2]
    <3>1. shared # NoFile /\ pc = "wait"
      BY <2>4 DEF Harvest, TInv, ResultFile, NoFile
    <3>. QED
      BY <2>4, <3>1 DEF OInv
  <2>. QED
    BY <1>1, <2>1, <2>2, <2>3, <2>4 DEF Carries
<1>6. \A k \in DOMAIN replies' : OwnOrLeft(replies[k].body, k)'
  <2>. SUFFICES ASSUME NEW k \in DOMAIN replies' PROVE OwnOrLeft(replies[k].body, k)'
    OBVIOUS
  <2>1. OwnOrLeft(replies'[k].body, k)
    BY <1>1, <1>2, <1>3, <1>5 DEF OInv
  <2>. QED
    BY <1>4, <2>1 DEF OwnOrLeft
<1>7. shared' # NoFile => OnlyLeft(shared[2])' /\ shared' = shared
  <2>. SUFFICES ASSUME shared' # NoFile PROVE OnlyLeft(shared[2])' /\ shared' = shared
    OBVIOUS
  <2>1. ~ Harvest /\ shared' = shared
    BY DEF Answers, Refuse, StaticMissing, StaticRespond, CgiMissing, CgiOpenFails,
       ForkFails, WaitFails, Harvest
  <2>2. CASE pc # "wait"
    BY <1>4, <2>1, <2>2 DEF OInv, OnlyLeft
  <2>3. CASE pc = "wait"
    <3>1. r.body = WaitError
      <4>1. Carries(r.head, r.body)
        BY <1>1
      <4>. QED
        BY <2>1, <2>3, <4>1 DEF Carries, Refuse, StaticMissing, StaticRespond, CgiMissing,
           CgiOpenFails, ForkFails
    <3>2. Left(req)'
      BY <1>1, <1>2, <1>3, <3>1 DEF Left, WaitError
    <3>3. OwnOrLeft(shared[2], req)
      BY <2>1, <2>3 DEF OInv
    <3>. QED
      BY <1>2, <1>4, <2>1, <3>2, <3>3 DEF OwnOrLeft, OnlyLeft
  <2>. QED
    BY <2>2, <2>3
<1>8. /\ pc' # "wait" /\ pc' \notin StaticLabels
      /\ \A p \in Paths : cached'[p] # NoFile => NoOutput(cached'[p][2])
  BY <1>2, <1>3 DEF StaticLabels, OInv
<1>. QED
  BY <1>6, <1>7, <1>8 DEF OInv

\* Every step keeps program output where it belongs.
LEMMA OutputStep ==
  ASSUME AInv, TInv, FInv, OInv, [Next]_vars
  PROVE  OInv'
<1>1. CASE Start \/ RecvExit \/ RecvAgain \/ Return \/ Abort
  BY <1>1, OutputQuiet DEF Start, RecvExit, RecvAgain, Return, Abort, Goto, StaticLabels
<1>2. CASE Recv
  BY <1>2, OutputQuiet DEF Recv, handlerVars, OInv
<1>3. CASE NextRequest
  <2>1. /\ pc = "parse" /\ pc' \in {"invalid", "cgi", "static"} /\ body' = <<>>
        /\ UNCHANGED <<cached, shared, replies>>
    BY <1>3, NextRequestEffect DEF NextRequest
  <2>2. NoOutput(body')
    BY <2>1 DEF NoOutput
  <2>. QED
    BY <2>1, <2>2 DEF OInv, OnlyLeft, OwnOrLeft, Left
<1>4. CASE Send \/ SendDone \/ SendFails \/ Sigpipe
  <2>1. pc = "send" /\ pc' \in {"send", "deleted", "parse", "abort"}
        /\ UNCHANGED <<cached, shared, replies, req>>
    BY <1>4 DEF Send, SendDone, SendFails, Sigpipe, Goto, handlerVars
  <2>. QED
    BY <2>1, OutputQuiet DEF StaticLabels
<1>5. CASE UNCHANGED vars
  BY <1>5, OutputQuiet DEF vars, handlerVars, OInv
<1>6. CASE Environment
  <2>1. CASE \E p \in Paths \ CgiFolder : OtherReactor(p)
    BY <2>1, OutputOther
  <2>2. CASE ~ \E p \in Paths \ CgiFolder : OtherReactor(p)
    <3>1. UNCHANGED <<cached, shared, replies, req, pc, body>>
      BY <1>6, <2>2 DEF Environment, ClientSend, ClientSendRest, ClientFin, ClientReset, Edit, handlerVars
    <3>. QED
      BY <3>1, OutputQuiet DEF OInv
  <2>. QED
    BY <2>1, <2>2
<1>. QED
  BY <1>1, <1>2, <1>3, <1>4, <1>5, <1>6, OutputLooks, OutputCgi, OutputAnswer
  DEF Next, Handler, Static, CgiStep, Answers, Looks

\* A CGI answer holds the output of its own child, or of requests whose
\* waitpid() failed and whose result file was never deleted; nothing else,
\* although all requests of a thread append to one file.
THEOREM OutputSafety == Spec => []OwnOutput
<1>1. Init => OInv
  BY DEF Init, OInv, NoOutput, StaticLabels
<1>2. FInv /\ OInv => OwnOutput
  BY DEF FInv, OInv, OwnOrLeft, Left, OwnOutput
<1>. QED
  BY <1>1, <1>2, OutputStep, AbortInvariance, TypedInvariance, FrameInvariance, PTL DEF Spec

-----------------------------------------------------------------------------
(* The length of a response.                                               *)

\* Reply k has the length that its client expects.
Framed(k) ==
  \/ Len(replies[k].body) = IF HasNoBody(k) THEN 0 ELSE replies[k].head.length
  \/ HasNoBody(k) /\ IsCGIRequest(ResourceUrl(replies[k].of))

\* As long as the files stay as they are, the cache holds them whole and
\* Content-Length is the size of what will be sent.
Fits ==
  /\ \A p \in Paths : cached[p] = NoFile \/ (HasSize(p) /\ Len(cached[p][2]) = file[p].size)
  /\ pc \in {"load", "size", "read", "insert", "body"} => HasSize(url) /\ length = file[url].size
  /\ pc \in {"read", "insert"} => Len(body) = file[url].size
  /\ pc = "body" => Len(body) = IF method = "GET" THEN length ELSE 0
  /\ \A k \in DOMAIN replies : Framed(k)

\* Each handler works on its own kind of request.
KInv ==
  /\ pc \in CgiLabels => url \in CgiFolder
  /\ pc \in StaticLabels => method \in {"GET", "HEAD"}
  /\ pc \in {"load", "size", "read", "insert"} => method = "GET"
  /\ pc \in {"static", "head", "size"} => body = <<>>
  /\ edits = 0 => Fits

\* While a request is handled it is one that has been sent.
LEMMA ServedIsSent ==
  ASSUME AInv, TInv, FInv, pc \in ServingLabels
  PROVE  req \in DOMAIN sent
<1>1. req = Len(replies) + 1 /\ Len(replies) \in Nat /\ req \in 0..Len(sent)
  BY DEF TInv, FInv
<1>. QED
  BY <1>1 DEF AInv, Feed

\* A step that leaves the handler and the files alone; the client may send more.
LEMMA KindOutside ==
  ASSUME AInv, TInv, FInv, KInv,
         UNCHANGED <<pc, req, body, length, replies, file, edits>>,
         \A i \in DOMAIN sent : sent'[i] = sent[i],
         edits = 0 => \A p \in Paths : cached'[p] = NoFile \/ (HasSize(p) /\ Len(cached'[p][2]) = file[p].size)
  PROVE  KInv'
<1>1. pc \in StaticLabels \cup CgiLabels => url' = url /\ method' = method
  BY ServedIsSent DEF StaticLabels, CgiLabels, ServingLabels, url, method, ResourceUrl
<1>2. \A k \in DOMAIN replies : replies[k].of = k /\ k \in DOMAIN sent
  <2>1. /\ replies \in Seq(Reply) /\ sent \in Seq(Texts) /\ Len(replies) <= req /\ req \in 0..Len(sent)
        /\ Len(replies) \in Nat /\ Len(sent) \in Nat
    BY DEF TInv, FInv, AInv, Feed
  <2>2. \A k \in DOMAIN replies : k \in 1..Len(sent)
    BY <2>1
  <2>3. DOMAIN sent = 1..Len(sent)
    BY <2>1
  <2>. QED
    BY <2>2, <2>3 DEF FInv
<1>3. \A k \in DOMAIN replies : Framed(k) => Framed(k)'
  BY <1>2 DEF Framed, HasNoBody, ResourceUrl
<1>4. Fits /\ edits = 0 => Fits'
  BY <1>1, <1>3 DEF Fits, HasSize, StaticLabels
<1>. QED
  BY <1>1, <1>4 DEF KInv, StaticLabels, CgiLabels

\* A change of a file ends what is promised; nobody else disturbs the
\* handler.
LEMMA KindEnvironment ==
  ASSUME AInv, TInv, FInv, KInv, Environment
  PROVE  KInv'
<1>1. ASSUME NEW t \in Texts, ClientSend(t) PROVE KInv'
  <2>1. \A i \in DOMAIN sent : sent'[i] = sent[i]
    BY <1>1, PiecesGrow DEF ClientSend, AInv
  <2>. QED
    BY <1>1, <2>1, KindOutside DEF ClientSend, diskVars, handlerVars, KInv, Fits
<1>2. CASE ClientSendRest \/ ClientFin \/ ClientReset
  BY <1>2, KindOutside DEF ClientSendRest, ClientFin, ClientReset, diskVars, handlerVars, KInv, Fits
<1>3. ASSUME NEW p \in Paths, OtherReactor(p) PROVE KInv'
  <2>1. UNCHANGED <<pc, req, body, length, replies, file, edits, sent>>
    BY <1>3 DEF OtherReactor, clientVars, diskVars, handlerVars
  <2>2. <<"file", Loaded(p)>>[2] = Loaded(p) /\ Len(Loaded(p)) = file[p].size
    BY LoadedBytes
  <2>3. ASSUME edits = 0, NEW q \in Paths
        PROVE  cached'[q] = NoFile \/ (HasSize(q) /\ Len(cached'[q][2]) = file[q].size)
    <3>1. CASE cached[p] = NoFile /\ HasSize(p)
      BY <1>3, <2>2, <2>3, <3>1, OtherEffect DEF KInv, Fits
    <3>2. CASE ~ (cached[p] = NoFile /\ HasSize(p))
      <4>1. cached' = [cached EXCEPT ![p] = NoFile]
        BY <1>3, <3>2 DEF OtherReactor
      <4>. QED
        BY <2>3, <4>1 DEF TInv, KInv, Fits
    <3>. QED
      BY <3>1, <3>2
  <2>. QED
    BY <2>1, <2>3, KindOutside
<1>4. ASSUME NEW p \in Paths, NEW entry \in Disk[p], Edit(p, entry) PROVE KInv'
  <2>1. UNCHANGED <<pc, req, body, sent>> /\ edits' = edits + 1 /\ edits \in Nat
    BY <1>4 DEF Edit, clientVars, handlerVars, AInv, Feed
  <2>2. edits' # 0 /\ url' = url /\ method' = method
    BY <2>1 DEF url, method, ResourceUrl
  <2>. QED
    BY <2>1, <2>2 DEF KInv
<1>. QED
  BY <1>1, <1>2, <1>3, <1>4 DEF Environment

\* A step that goes where nothing is said of the request.
LEMMA KindQuiet ==
  ASSUME KInv, UNCHANGED <<sent, file, edits, cached, replies>>,
         pc' \notin StaticLabels \cup CgiLabels
  PROVE  KInv'
<1>1. \A k \in DOMAIN replies : Framed(k) => Framed(k)'
  BY DEF Framed, HasNoBody, ResourceUrl
<1>. QED
  BY <1>1 DEF KInv, Fits, HasSize, StaticLabels, CgiLabels

\* IsValid and IsCGIRequest choose the handler.
LEMMA KindNext ==
  ASSUME AInv, TInv, KInv, NextRequest
  PROVE  KInv'
<1>1. /\ pc' \in {"invalid", "cgi", "static"} /\ body' = <<>>
      /\ UNCHANGED <<sent, file, edits, cached, replies>>
  BY NextRequestEffect DEF clientVars, diskVars
<1>2. /\ pc' = "cgi" => IsCGIRequest(ResourceUrl(req'))
      /\ pc' = "static" => IsValid(req')
  BY DEF NextRequest, Goto
<1>3. pc' = "cgi" => url' \in CgiFolder
  BY <1>1, <1>2 DEF IsCGIRequest, url, ResourceUrl
<1>4. pc' = "static" => method' \in {"GET", "HEAD"}
  BY <1>1, <1>2 DEF IsValid, ParseRequestLine, ToMethod, method
<1>5. \A k \in DOMAIN replies : Framed(k) => Framed(k)'
  BY <1>1 DEF Framed, HasNoBody, ResourceUrl
<1>6. edits = 0 => Fits'
  BY <1>1, <1>5 DEF KInv, Fits, HasSize
<1>. QED
  BY <1>1, <1>3, <1>4, <1>6 DEF KInv, StaticLabels, CgiLabels

\* The static handler sizes its response by the file, the cache or both.
LEMMA KindLooks ==
  ASSUME AInv, TInv, FInv, KInv, Looks
  PROVE  KInv'
<1>0. /\ UNCHANGED <<sent, file, edits, req, replies>> /\ url' = url /\ method' = method
  BY LooksEffect DEF clientVars, diskVars, url, method, ResourceUrl
<1>1. \A k \in DOMAIN replies : Framed(k) => Framed(k)'
  BY <1>0 DEF Framed, HasNoBody, ResourceUrl
<1>2. pc \in StaticLabels /\ url \in Paths /\ file[url].size \in Nat
  <2>1. pc \in StaticLabels
    BY DEF Looks, StaticFound, ResponseHead, TryLoad, LoadSize, LoadRead, TryInsert, StaticLabels
  <2>2. req \in DOMAIN sent
    BY <2>1, ServedIsSent DEF StaticLabels, ServingLabels
  <2>3. url \in Paths
    BY <2>2, UrlIsPath DEF url, AInv, Feed
  <2>4. file[url].size \in Nat
    BY <2>3 DEF TInv, Entries
  <2>. QED
    BY <2>1, <2>3, <2>4
<1>3. CASE StaticFound
  <2>1. pc = "static" /\ pc' = "head" /\ UNCHANGED <<body, length, cached>>
    BY <1>3 DEF StaticFound, Goto
  <2>. QED
    BY <1>0, <1>1, <2>1 DEF KInv, Fits, HasSize, StaticLabels, CgiLabels
<1>4. CASE ResponseHead
  <2>1. /\ pc = "head" /\ pc' = (IF method = "GET" THEN "load" ELSE "body")
        /\ length' = IF HasSize(url) THEN file[url].size ELSE 0
        /\ HasSize(url) \/ file[url].kind = "none"
        /\ UNCHANGED <<body, cached>>
    BY <1>4 DEF ResponseHead, Goto
  <2>2. body = <<>> /\ Len(<<>>) = 0
    BY <2>1 DEF KInv
  <2>3. edits = 0 => HasSize(url)
    BY <2>1 DEF AInv, AbortInv
  <2>. QED
    BY <1>0, <1>1, <2>1, <2>2, <2>3 DEF KInv, Fits, HasSize, StaticLabels, CgiLabels
<1>5. CASE TryLoad
  <2>1. /\ pc = "load" /\ UNCHANGED <<length, cached>>
        /\ \/ cached[url] = NoFile /\ pc' = "size" /\ body' = <<>>
           \/ cached[url] # NoFile /\ pc' = "body" /\ body' = cached[url][2]
    BY <1>5 DEF TryLoad, Goto
  <2>. QED
    BY <1>0, <1>1, <1>2, <2>1 DEF KInv, Fits, HasSize, StaticLabels, CgiLabels
<1>6. CASE LoadSize
  <2>1. pc = "size" /\ pc' = "read" /\ UNCHANGED <<length, cached>>
    BY <1>6 DEF LoadSize, Goto
  <2>2. Len(body') = file[url].size
    BY <1>2, <1>6, ContentBytes DEF LoadSize
  <2>. QED
    BY <1>0, <1>1, <2>1, <2>2 DEF KInv, Fits, HasSize, StaticLabels, CgiLabels
<1>7. CASE LoadRead
  <2>1. pc = "read" /\ pc' = "insert" /\ UNCHANGED <<length, cached>>
    BY <1>7 DEF LoadRead, Goto
  <2>2. Len(body') = Len(body)
    <3>1. body \in Seq(Bytes) /\ body' \in Seq(Bytes)
      BY TypedLooks DEF TInv
    <3>2. DOMAIN body' = DOMAIN body
      BY <1>7 DEF LoadRead
    <3>. QED
      BY <3>1, <3>2
  <2>. QED
    BY <1>0, <1>1, <2>1, <2>2 DEF KInv, Fits, HasSize, StaticLabels, CgiLabels
<1>9. CASE TryInsert
  <2>1. /\ pc = "insert" /\ pc' = "body" /\ UNCHANGED <<length, body>>
        /\ \A q \in Paths : cached'[q] = cached[q] \/ (q = url /\ cached'[q] = <<"file", body>>)
    BY <1>2, <1>9 DEF TryInsert, Goto, TInv
  <2>2. edits = 0 => \A q \in Paths : cached'[q] = NoFile \/ (HasSize(q) /\ Len(cached'[q][2]) = file[q].size)
    BY <2>1 DEF KInv, Fits
  <2>3. edits = 0 => Fits'
    BY <1>0, <1>1, <2>1, <2>2 DEF KInv, Fits, HasSize
  <2>. QED
    BY <1>0, <2>1, <2>3 DEF KInv, StaticLabels, CgiLabels
<1>. QED
  BY <1>3, <1>4, <1>5, <1>6, <1>7, <1>9 DEF Looks

\* The response fits its head.
LEMMA KindAnswer ==
  ASSUME AInv, TInv, FInv, KInv, Answers
  PROVE  KInv'
<1>1. PICK r \in Reply : r.of = req /\ Carries(r.head, r.body) /\ replies'[Len(replies) + 1] = r
  BY AnswerEffect
<1>2. /\ Len(replies') = Len(replies) + 1 /\ Len(replies) \in Nat
      /\ \A k \in DOMAIN replies : k \in DOMAIN replies' /\ replies'[k] = replies[k]
      /\ \A k \in DOMAIN replies' : k \in DOMAIN replies \/ k = Len(replies) + 1
      /\ pc' = "send" /\ UNCHANGED <<sent, req, file, edits>>
  BY AnswerEffect
<1>3. /\ UNCHANGED cached
      /\ (CgiOpenFails \/ ForkFails \/ WaitFails \/ Harvest) => pc \in CgiLabels
      /\ StaticRespond => pc = "body"
  BY DEF Answers, Refuse, StaticMissing, StaticRespond, CgiMissing, CgiOpenFails, ForkFails,
     WaitFails, Harvest, CgiLabels
<1>4. \A k \in DOMAIN replies : Framed(k) => Framed(k)'
  BY <1>2 DEF Framed, HasNoBody, ResourceUrl
<1>5. ASSUME edits = 0, NEW n, n = Len(replies) + 1 PROVE Framed(n)'
  <2>1. replies'[n] = r /\ r.of = req /\ sent' = sent
    BY <1>1, <1>2, <1>5
  <2>2. HasNoBody(n)' => sent[req].method = "HEAD"
    BY <2>1 DEF HasNoBody
  <2>3. sent[req].method = "HEAD" /\ req # 0 => HasNoBody(n)'
    BY <2>1 DEF HasNoBody
  <2>4. CASE r.head.length = 0 /\ r.body = <<>>
    <3>1. Len(r.body) = 0
      BY <2>4
    <3>. QED
      BY <2>1, <2>4, <3>1 DEF Framed
  <2>5. CASE StaticRespond /\ r.head.length = length /\ r.body = body
    <3>1. /\ method \in {"GET", "HEAD"} /\ Len(body) = IF method = "GET" THEN length ELSE 0
          /\ req # 0
      BY <1>3, <1>5, <2>5 DEF KInv, Fits, HasSize, StaticLabels, FInv, ServingLabels, TInv
    <3>2. method = "HEAD" <=> sent[req].method = "HEAD"
      BY DEF method, ToMethod
    <3>3. method = "GET" => ~ HasNoBody(n)'
      BY <2>2, <3>2
    <3>4. method = "HEAD" => HasNoBody(n)'
      BY <2>3, <3>1, <3>2
    <3>. QED
      BY <2>1, <2>5, <3>1, <3>3, <3>4 DEF Framed
  <2>6. CASE (CgiOpenFails \/ ForkFails \/ WaitFails \/ Harvest) /\ r.head.length = Len(r.body)
    <3>1. IsCGIRequest(ResourceUrl(req))
      BY <1>3, <2>6 DEF KInv, url, IsCGIRequest
    <3>2. IsCGIRequest(ResourceUrl(replies[n].of))'
      BY <2>1, <3>1 DEF ResourceUrl, IsCGIRequest
    <3>. QED
      BY <2>1, <2>6, <3>2 DEF Framed
  <2>. QED
    BY <1>1, <2>4, <2>5, <2>6 DEF Carries
<1>6. edits = 0 => Fits'
  BY <1>2, <1>3, <1>4, <1>5 DEF KInv, Fits, HasSize
<1>. QED
  BY <1>2, <1>6 DEF KInv, StaticLabels, CgiLabels

\* Every step keeps lengths and kinds.
LEMMA KindStep ==
  ASSUME AInv, TInv, FInv, KInv, [Next]_vars
  PROVE  KInv'
<1>1. CASE Start \/ RecvExit \/ RecvAgain \/ Return \/ Abort \/ SendDone \/ SendFails \/ Sigpipe
  <2>1. pc' \notin StaticLabels \cup CgiLabels /\ UNCHANGED <<sent, file, edits, cached, replies>>
    BY <1>1 DEF Start, RecvExit, RecvAgain, Return, Abort, SendDone, SendFails, Sigpipe, Goto, clientVars,
       diskVars, StaticLabels, CgiLabels
  <2>. QED
    BY <2>1, KindQuiet
<1>2. CASE Recv \/ Send
  <2>1. pc' \notin StaticLabels \cup CgiLabels /\ UNCHANGED <<sent, file, edits, cached, replies>>
    BY <1>2 DEF Recv, Send, handlerVars, diskVars, StaticLabels, CgiLabels
  <2>. QED
    BY <2>1, KindQuiet
<1>3. CASE CgiOpen \/ Fork \/ ChildRuns
  <2>1. /\ pc \in CgiLabels /\ pc' \in {"fork", "child", "wait"}
        /\ UNCHANGED <<sent, req, file, edits, cached, replies>>
    BY <1>3 DEF CgiOpen, Fork, ChildRuns, Goto, clientVars, diskVars, CgiLabels
  <2>2. url' = url
    BY <2>1 DEF url, ResourceUrl
  <2>3. \A k \in DOMAIN replies : Framed(k) => Framed(k)'
    BY <2>1 DEF Framed, HasNoBody, ResourceUrl
  <2>. QED
    BY <2>1, <2>2, <2>3 DEF KInv, Fits, HasSize, StaticLabels, CgiLabels
<1>4. CASE UNCHANGED vars
  <2>1. UNCHANGED <<pc, req, body, length, replies, file, edits, sent, cached>>
    BY <1>4 DEF vars, clientVars, diskVars, handlerVars
  <2>. QED
    BY <2>1, KindOutside DEF KInv, Fits, HasSize
<1>. QED
  BY <1>1, <1>2, <1>3, <1>4, KindEnvironment, KindNext, KindLooks, KindAnswer
  DEF Next, Handler, Static, CgiStep, Answers, Looks

\* Lengths and kinds fit in every state.
LEMMA KindInvariance == Spec => []KInv
<1>1. Init => KInv
  BY DEF Init, KInv, Fits, HasSize, StaticLabels, CgiLabels
<1>. QED
  BY <1>1, KindStep, AbortInvariance, TypedInvariance, FrameInvariance, PTL DEF Spec

\* As long as no file changes, a response is as long as its Content-Length
\* says and empty after HEAD, whether the cache, the disk or a CGI program
\* supplied it; only HEAD requests to CGI programs are answered with a body.
THEOREM FramingSafety == Spec => []FramedUnlessEdited
<1>1. KInv => FramedUnlessEdited
  BY DEF KInv, Fits, HasSize, Framed, FramedUnlessEdited
<1>. QED
  BY <1>1, KindInvariance, PTL

-----------------------------------------------------------------------------
(* From the write buffer to the client.                                    *)

\* The order of the naturals, as a well-founded relation.
Less == {ss \in Nat \X Nat : ss[1] < ss[2]}

\* Induction over the naturals, for a set instead of a predicate.
LEMMA SetInduction ==
  ASSUME NEW S, 0 \in S, \A n \in Nat : n \in S => n + 1 \in S
  PROVE  \A n \in Nat : n \in S
<1>1. IsWellFoundedOn(Less, Nat)
  BY NatLessThanWellFounded DEF OpToRel, Less
<1>. SUFFICES ASSUME Nat \ S # {} PROVE FALSE
  OBVIOUS
<1>2. PICK m \in Nat \ S : \A n \in Nat \ S : ~ (<<n, m>> \in Less)
  BY <1>1, WFMin
<1>3. m # 0 /\ m - 1 \in Nat /\ <<m - 1, m>> \in Less
  BY <1>2 DEF Less
<1>. QED
  BY <1>2, <1>3

\* f[i] is what the first i of the sequences make together.
Joins(ss, n, f) == f = [i \in 1..n |-> IF i = 1 THEN ss[i] ELSE f[i - 1] \o ss[i]]

\* One sequence more.
LEMMA JoinsOneMore ==
  ASSUME NEW ss, NEW n \in Nat, NEW f, Joins(ss, n, f), NEW g,
         g = [i \in 1..(n + 1) |-> IF i <= n THEN f[i]
                                   ELSE IF i = 1 THEN ss[i] ELSE f[i - 1] \o ss[i]]
  PROVE  Joins(ss, n + 1, g)
<1>. DEFINE h == [i \in 1..(n + 1) |-> IF i = 1 THEN ss[i] ELSE g[i - 1] \o ss[i]]
<1>1. ASSUME NEW i \in 1..(n + 1) PROVE g[i] = IF i = 1 THEN ss[i] ELSE g[i - 1] \o ss[i]
  <2>1. i # 1 => i - 1 \in 1..n /\ g[i - 1] = f[i - 1]
    OBVIOUS
  <2>2. i <= n => i \in 1..n
    OBVIOUS
  <2>3. \A j \in 1..n : f[j] = IF j = 1 THEN ss[j] ELSE f[j - 1] \o ss[j]
    BY DEF Joins
  <2>4. i <= n => f[i] = IF i = 1 THEN ss[i] ELSE f[i - 1] \o ss[i]
    BY <2>2, <2>3
  <2>5. g[i] = IF i <= n THEN f[i] ELSE IF i = 1 THEN ss[i] ELSE f[i - 1] \o ss[i]
    OBVIOUS
  <2>. QED
    BY <2>1, <2>4, <2>5
<1>2. g = h
  BY <1>1
<1>. QED
  BY <1>2 DEF Joins

\* Any sequence of sequences can be joined.
LEMMA JoinsExists ==
  ASSUME NEW ss, NEW n \in Nat
  PROVE  \E f : Joins(ss, n, f)
<1>. DEFINE S == {m \in Nat : \E f : Joins(ss, m, f)}
<1>1. 0 \in S
  <2>1. \E f : f = [i \in 1..0 |-> ss]
    OBVIOUS
  <2>2. PICK f : f = [i \in 1..0 |-> ss]
    BY <2>1
  <2>3. f = [i \in 1..0 |-> IF i = 1 THEN ss[i] ELSE f[i - 1] \o ss[i]]
    BY <2>2
  <2>. QED
    BY <2>3 DEF Joins
<1>2. ASSUME NEW m \in Nat, m \in S PROVE m + 1 \in S
  <2>1. PICK f : Joins(ss, m, f)
    BY <1>2
  <2>2. PICK g : g = [i \in 1..(m + 1) |-> IF i <= m THEN f[i]
                                   ELSE IF i = 1 THEN ss[i] ELSE f[i - 1] \o ss[i]]
    OBVIOUS
  <2>3. Joins(ss, m + 1, g)
    BY <2>1, <2>2, JoinsOneMore
  <2>. QED
    BY <2>3
<1>. HIDE DEF S
<1>3. \A m \in Nat : m \in S
  BY <1>1, <1>2, SetInduction
<1>. QED
  BY <1>3 DEF S

\* There is one way to join them.
LEMMA JoinsUnique ==
  ASSUME NEW ss, NEW n \in Nat, NEW f, NEW g, Joins(ss, n, f), Joins(ss, n, g)
  PROVE  f = g
<1>. DEFINE S == {m \in Nat : m \in 1..n => f[m] = g[m]}
<1>1. 0 \in S
  OBVIOUS
<1>2. ASSUME NEW m \in Nat, m \in S PROVE m + 1 \in S
  <2>1. m + 1 \in 1..n => f[m + 1] = IF m + 1 = 1 THEN ss[m + 1] ELSE f[(m + 1) - 1] \o ss[m + 1]
    BY DEF Joins
  <2>2. m + 1 \in 1..n => g[m + 1] = IF m + 1 = 1 THEN ss[m + 1] ELSE g[(m + 1) - 1] \o ss[m + 1]
    BY DEF Joins
  <2>3. (m + 1) - 1 = m /\ (m + 1 \in 1..n /\ m + 1 # 1 => m \in 1..n)
    OBVIOUS
  <2>. QED
    BY <1>2, <2>1, <2>2, <2>3
<1>. HIDE DEF S
<1>3. \A m \in Nat : m \in S
  BY <1>1, <1>2, SetInduction
<1>4. \A m \in 1..n : f[m] = g[m]
  BY <1>3 DEF S
<1>. QED
  BY <1>4 DEF Joins

\* FlattenSeq is the last of the joins.
LEMMA FlattenIsJoin ==
  ASSUME NEW ss, Len(ss) \in Nat, Len(ss) # 0, NEW f, Joins(ss, Len(ss), f)
  PROVE  FlattenSeq(ss) = f[Len(ss)]
<1>. DEFINE flat == CHOOSE g : g = [i \in 1..Len(ss) |-> IF i = 1 THEN ss[i] ELSE g[i - 1] \o ss[i]]
<1>1. FlattenSeq(ss) = flat[Len(ss)]
  BY DEF FlattenSeq
<1>2. Joins(ss, Len(ss), flat)
  BY DEF Joins
<1>3. flat = f
  <2>. HIDE DEF flat
  <2>. QED
    BY <1>2, JoinsUnique
<1>. QED
  BY <1>1, <1>3

\* Flattening with one sequence more appends it.
LEMMA FlattenAppend ==
  ASSUME NEW S, NEW ss \in Seq(Seq(S)), NEW s \in Seq(S), NEW more, more = Append(ss, s)
  PROVE  FlattenSeq(more) = FlattenSeq(ss) \o s
<1>. DEFINE n == Len(ss)
<1>1. /\ n \in Nat /\ Len(more) = n + 1 /\ more[n + 1] = s
      /\ \A i \in 1..n : more[i] = ss[i]
  OBVIOUS
<1>. HIDE DEF n
<1>2. PICK f : Joins(ss, n, f)
  BY <1>1, JoinsExists
<1>3. Joins(more, n, f)
  BY <1>1, <1>2 DEF Joins
<1>4. PICK g : g = [i \in 1..(n + 1) |-> IF i <= n THEN f[i]
                                   ELSE IF i = 1 THEN more[i] ELSE f[i - 1] \o more[i]]
  OBVIOUS
<1>5. Joins(more, n + 1, g)
  <2>1. n \in Nat
    BY <1>1
  <2>. QED
    BY <2>1, <1>3, <1>4, JoinsOneMore
<1>6. FlattenSeq(more) = g[n + 1]
  <2>1. Len(more) \in Nat /\ Len(more) # 0 /\ Joins(more, Len(more), g)
    BY <1>1, <1>5
  <2>2. FlattenSeq(more) = g[Len(more)]
    BY <2>1, FlattenIsJoin
  <2>. QED
    BY <1>1, <2>2
<1>7. g[n + 1] = IF n + 1 = 1 THEN s ELSE f[(n + 1) - 1] \o s
  BY <1>1, <1>4
<1>8. CASE n = 0
  <2>1. ss = <<>> /\ FlattenSeq(ss) = ss
    BY <1>8 DEF FlattenSeq, n
  <2>2. <<>> \o s = s
    BY ConcatEmptySeq
  <2>. QED
    BY <1>6, <1>7, <1>8, <2>1, <2>2
<1>9. CASE n # 0
  <2>1. FlattenSeq(ss) = f[n]
    BY <1>1, <1>2, <1>9, FlattenIsJoin DEF n
  <2>2. (n + 1) - 1 = n /\ n + 1 # 1
    BY <1>1, <1>9
  <2>. QED
    BY <1>6, <1>7, <2>1, <2>2
<1>. QED
  BY <1>8, <1>9

\* What send() has not taken yet.
Rest == SubSeq(wbuf, wrote + 1, Len(wbuf))

\* The write buffer is in use from the response to the end of Send; what the
\* client has and what waits for it are the stream of the responses.
WInv ==
  /\ pc \notin {"send", "abort"} => wbuf = <<>> /\ wrote = 0
  /\ \E tail \in Seq(Bytes) : Stream = got \o tail /\ (peer # "reset" => tail = Rest)

\* A step that moves no response byte.
LEMMA WireQuiet ==
  ASSUME WInv, UNCHANGED <<got, wbuf, wrote, replies>>,
         peer # "reset" \/ peer' = "reset",
         pc' \notin {"send", "abort"} => pc \notin {"send", "abort"}
  PROVE  WInv'
<1>1. Stream' = Stream /\ Rest' = Rest
  BY DEF Stream, Rest
<1>. QED
  BY <1>1 DEF WInv

\* Write appends the response to an empty buffer, or to one whose client
\* has gone.
LEMMA WireAnswer ==
  ASSUME TInv, WInv, Answers
  PROVE  WInv'
<1>. DEFINE parts == [k \in DOMAIN replies |-> <<<<"head", k>>>> \o replies[k].body]
<1>1. PICK r \in Reply : /\ replies' = Append(replies, r) /\ replies'[Len(replies) + 1] = r
                         /\ wbuf' = wbuf \o (<<<<"head", Len(replies) + 1>>>> \o r.body)
  BY AnswerEffect
<1>2. /\ Len(replies') = Len(replies) + 1 /\ Len(replies) \in Nat /\ pc' = "send"
      /\ UNCHANGED <<peer, got, wrote>>
  BY AnswerEffect
<1>3. pc \notin {"send", "abort"}
  BY DEF Answers, Refuse, StaticMissing, StaticRespond, CgiMissing, CgiOpenFails, ForkFails,
         WaitFails, Harvest
<1>4. /\ replies \in Seq(Reply) /\ DOMAIN replies = 1..Len(replies)
      /\ DOMAIN replies' = 1..(Len(replies) + 1)
      /\ \A k \in 1..Len(replies) : replies'[k] = replies[k] /\ replies[k] \in Reply
  BY <1>1, <1>2 DEF TInv
<1>5. ASSUME NEW k \in Nat, NEW bytes \in Seq(Bytes) PROVE <<<<"head", k>>>> \o bytes \in Seq(Bytes)
  <2>1. <<<<"head", k>>>> \in Seq(Bytes)
    BY DEF Bytes
  <2>. QED
    BY <2>1, ConcatProperties
<1>6. \A t \in Reply : t.body \in Seq(Bytes)
  BY DEF Reply
<1>7. PICK new : new = <<<<"head", Len(replies) + 1>>>> \o r.body
  OBVIOUS
<1>8. new \in Seq(Bytes)
  BY <1>2, <1>5, <1>6, <1>7
<1>9. \A k \in 1..Len(replies) : (<<<<"head", k>>>> \o replies[k].body) \in Seq(Bytes)
  BY <1>2, <1>4, <1>5, <1>6
<1>10. parts \in Seq(Seq(Bytes)) /\ Len(parts) = Len(replies)
  BY <1>2, <1>4, <1>9
<1>11. PICK parts1 : parts1 = [k \in 1..(Len(replies) + 1) |-> <<<<"head", k>>>> \o replies'[k].body]
  OBVIOUS
<1>12. parts1 = Append(parts, new)
  <2>1. \A k \in 1..Len(replies) : parts1[k] = parts[k]
    BY <1>2, <1>4, <1>11
  <2>2. parts1[Len(replies) + 1] = new
    BY <1>1, <1>2, <1>7, <1>11
  <2>3. DOMAIN parts1 = 1..(Len(replies) + 1)
    BY <1>11
  <2>. HIDE DEF parts
  <2>4. /\ DOMAIN Append(parts, new) = 1..(Len(replies) + 1)
        /\ \A k \in 1..(Len(replies) + 1) :
              Append(parts, new)[k] = IF k <= Len(replies) THEN parts[k] ELSE new
    BY <1>2, <1>8, <1>10
  <2>5. \A k \in 1..(Len(replies) + 1) : parts1[k] = Append(parts, new)[k]
    BY <1>2, <2>1, <2>2, <2>4
  <2>6. Append(parts, new) \in Seq(Seq(Bytes)) /\ Len(Append(parts, new)) = Len(replies) + 1
    BY <1>8, <1>10, AppendProperties
  <2>7. parts1 \in Seq(Seq(Bytes)) /\ Len(parts1) = Len(replies) + 1
    <3>1. \A k \in 1..(Len(replies) + 1) : parts1[k] \in Seq(Bytes)
      BY <1>2, <1>8, <1>10, <2>4, <2>5
    <3>. QED
      BY <1>2, <1>11, <3>1
  <2>. QED
    BY <2>5, <2>6, <2>7, SeqEqual
<1>13. Stream = FlattenSeq(parts) /\ Stream' = FlattenSeq(parts1)
  BY <1>4, <1>11 DEF Stream
<1>14. Stream' = Stream \o new
  <2>1. FlattenSeq(parts1) = FlattenSeq(parts) \o new
    <3>. HIDE DEF parts
    <3>. QED
      BY <1>8, <1>10, <1>12, FlattenAppend
  <2>. QED
    BY <1>13, <2>1
<1>15. PICK tail \in Seq(Bytes) : Stream = got \o tail /\ (peer # "reset" => tail = Rest)
  BY DEF WInv
<1>16. got \in Seq(Bytes) /\ tail \o new \in Seq(Bytes)
  BY <1>8, ConcatProperties DEF TInv
<1>17. Stream' = got' \o (tail \o new)
  <2>1. (got \o tail) \o new = got \o (tail \o new)
    BY <1>8, <1>16, ConcatAssociative
  <2>. QED
    BY <1>2, <1>14, <1>15, <2>1
<1>18. ASSUME peer' # "reset" PROVE tail \o new = Rest'
  <2>1. wbuf = <<>> /\ wrote = 0 /\ tail = Rest
    BY <1>2, <1>3, <1>15, <1>18 DEF WInv
  <2>2. tail = <<>>
    BY <2>1 DEF Rest
  <2>3. wbuf' = new /\ tail \o new = new
    BY <1>1, <1>7, <1>8, <2>1, <2>2, ConcatEmptySeq
  <2>4. Rest' = SubSeq(new, 1, Len(new))
    BY <1>2, <2>1, <2>3 DEF Rest
  <2>5. SubSeq(new, 1, Len(new)) = new
    BY <1>8
  <2>. QED
    BY <2>3, <2>4, <2>5
<1>. QED
  BY <1>2, <1>16, <1>17, <1>18 DEF WInv

\* send() takes a part of the rest, in its order.
LEMMA WireSend ==
  ASSUME TInv, WInv, Send
  PROVE  WInv'
<1>1. PICK n \in 1..(Len(wbuf) - wrote) :
        got' = got \o SubSeq(wbuf, wrote + 1, wrote + n) /\ wrote' = wrote + n
  BY DEF Send
<1>2. pc = "send" /\ peer # "reset" /\ UNCHANGED <<pc, peer, wbuf, replies>>
  BY DEF Send, handlerVars
<1>3. got \in Seq(Bytes) /\ wbuf \in Seq(Bytes) /\ wrote \in Nat /\ Len(wbuf) \in Nat /\ n \in Nat
  BY <1>1 DEF TInv
<1>4. PICK part, rest : part = SubSeq(wbuf, wrote + 1, wrote + n)
                        /\ rest = SubSeq(wbuf, wrote + n + 1, Len(wbuf))
  OBVIOUS
<1>5. part \in Seq(Bytes) /\ rest \in Seq(Bytes)
  <2>1. part \in Seq(Bytes)
    BY <1>1, <1>3, <1>4
  <2>2. rest \in Seq(Bytes)
    BY <1>1, <1>3, <1>4
  <2>. QED
    BY <2>1, <2>2
<1>6. part \o rest = Rest
  <2>1. /\ wrote + 1 \in 1..(Len(wbuf) + 1) /\ wrote + n \in ((wrote + 1) - 1)..Len(wbuf)
        /\ Len(wbuf) \in (wrote + n)..Len(wbuf)
    BY <1>1, <1>3
  <2>2. PICK a, b : a = wrote + 1 /\ b = wrote + n
    OBVIOUS
  <2>3. a \in 1..(Len(wbuf) + 1) /\ b \in (a - 1)..Len(wbuf) /\ Len(wbuf) \in b..Len(wbuf)
    BY <2>1, <2>2
  <2>4. SubSeq(wbuf, a, b) \o SubSeq(wbuf, b + 1, Len(wbuf)) = SubSeq(wbuf, a, Len(wbuf))
    BY <1>3, <2>3, ConcatAdjacentSubSeq
  <2>. QED
    BY <1>4, <2>2, <2>4 DEF Rest
<1>7. Stream = got \o Rest
  BY <1>2 DEF WInv
<1>8. Stream' = Stream /\ Rest' = rest /\ got' = got \o part
  BY <1>1, <1>2, <1>4 DEF Stream, Rest
<1>9. (got \o part) \o rest = got \o (part \o rest)
  <2>1. got \in Seq(Bytes)
    BY <1>3
  <2>. QED
    BY <1>5, <2>1, ConcatAssociative, SMTT(30)
<1>10. Stream' = got' \o rest
  BY <1>6, <1>7, <1>8, <1>9
<1>. QED
  BY <1>2, <1>5, <1>8, <1>10 DEF WInv

\* Send ends with an empty buffer: it is at its end, or the client is gone.
LEMMA WireDone ==
  ASSUME TInv, WInv, SendDone \/ SendFails
  PROVE  WInv'
<1>1. /\ wbuf' = <<>> /\ wrote' = 0 /\ UNCHANGED <<peer, got, replies>>
      /\ wrote = Len(wbuf) \/ peer = "reset"
  BY DEF SendDone, SendFails, clientVars
<1>2. PICK tail \in Seq(Bytes) : Stream = got \o tail /\ (peer # "reset" => tail = Rest)
  BY DEF WInv
<1>3. Stream' = Stream
  BY <1>1 DEF Stream
<1>4. ASSUME peer' # "reset" PROVE tail = Rest'
  <2>1. tail = SubSeq(wbuf, Len(wbuf) + 1, Len(wbuf)) /\ wbuf \in Seq(Bytes)
    BY <1>1, <1>2, <1>4 DEF Rest, TInv
  <2>2. tail = <<>>
    BY <2>1
  <2>3. Rest' = SubSeq(<<>>, 0 + 1, Len(<<>>))
    BY <1>1 DEF Rest
  <2>4. Rest' = <<>>
    BY <2>3
  <2>. QED
    BY <2>2, <2>4
<1>. QED
  BY <1>1, <1>2, <1>3, <1>4 DEF WInv

\* Every step keeps the stream.
LEMMA WireStep ==
  ASSUME AInv, TInv, WInv, [Next]_vars
  PROVE  WInv'
<1>1. CASE Start \/ RecvExit \/ RecvAgain \/ Return \/ Abort
  BY <1>1, WireQuiet DEF Start, RecvExit, RecvAgain, Return, Abort, Goto, clientVars, connVars
<1>2. CASE Recv
  BY <1>2, WireQuiet DEF Recv, handlerVars
<1>3. CASE NextRequest
  <2>1. UNCHANGED <<got, wbuf, wrote, replies, peer>> /\ pc = "parse"
    BY <1>3 DEF NextRequest, clientVars
  <2>. QED
    BY <2>1, WireQuiet
<1>4. CASE Looks
  <2>1. pc \notin {"send", "abort"}
    BY <1>4 DEF Looks, StaticFound, ResponseHead, TryLoad, LoadSize, LoadRead, TryInsert
  <2>. QED
    BY <1>4, <2>1, LooksEffect, WireQuiet DEF clientVars, connVars
<1>5. CASE CgiOpen \/ Fork \/ ChildRuns
  BY <1>5, WireQuiet DEF CgiOpen, Fork, ChildRuns, clientVars, connVars
<1>6. CASE Sigpipe
  BY <1>6, WireQuiet DEF Sigpipe, Goto, clientVars, connVars
<1>7. CASE Environment
  <2>1. UNCHANGED <<got, connVars, handlerVars>> /\ (peer # "reset" \/ peer' = "reset")
    BY <1>7 DEF Environment, ClientSend, ClientSendRest, ClientFin, ClientReset, OtherReactor, Edit,
       clientVars
  <2>. QED
    BY <2>1, WireQuiet DEF connVars, handlerVars
<1>8. CASE UNCHANGED vars
  BY <1>8, WireQuiet DEF vars, clientVars, connVars, handlerVars
<1>. QED
  BY <1>1, <1>2, <1>3, <1>4, <1>5, <1>6, <1>7, <1>8, WireAnswer, WireSend, WireDone
  DEF Next, Handler, Static, CgiStep, Answers, Looks

\* The stream is whole in every state.
LEMMA WireInvariance == Spec => []WInv
<1>1. Init => WInv
  <2>. SUFFICES ASSUME Init PROVE WInv
    OBVIOUS
  <2>1. /\ replies = <<>> /\ got = <<>> /\ wbuf = <<>> /\ wrote = 0
    BY DEF Init
  <2>2. [k \in DOMAIN replies |-> <<<<"head", k>>>> \o replies[k].body] = <<>>
    BY <2>1
  <2>3. FlattenSeq(<<>>) = <<>>
    BY DEF FlattenSeq
  <2>4. Stream = <<>>
    BY <2>2, <2>3 DEF Stream
  <2>5. Rest = <<>>
    BY <2>1 DEF Rest
  <2>6. <<>> \in Seq(Bytes) /\ <<>> \o <<>> = <<>>
    BY EmptySeq, ConcatEmptySeq
  <2>. QED
    BY <2>1, <2>4, <2>5, <2>6 DEF WInv
<1>. QED
  BY <1>1, WireStep, AbortInvariance, TypedInvariance, PTL DEF Spec

\* The k-th response answers the k-th request, and through any partial
\* send() the client gets the concatenation of the responses: Connection::Send
\* repeats and drops nothing unless the client has reset the connection.
THEOREM ResponseSafety == Spec => []ResponsesInOrder
<1>1. TInv /\ FInv /\ WInv => ResponsesInOrder
  <2>. SUFFICES ASSUME TInv, FInv, WInv PROVE ResponsesInOrder
    OBVIOUS
  <2>1. PICK tail \in Seq(Bytes) : Stream = got \o tail /\ (peer # "reset" => tail = Rest)
    BY DEF WInv
  <2>2. IsPrefix(got, Stream)
    <3>1. got \in Seq(Bytes)
      BY DEF TInv
    <3>2. Len(got) <= Len(got \o tail) /\ SubSeq(got, 1, Len(got)) = SubSeq(got \o tail, 1, Len(got))
      BY <3>1
    <3>. QED
      BY <2>1, <3>2 DEF IsPrefix
  <2>. QED
    BY <2>1, <2>2 DEF ResponsesInOrder, FInv, Rest
<1>. QED
  BY <1>1, TypedInvariance, FrameInvariance, WireInvariance, PTL
=============================================================================
