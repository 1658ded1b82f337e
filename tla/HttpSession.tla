---------------------------- MODULE HttpSession ----------------------------
(***************************************************************************)
(* One client of the demo http server, from the bytes of its requests to   *)
(* the bytes of the responses: Connection::Receive, the framing of         *)
(* Buffer::FindAndPopTill, the parsed Request, the two handlers with the   *)
(* file system, the shared Cache and the result file of the CGI child, and *)
(* Connection::Send.  The deletion of the connection is one step here;     *)
(* Reactor has it in detail, with the other connections and threads.       *)
(*                                                                         *)
(* A byte that is sent is a pair <<origin, number>>.  A response head is a *)
(* single byte <<"head", i>> that stands for replies[i].head.              *)
(***************************************************************************)
EXTENDS Naturals, Sequences, SequencesExt

CONSTANTS
  Texts,       \* request texts: what the parser tells apart of them
  Paths,       \* files below the serving directory
  CgiFolder,   \* the paths that contain "cgi-bin"
  Index,       \* the file kDefaultRoute adds to a url that ends in a slash
  Disk,        \* Disk[p]: what the file system may have under the name p
  MaxSent,     \* bound: requests the client sends
  MaxEdits     \* bound: changes to files while the server runs

\* What stat() can say of a name: there is nothing; a file (its content is
\* told by its size), or one that may not be opened; something without a
\* size; or stat() fails (the name is too long, a directory is closed).
Kinds == {"none", "file", "locked", "directory", "error"}

ASSUME SessionAssumption ==
  /\ CgiFolder \subseteq Paths /\ Index \in Paths \ CgiFolder
  /\ Disk \in [Paths -> SUBSET [kind : Kinds, size : Nat]]
  /\ MaxSent \in Nat /\ MaxEdits \in Nat
  /\ \A t \in Texts :
       /\ t.tokens \in Nat
       /\ t.path \in Paths \cup {"/"}
       /\ \A h \in t.headers : h.tokens \in Nat

VARIABLES
  sent,      \* the texts the client has begun to send
  half,      \* the last of them has not been sent to its end yet
  peer,      \* "open", "fin" after a half close, "reset" after an abort
  rx,        \* pieces in the socket's receive queue
  got,       \* bytes the client's socket has taken
  file,      \* file[p]: what is under the name p now
  edits,     \* changes made so far
  cached,    \* cached[p]: what the Cache has for p: <<"none">> or <<"file", bytes>>
  rbuf,      \* Connection::read_buffer_
  wbuf,      \* Connection::write_buffer_
  wrote,     \* curr_write of Connection::Send
  pc,        \* where the reactor thread is
  req,       \* the number of the request being handled, 0 for a broken one
  length,    \* the Content-Length of the response under way
  body,      \* cache_buf, or cgi_result
  shared,    \* the thread's CGI result file: <<"none">> or <<"file", bytes>>
  finish,    \* finished_handle
  replies    \* history: the responses written so far

clientVars  == <<sent, half, peer, rx, got>>
diskVars    == <<file, edits>>
connVars    == <<rbuf, wbuf, wrote>>
handlerVars == <<pc, req, length, body, finish, replies>>
vars == <<clientVars, diskVars, cached, connVars, handlerVars, shared>>

NoFile == <<"none">>

Init ==
  /\ sent = <<>> /\ half = FALSE /\ peer = "open" /\ rx = <<>> /\ got = <<>>
  /\ file \in [Paths -> UNION {Disk[p] : p \in Paths}] /\ \A p \in Paths : file[p] \in Disk[p]
  /\ edits = 0
  /\ cached = [p \in Paths |-> NoFile]
  /\ rbuf = <<>> /\ wbuf = <<>> /\ wrote = 0
  /\ pc = "poll" /\ req = 0 /\ length = 0 /\ body = <<>> /\ finish = FALSE
  /\ replies = <<>>
  /\ shared = NoFile

-----------------------------------------------------------------------------
(* The client, the people who edit files and the other reactors (external).*)

\* A request arrives in two pieces; the second one completes the "\r\n\r\n".
ClientSend(t) ==
  /\ peer = "open" /\ pc # "deleted" /\ ~ half /\ Len(sent) < MaxSent
  /\ sent' = Append(sent, t)
  /\ half' = TRUE
  /\ rx' = Append(rx, [of |-> Len(sent'), last |-> FALSE])
  /\ UNCHANGED <<peer, got, diskVars, cached, connVars, handlerVars, shared>>

ClientSendRest ==
  /\ peer = "open" /\ pc # "deleted" /\ half
  /\ half' = FALSE
  /\ rx' = Append(rx, [of |-> Len(sent), last |-> TRUE])
  /\ UNCHANGED <<sent, peer, got, diskVars, cached, connVars, handlerVars, shared>>

ClientFin ==
  /\ peer = "open" /\ pc # "deleted"
  /\ peer' = "fin"
  /\ UNCHANGED <<sent, half, rx, got, diskVars, cached, connVars, handlerVars, shared>>

ClientReset ==
  /\ peer # "reset" /\ pc # "deleted"
  /\ peer' = "reset"
  /\ rx' \in {rx, <<>>}
  /\ UNCHANGED <<sent, half, got, diskVars, cached, connVars, handlerVars, shared>>

\* A file is written anew, replaced or removed.
Edit(p, entry) ==
  /\ edits < MaxEdits /\ file[p] # entry
  /\ file' = [file EXCEPT ![p] = entry]
  /\ edits' = edits + 1
  /\ UNCHANGED <<clientVars, cached, connVars, handlerVars, shared>>

\* exists() answers true: something is there.
Exists(p) == file[p].kind \in {"file", "locked", "directory"}

\* file_size() answers: it is a regular file.
HasSize(p) == file[p].kind \in {"file", "locked"}

Content(n) == [i \in 1..n |-> <<"file", n>>]
Zeros(n) == [i \in 1..n |-> <<"zero", 0>>]

\* Another reactor loads the file as it is now, or makes room for another.
OtherReactor(p) ==
  /\ \/ /\ cached[p] = NoFile /\ HasSize(p)
        /\ cached' = [cached EXCEPT ![p] =
             <<"file", IF file[p].kind = "file" THEN Content(file[p].size) ELSE Zeros(file[p].size)>>]
     \/ cached[p] # NoFile /\ cached' = [cached EXCEPT ![p] = NoFile]
  /\ UNCHANGED <<clientVars, diskVars, connVars, handlerVars, shared>>

-----------------------------------------------------------------------------
(* Connection::Receive.                                                    *)

Goto(label) == pc' = label

\* The reactor calls the handler when there is something to read.
Start ==
  /\ pc = "poll" /\ (rx # <<>> \/ peer # "open")
  /\ Goto("recv")
  /\ UNCHANGED <<clientVars, diskVars, cached, connVars, req, length, body, finish, replies, shared>>

\* recv() returns any part of what is there, appended to the read buffer.
Recv ==
  /\ pc = "recv" /\ rx # <<>>
  /\ \E n \in 1..Len(rx) :
       /\ rbuf' = rbuf \o SubSeq(rx, 1, n)
       /\ rx' = SubSeq(rx, n + 1, Len(rx))
  /\ UNCHANGED <<sent, half, peer, got, diskVars, cached, wbuf, wrote, handlerVars, shared>>

\* recv() answers 0 or an error: the connection is deleted, whatever has
\* been read in the same call or before.
RecvExit ==
  /\ pc = "recv" /\ rx = <<>> /\ peer # "open"
  /\ Goto("deleted")
  /\ UNCHANGED <<clientVars, diskVars, cached, connVars, req, length, body, finish, replies, shared>>

RecvAgain ==
  /\ pc = "recv" /\ rx = <<>> /\ peer = "open"
  /\ Goto("parse")
  /\ UNCHANGED <<clientVars, diskVars, cached, connVars, req, length, body, finish, replies, shared>>

-----------------------------------------------------------------------------
(* Requests: framing and parsing.                                          *)

\* Variant: what is left behind the request is thrown away with it.
FindAndPopAll ==
  LET ends == {i \in DOMAIN rbuf : rbuf[i].last} IN
  /\ ends # {}
  /\ LET text == SubSeq(rbuf, 1, Min(ends)) IN
     /\ rbuf' = <<>>
     /\ req' = IF Len(text) = 2 /\ text[1].of = text[2].of THEN text[1].of ELSE 0

\* FindAndPopTill("\r\n\r\n"): everything up to the first end is one request,
\* the rest stays.
FindAndPopTill ==
  LET ends == {i \in DOMAIN rbuf : rbuf[i].last} IN
  /\ ends # {}
  /\ LET text == SubSeq(rbuf, 1, Min(ends)) IN
     /\ rbuf' = SubSeq(rbuf, Min(ends) + 1, Len(rbuf))
     /\ req' = IF Len(text) = 2 /\ text[1].of = text[2].of THEN text[1].of ELSE 0

\* Words are compared by Format(): without case and leading blanks.
ToMethod(word) == IF word \in {"GET", "HEAD"} THEN word ELSE "UNSUPPORTED"
ToVersion(word) == IF word = "HTTP/1.1" THEN word ELSE "UNSUPPORTED"

ParseRequestLine(t) ==
  /\ t.tokens = 3
  /\ ToMethod(t.method) # "UNSUPPORTED"
  /\ ToVersion(t.version) # "UNSUPPORTED"

HeaderIsValid(h) == h.tokens >= 2

IsValid(n) ==
  /\ n # 0
  /\ ParseRequestLine(sent[n])
  /\ \A h \in sent[n].headers : HeaderIsValid(h)

\* Close unless some Connection header says Keep-Alive.
ShouldClose(n) ==
  ~ \E h \in sent[n].headers : h.key = "CONNECTION" /\ h.value = "KEEP-ALIVE"

ResourceUrl(n) == IF sent[n].path = "/" THEN Index ELSE sent[n].path

IsCGIRequest(url) == url \in CgiFolder

-----------------------------------------------------------------------------
(* Responses.                                                              *)

MakeResponse(status, shouldClose, n) == [status |-> status, close |-> shouldClose, length |-> n]
Make400Response == MakeResponse(400, TRUE, 0)
Make404Response == MakeResponse(404, TRUE, 0)
Make200Response(n) == MakeResponse(200, ShouldClose(req), n)

\* ChangeHeader(kHeaderContentLength, n).
ChangeHeader(head, n) == [head EXCEPT !.length = n]

Write(bytes) == wbuf' = wbuf \o bytes

\* Serialize, append the body, Write and enter Send; done is what the handler
\* returns as should_finish.
Respond(head, bytes, done) ==
  /\ replies' = Append(replies, [of |-> req, head |-> head, body |-> bytes])
  /\ Write(<<<<"head", Len(replies')>>>> \o bytes)
  /\ finish' = done
  /\ Goto("send")
  /\ UNCHANGED <<clientVars, diskVars, rbuf, wrote, req>>

\* The head of the request loop.
NextRequest ==
  /\ pc = "parse"
  /\ FindAndPopTill
  /\ Goto(IF ~ IsValid(req') THEN "invalid"
          ELSE IF IsCGIRequest(ResourceUrl(req')) THEN "cgi" ELSE "static")
  /\ length' = 0 /\ body' = <<>>
  /\ UNCHANGED <<clientVars, diskVars, cached, wbuf, wrote, finish, replies, shared>>

\* No complete request is left: the callback returns.
Return ==
  /\ pc = "parse" /\ \A i \in DOMAIN rbuf : ~ rbuf[i].last
  /\ Goto("poll")
  /\ UNCHANGED <<clientVars, diskVars, cached, connVars, req, length, body, finish, replies, shared>>

Refuse ==
  /\ pc = "invalid"
  /\ Respond(Make400Response, <<>>, TRUE)
  /\ UNCHANGED <<cached, length, body, shared>>

-----------------------------------------------------------------------------
(* HandleStaticResourceRequest.                                            *)

url == ResourceUrl(req)
method == ToMethod(sent[req].method)

StaticMissing ==
  /\ pc = "static" /\ file[url].kind = "none"
  /\ Respond(Make404Response, <<>>, TRUE)
  /\ UNCHANGED <<cached, length, body, shared>>

\* Variant: the existence of the file is not checked.
StaticFoundUnchecked ==
  /\ pc = "static"
  /\ Goto("head")
  /\ UNCHANGED <<clientVars, diskVars, cached, connVars, req, length, body, finish, replies, shared>>

\* exists() is true of a directory as well.
StaticFound ==
  /\ pc = "static" /\ Exists(url)
  /\ Goto("head")
  /\ UNCHANGED <<clientVars, diskVars, cached, connVars, req, length, body, finish, replies, shared>>

\* Variant: a HEAD request carries the content too.
ResponseHeadAlwaysLoads ==
  /\ pc = "head" /\ (HasSize(url) \/ file[url].kind = "none")
  /\ length' = IF HasSize(url) THEN file[url].size ELSE 0
  /\ Goto("load")
  /\ UNCHANGED <<clientVars, diskVars, cached, connVars, req, body, finish, replies, shared>>

\* The response's constructor asks the file system once more: Content-Length
\* is the size the file has now, 0 when it is gone.
ResponseHead ==
  /\ pc = "head" /\ (HasSize(url) \/ file[url].kind = "none")
  /\ length' = IF HasSize(url) THEN file[url].size ELSE 0
  /\ Goto(IF method = "GET" THEN "load" ELSE "body")
  /\ UNCHANGED <<clientVars, diskVars, cached, connVars, req, body, finish, replies, shared>>

TryLoad ==
  /\ pc = "load"
  /\ body' = IF cached[url] = NoFile THEN <<>> ELSE cached[url][2]
  /\ Goto(IF cached[url] = NoFile THEN "size" ELSE "body")
  /\ UNCHANGED <<clientVars, diskVars, cached, connVars, req, length, finish, replies, shared>>

\* LoadFile sizes the buffer with zeros ...
LoadSize ==
  /\ pc = "size" /\ HasSize(url)
  /\ body' = Zeros(file[url].size)
  /\ Goto("read")
  /\ UNCHANGED <<clientVars, diskVars, cached, connVars, req, length, finish, replies, shared>>

\* ... and reads as much of it as the file has; nothing when it does not
\* open, which a release build does not notice, or is a directory.
LoadRead ==
  /\ pc = "read"
  /\ body' = [i \in DOMAIN body |->
       IF file[url].kind = "file" /\ i <= file[url].size THEN Content(file[url].size)[i] ELSE body[i]]
  /\ Goto("insert")
  /\ UNCHANGED <<clientVars, diskVars, cached, connVars, req, length, finish, replies, shared>>

\* IsFileExists, CheckFileSize and LoadFile are noexcept: what exists() or
\* file_size() throws ends the process, and so does the assertion of a debug
\* build that the file is open.  A file that goes between the two calls of
\* the response's constructor ends it too.
Abort ==
  /\ \/ pc \in {"static", "cgi"} /\ file[url].kind = "error"
     \/ pc \in {"head", "size"} /\ ~ HasSize(url)
     \/ pc = "read" /\ file[url].kind \in {"none", "locked", "error"}
  /\ Goto("abort")
  /\ UNCHANGED <<clientVars, diskVars, cached, connVars, req, length, body, finish, replies, shared>>

\* TryInsert refuses a present key and a content larger than the capacity.
TryInsert ==
  /\ pc = "insert"
  /\ cached' \in {cached, [cached EXCEPT ![url] = IF @ = NoFile THEN <<"file", body>> ELSE @]}
  /\ Goto("body")
  /\ UNCHANGED <<clientVars, diskVars, connVars, req, length, body, finish, replies, shared>>

\* Variant: every 200 leaves the connection open.
StaticRespondOpen ==
  /\ pc = "body"
  /\ Respond(Make200Response(length), body, FALSE)
  /\ UNCHANGED <<cached, length, body, shared>>

StaticRespond ==
  /\ pc = "body"
  /\ Respond(Make200Response(length), body, ShouldClose(req))
  /\ UNCHANGED <<cached, length, body, shared>>

-----------------------------------------------------------------------------
(* HandleCGIRequest and CGIRunner::Run.                                    *)

\* ParseCGIRunner is only called for CGI urls and is always valid.
CgiMissing ==
  /\ pc = "cgi" /\ file[url].kind = "none"
  /\ Respond(Make404Response, <<>>, TRUE)
  /\ UNCHANGED <<cached, length, body, shared>>

CgiRespond(result) ==
  Respond(ChangeHeader(Make200Response(0), Len(result)), result, ShouldClose(req))

\* The error texts that take the place of a program's output.
OpenError == <<<<"error", 1>>>>
ForkError == <<<<"error", 2>>>>
WaitError == <<<<"error", 3>>>>

\* open(O_APPEND | O_CREAT) keeps what a file of that name already holds.
CgiOpen ==
  /\ pc = "cgi" /\ Exists(url)
  /\ shared' = IF shared = NoFile THEN <<"file", <<>>>> ELSE shared
  /\ Goto("fork")
  /\ UNCHANGED <<clientVars, diskVars, cached, connVars, req, length, body, finish, replies>>

CgiOpenFails ==
  /\ pc = "cgi" /\ Exists(url)
  /\ CgiRespond(OpenError)
  /\ UNCHANGED <<cached, length, body, shared>>

Fork ==
  /\ pc = "fork"
  /\ Goto("child")
  /\ UNCHANGED <<clientVars, diskVars, cached, connVars, req, length, body, finish, replies, shared>>

\* The file and its descriptor stay behind.
ForkFails ==
  /\ pc = "fork"
  /\ CgiRespond(ForkError)
  /\ UNCHANGED <<cached, length, body, shared>>

\* The child's program appends its output to the file; a failing execve(),
\* as of a directory, leaves it as it is.
ChildRuns ==
  /\ pc = "child"
  /\ \E n \in IF HasSize(url) THEN {0, 1} ELSE {0} :
       shared' = <<"file", shared[2] \o [i \in 1..n |-> <<"out", req>>]>>
  /\ Goto("wait")
  /\ UNCHANGED <<clientVars, diskVars, cached, connVars, req, length, body, finish, replies>>

WaitFails ==
  /\ pc = "wait"
  /\ CgiRespond(WaitError)
  /\ UNCHANGED <<cached, length, body, shared>>

\* Variant: the result file is left in place.
HarvestKeepsFile ==
  /\ pc = "wait"
  /\ body' = shared[2]
  /\ CgiRespond(shared[2])
  /\ UNCHANGED <<cached, length, shared>>

\* waitpid() succeeds: load the file, delete it and answer.
Harvest ==
  /\ pc = "wait"
  /\ body' = shared[2]
  /\ shared' = NoFile
  /\ CgiRespond(shared[2])
  /\ UNCHANGED <<cached, length>>

-----------------------------------------------------------------------------
(* Connection::Send and the end of a round of the request loop.            *)

\* send() takes some of the rest; EAGAIN and EINTR change nothing.
Send ==
  /\ pc = "send" /\ wrote < Len(wbuf) /\ peer # "reset"
  /\ \E n \in 1..(Len(wbuf) - wrote) :
       /\ got' = got \o SubSeq(wbuf, wrote + 1, wrote + n)
       /\ wrote' = wrote + n
  /\ UNCHANGED <<sent, half, peer, rx, diskVars, cached, rbuf, wbuf, handlerVars, shared>>

\* Variant: the write buffer is not cleared.
SendDoneKeeps ==
  /\ pc = "send" /\ wrote = Len(wbuf)
  /\ wrote' = 0
  /\ Goto(IF finish THEN "deleted" ELSE "parse")
  /\ UNCHANGED <<clientVars, diskVars, cached, rbuf, wbuf, req, length, body, finish, replies, shared>>

\* Variant: the position in the buffer outlives its content.
SendDoneStale ==
  /\ pc = "send" /\ wrote = Len(wbuf)
  /\ wbuf' = <<>>
  /\ Goto(IF finish THEN "deleted" ELSE "parse")
  /\ UNCHANGED <<clientVars, diskVars, cached, rbuf, wrote, req, length, body, finish, replies, shared>>

\* The buffer is cleared; then the next request, or DeleteConnection.
SendDone ==
  /\ pc = "send" /\ wrote = Len(wbuf)
  /\ wbuf' = <<>> /\ wrote' = 0
  /\ Goto(IF finish THEN "deleted" ELSE "parse")
  /\ UNCHANGED <<clientVars, diskVars, cached, rbuf, req, length, body, finish, replies, shared>>

\* send() fails: the rest of the response is dropped and the loop goes on.
SendFails ==
  /\ pc = "send" /\ wrote < Len(wbuf) /\ peer = "reset"
  /\ wbuf' = <<>> /\ wrote' = 0
  /\ Goto(IF finish THEN "deleted" ELSE "parse")
  /\ UNCHANGED <<clientVars, diskVars, cached, rbuf, req, length, body, finish, replies, shared>>

\* An EPIPE comes with SIGPIPE, which nobody handles: the process ends.
Sigpipe ==
  /\ pc = "send" /\ wrote < Len(wbuf) /\ peer = "reset"
  /\ Goto("abort")
  /\ UNCHANGED <<clientVars, diskVars, cached, connVars, req, length, body, finish, replies, shared>>

-----------------------------------------------------------------------------
Environment ==
  \/ \E t \in Texts : ClientSend(t)
  \/ ClientSendRest \/ ClientFin \/ ClientReset
  \/ \E p \in Paths \ CgiFolder : OtherReactor(p)
  \/ \E p \in Paths : \E entry \in Disk[p] : Edit(p, entry)

Static ==
  \/ StaticMissing \/ StaticFound \/ ResponseHead \/ TryLoad \/ LoadSize \/ LoadRead
  \/ TryInsert \/ StaticRespond

CgiStep ==
  \/ CgiMissing \/ CgiOpen \/ CgiOpenFails \/ Fork \/ ForkFails \/ ChildRuns
  \/ WaitFails \/ Harvest

Handler ==
  \/ Start \/ Recv \/ RecvExit \/ RecvAgain
  \/ NextRequest \/ Return \/ Refuse \/ Static \/ CgiStep \/ Abort
  \/ Send \/ SendDone \/ SendFails \/ Sigpipe

Next == Environment \/ Handler

Spec == Init /\ [][Next]_vars

-----------------------------------------------------------------------------
(* Properties.                                                             *)

Labels == {"poll", "recv", "parse", "invalid", "static", "head", "load", "size", "read",
           "insert", "body", "cgi", "fork", "child", "wait", "send", "deleted", "abort"}
Bytes == {"head", "file", "zero", "error", "out"} \X Nat
Pieces == [of : 1..MaxSent, last : BOOLEAN]

\* Every variable stays in the range of its C++ counterpart; what is in the
\* buffers is made of request pieces and response bytes.
TypeOK ==
  /\ sent \in Seq(Texts) /\ half \in BOOLEAN /\ peer \in {"open", "fin", "reset"}
  /\ rx \in Seq(Pieces) /\ rbuf \in Seq(Pieces)
  /\ got \in Seq(Bytes) /\ wbuf \in Seq(Bytes) /\ body \in Seq(Bytes)
  /\ wrote \in 0..Len(wbuf)
  /\ \A p \in Paths : file[p] \in Disk[p]
  /\ edits \in 0..MaxEdits
  /\ \A p \in Paths : cached[p] = NoFile \/ cached[p][2] \in Seq(Bytes)
  /\ pc \in Labels
  /\ req \in 0..Len(sent)
  /\ length \in Nat
  /\ shared = NoFile \/ shared[2] \in Seq(Bytes)
  /\ finish \in BOOLEAN
  /\ Len(replies) <= Len(sent)

\* What the handler has written altogether.
Stream == FlattenSeq([k \in DOMAIN replies |-> <<<<"head", k>>>> \o replies[k].body])

\* The k-th response is the one to the k-th request, however the requests
\* were cut and bunched on their way into read_buffer_; and through partial
\* sends the client gets the responses byte for byte, none twice, none mixed.
ResponsesInOrder ==
  /\ \A k \in DOMAIN replies : replies[k].of = k
  /\ IsPrefix(got, Stream)
  /\ peer # "reset" => got \o SubSeq(wbuf, wrote + 1, Len(wbuf)) = Stream

\* When the callback has returned, every request that has been received to
\* its end is answered: edge triggering gives no second chance to look.
NothingSkipped ==
  pc = "poll" /\ peer # "reset" =>
    Len(replies) + Cardinality({i \in DOMAIN rx : rx[i].last})
      = Len(sent) - (IF half THEN 1 ELSE 0)

\* The last response announced the end of the connection.
Closing == replies # <<>> /\ replies[Len(replies)].head.close

\* The Connection header tells the truth: nothing follows a response that
\* says Close, and the server closes only after one, or when the client left.
CloseHonest ==
  /\ \A k \in DOMAIN replies : replies[k].head.close => k = Len(replies)
  /\ pc = "deleted" => peer # "open" \/ Closing

\* The part of the inductive invariant behind CloseHonest: a response that
\* says Close is the last one, and the thread that wrote it goes straight
\* from Send to the deletion.
CloseInv ==
  /\ \A k \in DOMAIN replies : replies[k].head.close => k = Len(replies)
  /\ Closing => pc \in {"send", "deleted", "abort"}
  /\ pc = "send" => finish = Closing
  /\ pc = "deleted" => peer # "open" \/ Closing

\* A request for a file, or for a name with nothing under it, is answered:
\* what ends the process is a change of the files during the run, a client
\* that resets its connection (SIGPIPE), or a request for a name that is
\* neither (a directory, a file that does not open, a name stat() refuses),
\* for which the noexcept helpers throw.
AbortsOnlyOnChange ==
  pc = "abort" =>
    edits # 0 \/ peer = "reset" \/ file[url].kind \in {"directory", "locked", "error"}

\* The part of the inductive invariant behind AbortsOnlyOnChange: while no
\* file has been changed, one whose existence was checked is still there.
AbortInv ==
  /\ AbortsOnlyOnChange
  /\ pc \in {"static", "cgi", "head", "load", "size", "read"} => req \in DOMAIN sent
  /\ pc = "abort" => peer = "reset" \/ req \in DOMAIN sent
  /\ pc \in {"head", "load", "size", "read"} /\ edits = 0 => file[url].kind # "none"

HasNoBody(k) == replies[k].of # 0 /\ sent[replies[k].of].method = "HEAD"

\* As long as no file is changed, the body of a response has the length its
\* client will read: Content-Length, and nothing after a HEAD (a CGI program
\* asked with HEAD is answered with its output all the same).
FramedUnlessEdited ==
  edits = 0 =>
    \A k \in DOMAIN replies :
      LET reply == replies[k] IN
      \/ Len(reply.body) = IF HasNoBody(k) THEN 0 ELSE reply.head.length
      \/ HasNoBody(k) /\ IsCGIRequest(ResourceUrl(reply.of))

\* A CGI answer holds the output of the request's own child only, although
\* all requests of a thread use one file opened for appending; an earlier
\* request whose waitpid() failed has left its output behind.
OwnOutput ==
  \A k \in DOMAIN replies : \A i \in DOMAIN replies[k].body :
    LET byte == replies[k].body[i] IN
    byte[1] = "out" =>
      byte[2] = replies[k].of \/ replies[byte[2]].body = WaitError
=============================================================================
