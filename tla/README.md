# A TLA+ verification of the dytech http server

The repository is a small C++20 HTTP/1.1 server: a reactor-per-thread core (`src/src/core`), HTTP
text handling and CGI (`src/src/http`), an asynchronous logger (`src/src/log`) and the server
program (`src/demo/http-server`). This directory models its concurrent core, checks the models with
TLC and proves the main safety properties with TLAPS. Paths below are relative to the directory that
holds both `src/` and `tla/`.

## 1. Inventory

| Component | State | Operations | Interacts with | What makes it correct | Module |
|---|---|---|---|---|---|
| Looper, Poller | `connections_`, `mtx_`, epoll instance, ready vector | `StartLoop`, `Poll`, `AddConnection`, `DeleteConnection` | Acceptor (adds from another thread), handler (deletes), kernel | no dangling pointer, no leak, no lost edge | `Reactor`, `ServerLifecycle` (set-up, errors, destruction) |
| Acceptor, DistributionAgent | the listening connection, the candidates | the accept callback, `SelectCandidate` | Looper, Socket | every accepted client is owned by one reactor; a full descriptor table loses nobody | `Reactor`, `ServerLifecycle` |
| Connection, Socket | descriptor, owner looper, read and write buffer | `Receive`, `Send`, `Start`, destructor | handler, kernel | reads until EAGAIN, answers on its own socket, sends each byte once | `Reactor`, `HttpSession`, `ServerLifecycle` (the listening socket) |
| Request handler | none beside the connection | `ProcessHttpRequest` | Connection, Looper, Cache, CGIRunner | every request is answered in order or the connection closed; headers tell the truth | `Reactor`, `HttpSession` |
| CGIRunner | a file per thread, a child process | `ParseCGIRunner`, `Run` | fork, execve, waitpid | children do not disturb the parent; an answer is its own output | `Reactor` (processes, descriptors), `HttpSession` (result file, failures), `HttpText` (command line) |
| ThreadPool | task queue, mutex, condition variable, `stop_` | `SubmitTask`, worker loop, destructor | Server | every accepted task runs once; the destructor ends | `ThreadPool` |
| Cache | doubly linked list, map, counter, shared mutex | `TryLoad`, `TryInsert`, `Clear` | handler, on every reactor thread | an LRU cache within its capacity | `LRUCache`, `Cache` |
| Logger | queue, mutex, condition variable, `last_flush_`, the log file | `LogMsg`/`PushLog`, `LogWriting`, `StreamWriter` | everybody | nothing lost or reordered; flushed in the end; only the opening of a new process shortens the file | `Logger` |
| Server | the above | constructor, `OnAccept`, `OnHandle`, `Begin`, destructor | pool, acceptor, loopers | one running loop per looper; loopers outlive loops | `ServerLifecycle`, on top of `ThreadPool` |
| Buffer, Request, Response, Header, http_utils | byte and text values | parsing, formatting, file access | handler | the parser decides what it says it decides; headers and arguments arrive as sent | `HttpText` (lexemes), `HttpSession` (what they decide) |
| NetAddress, base, vendored NoDestructor | none | wrappers | | | not modelled |

The hard behaviours: the listener thread and a reactor share a Looper and an epoll instance;
descriptors are numbers that the kernel reuses at once; client sockets are edge triggered; raw
pointers go through the kernel and come back later; CGI children inherit descriptors; condition
variables wake up late, spuriously or not at all; the cache mutates a list under a shared lock; the
loops start while the constructor is still running, and an exception can unwind it at any point. The
list with lines is under `hazards` in `PROJECT.json`.

## 2. Modules

| Module | Models |
|---|---|
| `Reactor` | listener, reactors, connections, and the kernel objects they share |
| `Reactor_proofs` | seven theorems about it |
| `HttpSession`, `HttpSession_proofs` | one client from request bytes to response bytes, and seven theorems |
| `HttpText`, `HttpText_proofs` | the text of one request: parsing, CGI command line, Content-Type, and five theorems |
| `ThreadPool`, `ThreadPool_proofs` | the pool and four theorems |
| `ServerLifecycle`, `ServerLifecycle_proofs` | `Server` from construction to destruction, composed with `ThreadPool`, and three theorems |
| `CacheParameters` | the constants of the next two |
| `LRUCache`, `LRUCache_proofs` | what the cache promises, and three theorems |
| `Cache`, `Cache_proofs` | the cache as written, its refinement mapping to `LRUCache`, and four theorems |
| `Logger`, `Logger_proofs` | the logger and three theorems |
| `MC*` | model values, sizes and symmetry for TLC |

Definitions named *Variant* in their comment are plausible bugs; they are used to see that a property
notices them, and no specification contains them.

### Reactor

A value of `Conns` is a client, the open file description of its socket and the `Connection` object
at once, since each client gets exactly one of them. `file` is the process's descriptor table,
`connFd` the number stored in the object: keeping them apart is what makes descriptor reuse visible.
`obj` says whether the object exists, is alive or has been freed.

- *Clients and kernel (external).* `Connect`, `ClientSend` and `ClientLeave` are the environment.
  `Signal` is the edge: arriving input puts a registered description on the ready list. `Forget`
  states when a registration ends: when no process refers to the description any more, which is
  later than `close()` if a forked child holds a copy.
- *Listener.* `Accept` is the callback of `Acceptor::SetOnAccept` up to `SetLooper`; `AddLock`,
  `EpollAdd` and `Insert` are `Looper::AddConnection` with the steps another thread can see between
  (epoll is visible to the reactor before the map is).
- *Reactor.* `Poll` is `Poller::Poll`: at most `PollSize` events, stale entries dropped. `Start`,
  `Recv`, `RecvExit`, `RecvAgain`, `Serve`, `RefuseCgi`, `Return` follow `ProcessHttpRequest`;
  `Fork`, `Exec`, `Reap` are the parent and the child of `CGIRunner::Run`.
- *Deletion.* `DeleteLock`, `Erase`, `Close`, `DeleteUnlock` are `Looper::DeleteConnection`, with the
  unlinking of the map node and the `close()` in the destructor as separate steps.

Abstractions: a request is a whole request (`HttpSession` has the framing); queues are sets where the
order does not matter to the code; the choice of the reactor is arbitrary (`SelectCandidate` is
random); a failing `accept4`, which changes nothing here, is a step of `ServerLifecycle` only. What happens after `Start` on a
freed object is undefined behaviour and outside the model: `Start` requires a live object and
`NoDanglingPointer` reports the state before it. `Send` returns (see Fairness).

### HttpSession

The handler of one client, with everything `Reactor` leaves out. A request arrives in two pieces and
`recv` may return at any point; `FindAndPopTill` takes what stands before the first end. A text is a
record of what the parser tells apart: number of words in the request line, method, version, path,
and headers with their number of colon-separated parts. A sent byte is a pair of origin and number,
so that repeated, mixed or foreign bytes can be told from the right ones; a response head is one
byte. `Disk` says what may be under a name (`Kinds`): nothing, a regular file, known by its size and
perhaps empty or not readable, a directory, or a name that `stat` fails on (too long, below a closed
directory).

- *Environment (external).* The client sends, half-closes (`ClientFin`) or resets; `Edit` changes or
  removes a file; `OtherReactor` is another thread running the same handler on the shared cache.
- *Request loop.* `Start`, `Recv`, `RecvExit`, `RecvAgain`, `NextRequest`, `Return`, `Refuse`, and
  `Respond`, which is `Serialize`, the append of the body and `Write`.
- *Static resources.* `StaticMissing`, `StaticFound`, `ResponseHead` (the size for Content-Length),
  `TryLoad`, `LoadSize`, `LoadRead`, `TryInsert`, `StaticRespond`: one action per look at the disk or
  the cache. `Abort` is the end of the process in one of the noexcept functions: `exists` throws when
  `stat` fails, `file_size` throws for what is not a regular file, be it a directory or a file that has
  gone, and in a debug build the assertion in `LoadFile` fails for a file that does not open. A release
  build, which `src/README.md:75` asks for, goes on with a body of zeros; both are steps.
- *CGI.* `CgiOpen`, `Fork`, `ChildRuns`, `Harvest` and a failing variant of each call that the code
  tests. The 400 branch of `HandleCGIRequest` cannot be reached: `ParseCGIRunner` is only called for
  urls for which it is valid.
- *Send.* `Send` is one successful `send()`; EAGAIN changes nothing. After a reset `send()` fails: the
  rest is dropped and the loop goes on (`SendFails`), or the signal that comes with EPIPE ends the
  process (`Sigpipe`), since nothing in the program handles it.

The deletion of the connection is one step, `pc = "deleted"`.

### HttpText

One request, as text. A text is a sequence of lexemes: the delimiters that the code searches for
(blank, colon, CRLF, slash, dot, `&`, `cgi-bin`) and words that stand for what is between them; that
is what `Split`, `find` and `Trim` tell apart. `Lexemes` and `Upper`, what `ToUpper` makes of a lexeme,
are constants; the default route `index.html` and the version `HTTP/1.1` are several lexemes, since a
dot or a slash in them is one like any other. `SplitLines`, `ParseRequestLine` and `ReadHeader` are
the constructor of `Request`, `ChooseHandler` the branch in `ProcessHttpRequest`, `ParseCGIRunner`
and `ContentType` what the two handlers do with the url. `size_t` has the width `SizeMax + 1`, so that
`npos + 1` is 0 as in the code. The string operators are recursive functions, not RECURSIVE operators.

`Trim` is modelled as it is written, which is not as it is documented: "Remove the leading and trailing
specified delimiter" (`src/src/http/http_utils.h:39`). It builds its result with `substr(...).data()`,
which loses the length, so trailing delimiters stay (`http_utils.cc:135`): a request with
`Connection: Keep-Alive` and a blank behind it is answered and then closed. The code and the comment agree
on lines without a blank behind a name or a value (`BlankBehind`), and `KeptExactly` is about requests
with only such lines. (`data()` also ends a word at a NUL, which no lexeme contains.) A url of
a CGI program without a separator yields the whole path as the program and once more as its argument
(`cgi_runner.cc:76`); `CgiCommandLine` says so.

### ServerLifecycle

The thread that constructs the `Server` is `Owner` of `ThreadPool`; a task is the `StartLoop` of the
looper with the same number. The module extends `ThreadPool` and uses its actions for the pool.

- *Constructor.* `StartReactor` is one iteration of the loop: `emplace_back`, which moves the elements
  to a new `storage` when nothing is reserved, the reference that the task captures, and
  `SubmitTask`. `CreateSocket`, `Bind`, `Listen` and `AddAcceptor` are the `Acceptor`, `SetUpFails` its
  exceptions.
- *Serving.* `OnHandle`, `Begin`; `ListenerPoll`, `AcceptClient`, `AcceptFails` and
  `SetNonBlockingFails` are a round of the listener. The listening socket is level triggered
  (`Rearmed`). `Ask` is the environment: a client with a connection sends requests or leaves; one that
  does neither stays `"open"`, and so keeps its descriptor, since the code has no timeout. `Handle` is a
  whole client callback (`ProcessHttpRequest`): it deletes the connection of a client that has left, and
  after requests keeps the connection, so that the client may ask again, or deletes it. `HandlerThrows`
  ends the loop, silently, since the packaged task keeps the exception.
- *Errors and destruction.* `EpollFails` is `std::exit` in the three functions of `Poller`. `Raise` is an exception: whether
  somebody catches it, and so unwinds the `Server`, is left open. `DestroyPool`, `JoiningPool` and
  `DestroyRest` are the members in the reverse order of their declaration. A client descriptor is
  counted (`MaxFds`), not named; `Reactor` has the descriptors.

### ThreadPool

One action per step of `SubmitTask`, of the worker loop and of the destructor that another thread
can tell apart. `Check` evaluates the wait predicate under the mutex and `Sleep` blocks: between the
two a thread that does not take the mutex, the destructor, can slip in. `Spawn` lets tasks submit
tasks, `Endless` are tasks like `Looper::StartLoop`. `Finish` covers an exception too, which the
packaged task keeps in its future; `ServerLifecycle` uses it for that.

### LRUCache and Cache

`LRUCache` has a sequence of keys, their contents, a counter and the insertion under way. `Cache`
has `next`/`prev` pointers, the map's keys, the unsigned counter (modulo `Word`) and the
shared_mutex. `TryLoad` holds the shared lock only, so each of its pointer writes is an action;
`TryInsert` is alone, so a loop iteration is one. `Cache!LRU` is the refinement mapping: the order is
the chain of `next` pointers with a node in motion counted as most recently used. `last_access_` is
written and never read, and is left out.

### Logger

Time is one Boolean, `due`: more than `kRefreshThresholdDuration` has passed since `last_flush_`.
The logger is never destroyed (`NoDestructor`), so `done_` stays false: the process ends at an
arbitrary point (`Restart`) with whatever is queued, and starts again on the same day, with the same
file name. `left` is what the file holds of the earlier process, `written` what it has of this one,
`buffered` what the stream holds back. The first batch constructs the static `StreamWriter`, which opens
the file with `trunc` and empties it (`Open`); `Output` puts the batch into the stream, which may spill
any part of it into the file, and `Flush` the rest. The process can be stopped between any two of these
steps. Messages are named by their producers, which makes order between producers visible; a message of
which only a part is in the file counts as buffered.

## 3. Runs

| Run | Shows | Bounds |
|---|---|---|
| `reactor_reuse` | `NoStrandedInput`, `DeleteFindsConnection`, `InsertFindsFreeSlot`, `DescriptorsOwned`, `AnswerOnOwnSocket` with forked children | 3 clients on 2 descriptors, so every third connection reuses one; one of the two requests is CGI |
| `reactor_live` | `NoDanglingPointer` without CGI, `EveryRequestAnswered`, `DepartedReleased` | 2 clients with 2 requests each on one reactor and `PollSize` 1, so that input arrives while a callback runs and one ready connection waits for the next poll |
| `reactor_cgi_dangling` | **violation** of `NoDanglingPointer` | 2 clients, 2 reactors, a CGI and a closing request |
| `http_session` | `ResponsesInOrder`, `NothingSkipped`, `CloseHonest`, `FramedUnlessEdited`, `OwnOutput`, `AbortsOnlyOnChange` | 2 requests out of 7 texts, 6 states of a page and 4 of a program (absent, file, not readable, directory, not to be examined), 1 change |
| `thread_pool` | order, completeness at join, sufficiency of wakeups, `EveryTaskStarts` | 2 workers, 3 tasks: one submitted by another, one that never returns |
| `thread_pool_dtor` | **violation** of `DtorReturns` | 2 workers, 1 task |
| `cache` | `LinksMirror`, `EvictFindsVictim`; the pointer code implements `LRUCache` | 4 keys, contents of 0, 1, 2 and 5 bytes, capacity 4, 2 inserting threads of which 1 also looks up, 5-bit `size_t` |
| `cache_two_loaders` | **violation** of `EvictFindsVictim` | 3 keys, 2 looking-up threads |
| `logger` | `NothingLost`, `ThresholdFlushed`, `FlushedStays` | 2 producers, 4 messages per process, threshold 1, any number of restarts |
| `logger_periodic` | **violation** of `PeriodicFlush` | 2 producers, 2 messages |
| `server_lifecycle` | `ReferencesHold`, `LoopersOutliveLoops`, `BacklogDrained`, `AcceptedServed` | 2 workers, 3 clients on 2 descriptors, so that one waits in the backlog; clients ask any number of times |
| `http_text` | `ValidExactly`, `HeadersReadBack`, `KeptExactly`, `CgiCommandLine`, `TypedByExtension` | every first line of up to 6 parts out of 4, every header of up to 5 out of 4, every url of up to 5 out of 5 |

Every bound is a constant: `MaxRequests`, `MaxSent`, `MaxEdits` and `MaxLogs` cap what the
environment does, `MaxFds` is the descriptor limit, the others are sizes of sets. Two reactors and two clients are enough for every pair of actors to meet: the
listener with a reactor, and a reactor with another one's child; a third client is needed for reuse
while two are open. The safety properties are proved without these bounds (section 5). Symmetry
under permutation of clients, reactors and descriptors is used in the runs that check invariants and
action properties, and in none with a liveness property.

In `http_session` two requests are enough for one to be left behind in the buffer, to follow a response
that should have been the last, or to find the result file of another; one change to a file lets it
differ between any two looks at it. In `http_text` six parts (the version is one of
them) hold a valid request line with one part too many, and five lexemes a header or url with every delimiter in the wrong place once.

Some properties carry a condition because the code does not do more. `FramedUnlessEdited`: when
a file changes after it was cached, Content-Length is the new size and the body the old content, and
a CGI program asked with HEAD is answered with a body. `OwnOutput`: after a failing `waitpid()` the
result file stays, and the next answer of that thread starts with it. `AbortsOnlyOnChange`: a request for
a directory, for a file that does not open or for a name that `stat` fails on ends the process by itself,
through an exception in a noexcept function; without these only a change of a file under way, or a reset,
does. `AcceptedServed`: only while no callback has thrown, because the agent goes on choosing a looper
whose loop has ended. `BacklogDrained`: only if a descriptor is free again and again. Clients that keep
their connections and send nothing can hold all descriptors for ever, and then those in the backlog wait
for ever. `FlushedStays`: the step in which a process opens the file removes the log of earlier processes
of the same day, and a stop before the first flush leaves nothing at all. `KeptExactly`: see HttpText. `LoopersOutliveLoops` does not say that destruction ends: no loop returns unless
its callback throws, so `~Server`, and the unwinding after a failing `bind`, wait for ever.

Deadlock is not checked where stopping is legitimate: a server with no input left waits in
`epoll_wait`, a pool that has been joined is finished, a request that has been parsed is done, a
process that has exited stays so. It is checked in `cache`, where a call can always begin.

### What the violations show

- `reactor_cgi_dangling`: a reactor forks a CGI program; before the child reaches `execve`, another
  reactor deletes a connection. The child's copy keeps the description, and so its epoll
  registration, alive; a further event of that client yields the pointer of the freed `Connection`.
  All client sockets are `SOCK_CLOEXEC`, so the window ends at `execve`.
- `thread_pool_dtor`: `stop_` is set and notified between a worker's predicate and its block. The
  worker sleeps for ever, and so does `join()`.
- `cache_two_loaders`: two `TryLoad` calls interleave `Detach` and `AppendToListTail`. Afterwards
  the list does not hold what the map holds, and the assertion in the eviction loop fails. The
  run `cache` shows that one lookup at a time is safe.
- `logger_periodic`: a message pushed before a flush is due does not notify, and nothing wakes the
  writer later.

## 4. Fairness

- `Reactor!Fairness`: weak fairness of the listener and of each reactor thread. Threads are
  scheduled by the kernel; each action other than waiting for a mutex is enabled until taken, and a
  Looper's mutex is only contended by the listener and one reactor, each of which holds it for a few
  steps. It contains two assumptions on the outside: a CGI program ends (`waitpid` has no timeout)
  and a client reads its response (`Connection::Send` retries for ever). Clients owe nothing.
- `ThreadPool!Fairness`, `Logger!Fairness`: weak fairness of each thread, and strong fairness of
  taking a mutex that is free again and again. No spurious wakeup is promised. `DestroySpec` adds
  that the owner gets to destroy the pool. For the logger, time passes; no restart is owed.
- `ServerLifecycle!ServerFairness`: the same for the workers and the thread of the `Server`, and weak
  fairness of each running loop towards each client: the loop polls again and again, the kernel reports
  its ready connections in turn and the loop handles all that are reported (`reactor_live` has this in
  detail). No call has to fail; nobody has to connect, to send anything, to leave, to call `OnHandle` or
  `Begin`. A client callback returns (see above).

## 5. Proofs

All theorems hold for every value of the constants that satisfies the named assumptions
(`ReactorAssumption`, `SessionAssumption`, `ThreadPoolAssumption`, `ServerAssumption`,
`LRUAssumption`, `CacheAssumption`, `LoggerAssumption`, `TextAssumption`); TLC evaluates them in the
runs. Three of the assumptions carry a proof and come from the code: a pool has finitely many workers
(`IsFiniteSet(Workers)`, a vector of threads), `capacity_` is a `size_t` (`Capacity < Word`), and no
text is as long as `npos` (a `std::string` is shorter), so that a position found is never taken for
"not found".

**Reactor.** `IndInv` is inductive. Beside `TypeOK` and `DescriptorsOwned` it says: every pointer in
an epoll instance, ready list or batch of `r` belongs to `r` (`PointersOwned`); the connection being
handed over is alive, known to nobody before registration, and the listener holds the lock from
registration to insertion (`HandingOver`); a reactor in a callback works on a live connection of its
own and holds the lock while it deletes (`Handling`); a map entry is alive, has the right descriptor
and is nobody else's (`EntriesLive`). Two lemmas do the work: `FreeSlot` (a new descriptor's slot is
empty, because an entry's connection would own the same descriptor) and `OwnEntry` (a reactor that
holds the lock finds its own entry, because the only other keeper, the listener, would hold the
lock). From these: `TypeCorrect`, `DescriptorSafety`, `DeletionSafety`, `InsertionSafety`,
`AnswerSafety`. `PointerSafety` needs in addition that no request is CGI (`Cgi = {}`); then a
registration ends with its connection (`PointersLive`). The violation run shows that the proviso
cannot be dropped. `InputSafety` proves `NoStrandedInput` inductive relative to `IndInv`, CGI
included.

**HttpSession.** Every invariant the run checks is proved.
- `CloseSafety` proves `CloseHonest`. On its own it is not inductive: it needs that between a response
  that says Close and the deletion the thread is in `Send` with `finish` equal to what the header said
  (`CloseInv`). Every path that builds a response is brought under one lemma, `RespondStep`, whose
  hypothesis is that header and return value of the handler agree.
- `AbortSafety` proves `AbortsOnlyOnChange` through `AbortInv`: while nothing has been changed, what was
  found under a name is there at each later look, so that an end of the process without a change or a
  reset is due to what is under the name.
- `TypeCorrect` rests on `TInv`, which types the response history too, and on `FInv`.
- `NoRequestSkipped` proves `NothingSkipped` through `FInv`: the pieces in the read buffer and then in
  the receive queue are those behind the last request taken, numbered without a gap, and the number of
  requests taken is that of the responses, or one more while one is handled.
- `OutputSafety` proves `OwnOutput` through `OInv`, which follows program output through the shared
  result file: it is nowhere but there and in responses, and all of it is of the request in progress
  or of one whose `waitpid()` failed.
- `FramingSafety` proves `FramedUnlessEdited` through `KInv`: while no file has been edited, length,
  size and content that the handler looks up one after the other agree (`Fits`).
- `ResponseSafety` proves `ResponsesInOrder` through `WInv`: what the client has and what `Send` has
  still to write are together the concatenation of the responses. What `FlattenSeq` does with one more
  response (`Joins` and the lemmas behind it) is an induction, see below.

**ThreadPool.** `IndInv` adds to `TypeOK` and `FifoOnce` that each started task has returned or is in
a worker's hands (`Accounted`) and that a worker exits only from a stopped pool with an empty queue
(`Stages`), which stays empty because `SubmitTask` tests `stop_` under the lock. Theorems
`TypeCorrect`, `QueueSafety`, `JoinSafety`. `WakeupSafety` proves `WakeupsSuffice`, no lost wake-up, by
counting: `LockInv` says that the queue is still empty when a worker that found it so goes to sleep,
because it holds the mutex from the test to the wait.

**ServerLifecycle.** Every step is one of `ThreadPool` or leaves its variables alone (lemma
`PoolRefinement`, by construction), so that the pool's invariant and theorems carry over. On top of it
`StartInv` says which tasks have been handed to the pool (those of the loopers made, each once), that
the vector is never longer than what was reserved, so all references point into its one allocation,
and that `reactors_` is freed only after the join. `ReferenceSafety` and `DestructionSafety` follow; the
second uses `JoinSafety`. `ServerTypeSafety` types the Server's own variables (`OwnTypes`).

**LRUCache.** `OccupancySafety` counts the bytes held as a finite set of pairs, so that an eviction
removes, and an insertion adds, a set of known cardinality; `OrderSafety` shows list and map in
agreement.

**Cache.** `Refinement` proves `ImplementsLRU`: every pointer write, lock and unlock is a step of
`LRUCache` or leaves its variables alone. The theorems have the hypothesis `OneLoader`, one thread at
most calls `TryLoad`; the run `cache_two_loaders` shows that two break the list, because `TryLoad`
relinks under the shared lock. The invariant has four parts. `CallInv` types everything and makes
`mapping_` the keys that hold data. `Alone`: the locks tell who is inside, and with one loader nobody is
there together with another. `ListInv`: there is a row of nodes from `head_` to `tail_` along which
`next_` and `prev_` run, or a thread is between two of the five pointer writes that move a node, each
with exactly one link out of place (`Moves`). The fourth part is the invariant of `LRUCache_proofs`
taken through the refinement mapping: the counter is within the capacity, so the unsigned sums and
differences in `TryInsert` are the plain ones, which the step correspondence needs. The mapping reads
the list off the `next_` pointers (`ChainOf`, a recursive function); `ChainIs` shows that it yields the
row. `EvictSafety`, `MirrorSafety` and `TypeCorrect` follow from the same invariant.

**Logger.** `LogSafety`: the invariant is `NothingLost` with the fact, in `TypeOK`, that the writer's
local queue is empty when it swaps, and `SplitAfter`, that a batch cut anywhere between file and stream is
still the batch. `FileSafety` proves `FlushedStays` through `OneProcess`: a process that has opened the
file has left nothing of others in it, and one that has not has put nothing into it, so that no step but
the opening can shorten the file.

**HttpText.** The five properties are proved for every request: any lexemes, any length, any number of
headers. `HInv` says for each place in the parser what has been read and what is left: before the first
line everything has its default; between two headers the first n lines have been read, each a good one,
and `close` says whether one of them was a `KeepAliveLine` (`Read`); a refused request is not
`Acceptable`; behind the choice of the handler all is read. That an action keeps it comes down to what
the string functions compute:
- `SplitGoodAll`: `Join` puts back what `Split` took apart, but for a delimiter at the end; an induction
  over the length of the text, from one delimiter to the next (`SplitFirst`, `SplitFree`). `SplitLined`
  does the same for the lines of a request.
- `LineRead`: `ParseRequestLine` goes on exactly for a `GoodLine`. Three tokens are three words with a
  blank between them (`WordsSplit`, `WordsRead`), and `ToUpper` is undone part by part (`UpperParts`).
- `HeaderRead`, `KeepLine`: what `Header` and `ScanHeader` make of one line, from its first colon.
- `CommandRead`: the argument vector, with and without a separator; `SizeWraps` is the sum
  `npos + 1` of `size_t`.
- `MimeRead`: the last dot is the only one that can begin what `TypedByExtension` looks for.

`TextAssumption` says of the lexemes what the characters of the code have: case does not turn anything
into, or out of, a blank, a colon or a dot; and of a request that its lines are lines.

**Induction.** The library's induction rules take a predicate as a parameter, which the provers cannot
instantiate. `SetInduction` states induction for a set instead: a set that has 0 and with every number
its successor has every natural number; it follows from the well-foundedness of `<` on the naturals
(`NatLessThanWellFounded`, `WFMin`). That a recursive function is the only one that satisfies its
equation (`WalkUnique`, `JoinsUnique`) is then an induction over the set of arguments at which two
such functions agree.

Only model-checked: all liveness (`EveryRequestAnswered`, `DepartedReleased`, `EveryTaskStarts`,
`ThresholdFlushed`, `BacklogDrained`, `AcceptedServed`; the prover does not do fairness).

## 6. Not modelled

The characters within a word and the wording of responses and log lines;
`Connection`, `Buffer`, `Socket` and `Response` members that the server never calls (`ConnectToServer`,
`PushFront`, `Make503Response`, the stream operators); `Looper::Exit`, which nobody calls; the command
line options of `main`; freeing the argument vector; errors of the log stream, which the code ignores;
NetAddress, a stateless wrapper of `inet_pton` and `inet_ntop`, and the base utilities. `PROJECT.json`
lists each with its reason.

## 7. Plan

Link `HttpSession` to `Reactor` (its request-level view as a refinement), to `LRUCache` (the cache is
a set of contents there, without order) and to `HttpText` (its records as what the text yields).
