------------------------------- MODULE Cache -------------------------------
(***************************************************************************)
(* Cache as it is written: a doubly linked list threaded through the       *)
(* CacheNodes, the map, the occupancy counter and a shared_mutex.  TryLoad *)
(* relinks the node it finds under the SHARED lock, one pointer write      *)
(* after the other; TryInsert works under the unique lock, so its pointer  *)
(* writes are grouped per loop iteration.  A key names its node.           *)
(***************************************************************************)
EXTENDS CacheParameters

CONSTANTS
  Threads,
  Loaders,   \* the threads that call TryLoad
  Word,      \* 2^w, w the width of size_t
  Head_, Tail_   \* head_ and tail_, the sentinels

ASSUME CacheAssumption ==
  /\ Loaders \subseteq Threads
  /\ Word \in Nat /\ Capacity < Word
  /\ Nil \notin Keys \cup Contents \cup Threads \cup {Head_, Tail_}
  /\ Head_ # Tail_ /\ {Head_, Tail_} \cap Keys = {}

Nodes == Keys \cup {Head_, Tail_}

VARIABLES
  next, prev,  \* next_ and prev_ of every node
  mapping,     \* the keys of mapping_
  data,        \* data[k]: data_ of k's node
  occupancy,   \* occupancy_
  readers,     \* holders of the shared lock
  writer,      \* holder of the unique lock
  pc, key, item,  \* per thread: control point and arguments
  nodePrev     \* nodePrev[t]: the local node_prev of AppendToListTail

listVars == <<next, prev>>
mapVars  == <<mapping, data, occupancy>>
lockVars == <<readers, writer>>
callVars == <<pc, key, item, nodePrev>>
vars == <<listVars, mapVars, lockVars, callVars>>

Empty(list) == [n \in Nodes |-> IF n = Head_ /\ list = "next" THEN Tail_
                                ELSE IF n = Tail_ /\ list = "prev" THEN Head_ ELSE Nil]

Init ==
  /\ next = Empty("next") /\ prev = Empty("prev")
  /\ mapping = {} /\ data = [k \in Keys |-> Nil] /\ occupancy = 0
  /\ readers = {} /\ writer = Nil
  /\ pc = [t \in Threads |-> "idle"]
  /\ key = [t \in Threads |-> Nil] /\ item = [t \in Threads |-> Nil]
  /\ nodePrev = [t \in Threads |-> Nil]

Goto(t, label) == pc' = [pc EXCEPT ![t] = label]

\* The call ends and its locals are gone.
Return(t) ==
  /\ pc' = [pc EXCEPT ![t] = "idle"]
  /\ key' = [key EXCEPT ![t] = Nil]
  /\ item' = [item EXCEPT ![t] = Nil]
  /\ nodePrev' = [nodePrev EXCEPT ![t] = Nil]

-----------------------------------------------------------------------------
(* TryLoad                                                                 *)

LoadLock(t, k) ==
  /\ t \in Loaders /\ pc[t] = "idle" /\ writer = Nil
  /\ readers' = readers \cup {t}
  /\ key' = [key EXCEPT ![t] = k]
  /\ Goto(t, "find")
  /\ UNCHANGED <<listVars, mapVars, writer, item, nodePrev>>

LoadMiss(t) ==
  /\ pc[t] = "find" /\ key[t] \notin mapping
  /\ readers' = readers \ {t}
  /\ Return(t)
  /\ UNCHANGED <<listVars, mapVars, writer>>

\* The copy into the caller's buffer, then the first half of Detach: prev_->next_ = next_.
LoadHit(t) ==
  LET k == key[t] IN
  /\ pc[t] = "find" /\ k \in mapping
  /\ next' = [next EXCEPT ![prev[k]] = next[k]]
  /\ Goto(t, "detach")
  /\ UNCHANGED <<prev, mapVars, lockVars, key, item, nodePrev>>

\* The second half: next_->prev_ = prev_.
Detach(t) ==
  /\ pc[t] = "detach"
  /\ prev' = [prev EXCEPT ![next[key[t]]] = prev[key[t]]]
  /\ Goto(t, "append1")
  /\ UNCHANGED <<next, mapVars, lockVars, key, item, nodePrev>>

\* AppendToListTail: node_prev->next_, tail_->prev_, node->prev_, node->next_.
Append1(t) ==
  /\ pc[t] = "append1"
  /\ nodePrev' = [nodePrev EXCEPT ![t] = prev[Tail_]]
  /\ next' = [next EXCEPT ![prev[Tail_]] = key[t]]
  /\ Goto(t, "append2")
  /\ UNCHANGED <<prev, mapVars, lockVars, key, item>>

Append2(t) ==
  /\ pc[t] = "append2"
  /\ prev' = [prev EXCEPT ![Tail_] = key[t]]
  /\ Goto(t, "append3")
  /\ UNCHANGED <<next, mapVars, lockVars, key, item, nodePrev>>

\* Variant: the link back to node_prev is forgotten.
Append3NoLink(t) ==
  /\ pc[t] = "append3"
  /\ Goto(t, "append4")
  /\ UNCHANGED <<listVars, mapVars, lockVars, key, item, nodePrev>>

Append3(t) ==
  /\ pc[t] = "append3"
  /\ prev' = [prev EXCEPT ![key[t]] = nodePrev[t]]
  /\ Goto(t, "append4")
  /\ UNCHANGED <<next, mapVars, lockVars, key, item, nodePrev>>

Append4(t) ==
  /\ pc[t] = "append4"
  /\ next' = [next EXCEPT ![key[t]] = Tail_]
  /\ readers' = readers \ {t}
  /\ Return(t)
  /\ UNCHANGED <<prev, mapVars, writer>>

-----------------------------------------------------------------------------
(* TryInsert                                                               *)

\* Variant: the unique lock does not wait for readers.
InsertLockBarges(t, k, d) ==
  /\ pc[t] = "idle" /\ writer = Nil
  /\ writer' = t
  /\ key' = [key EXCEPT ![t] = k]
  /\ item' = [item EXCEPT ![t] = d]
  /\ Goto(t, "check")
  /\ UNCHANGED <<listVars, mapVars, readers, nodePrev>>

InsertLock(t, k, d) ==
  /\ pc[t] = "idle" /\ writer = Nil /\ readers = {}
  /\ writer' = t
  /\ key' = [key EXCEPT ![t] = k]
  /\ item' = [item EXCEPT ![t] = d]
  /\ Goto(t, "check")
  /\ UNCHANGED <<listVars, mapVars, readers, nodePrev>>

\* The key is there already, or the content can never fit.
InsertRefused(t) ==
  /\ pc[t] = "check"
  /\ key[t] \in mapping \/ Size[item[t]] > Capacity
  /\ writer' = Nil
  /\ Return(t)
  /\ UNCHANGED <<listVars, mapVars, readers>>

InsertBegin(t) ==
  /\ pc[t] = "check"
  /\ key[t] \notin mapping /\ Size[item[t]] <= Capacity
  /\ Goto(t, "insert")
  /\ UNCHANGED <<listVars, mapVars, lockVars, key, item, nodePrev>>

\* The loop condition, in unsigned arithmetic.
MustEvict(t) ==
  pc[t] = "insert" /\ mapping # {} /\ (Capacity - occupancy) % Word < Size[item[t]]

\* Variant: the evicted size is not taken off the counter.
EvictKeepsCount(t) ==
  LET first == next[Head_] IN
  /\ MustEvict(t)
  /\ first \in mapping
  /\ next' = [next EXCEPT ![prev[first]] = next[first], ![first] = Nil]
  /\ prev' = [prev EXCEPT ![next[first]] = prev[first], ![first] = Nil]
  /\ data' = [data EXCEPT ![first] = Nil]
  /\ mapping' = mapping \ {first}
  /\ UNCHANGED <<occupancy, lockVars, callVars>>

\* Variant: the most recently used resource goes.
EvictNewest(t) ==
  LET last == prev[Tail_] IN
  /\ MustEvict(t)
  /\ last \in mapping
  /\ next' = [next EXCEPT ![prev[last]] = next[last], ![last] = Nil]
  /\ prev' = [prev EXCEPT ![next[last]] = prev[last], ![last] = Nil]
  /\ data' = [data EXCEPT ![last] = Nil]
  /\ mapping' = mapping \ {last}
  /\ occupancy' = (occupancy - Size[data[last]]) % Word
  /\ UNCHANGED <<lockVars, callVars>>

\* One iteration of the eviction loop; erasing the map entry destroys the
\* node, its data and its links (Nil).  The assertion that the victim is in
\* the map aborts the program when it fails.
Evict(t) ==
  LET first == next[Head_] IN
  /\ MustEvict(t)
  /\ first \in mapping
  /\ next' = [next EXCEPT ![prev[first]] = next[first], ![first] = Nil]
  /\ prev' = [prev EXCEPT ![next[first]] = prev[first], ![first] = Nil]
  /\ data' = [data EXCEPT ![first] = Nil]
  /\ mapping' = mapping \ {first}
  /\ occupancy' = (occupancy - Size[data[first]]) % Word
  /\ UNCHANGED <<lockVars, callVars>>

\* A new node goes to the tail of the list and into the map.
Add(t) ==
  LET k == key[t]
      last == prev[Tail_]
  IN
  /\ pc[t] = "insert" /\ ~ MustEvict(t)
  /\ next' = [next EXCEPT ![last] = k, ![k] = Tail_]
  /\ prev' = [prev EXCEPT ![Tail_] = k, ![k] = last]
  /\ data' = [data EXCEPT ![k] = item[t]]
  /\ occupancy' = (occupancy + Size[item[t]]) % Word
  /\ mapping' = mapping \cup {k}
  /\ writer' = Nil
  /\ Return(t)
  /\ UNCHANGED readers

\* Clear takes no lock: its caller has to see to it that no other call is
\* under way.  Nothing in the program calls it.
Clear ==
  /\ \A t \in Threads : pc[t] = "idle"
  /\ next' = Empty("next") /\ prev' = Empty("prev")
  /\ mapping' = {} /\ data' = [k \in Keys |-> Nil]
  /\ occupancy' = 0
  /\ UNCHANGED <<lockVars, callVars>>

-----------------------------------------------------------------------------
LoadStep(t) ==
  \/ \E k \in Keys : LoadLock(t, k)
  \/ LoadMiss(t) \/ LoadHit(t) \/ Detach(t)
  \/ Append1(t) \/ Append2(t) \/ Append3(t) \/ Append4(t)

InsertStep(t) ==
  \/ \E k \in Keys, d \in Contents : InsertLock(t, k, d)
  \/ InsertRefused(t) \/ InsertBegin(t) \/ Evict(t) \/ Add(t)

Next == (\E t \in Threads : LoadStep(t) \/ InsertStep(t)) \/ Clear

Spec == Init /\ [][Next]_vars

-----------------------------------------------------------------------------
(* Properties.                                                             *)

\* Every variable keeps its type; the counter stays within the capacity.
TypeOK ==
  /\ next \in [Nodes -> Nodes \cup {Nil}] /\ prev \in [Nodes -> Nodes \cup {Nil}]
  /\ mapping \subseteq Keys /\ data \in [Keys -> Contents \cup {Nil}]
  /\ occupancy \in 0..Capacity
  /\ readers \subseteq Loaders /\ writer \in Threads \cup {Nil}

\* "it should be in the map": the node the eviction loop finds at the head of
\* the list is a cached one.
EvictFindsVictim ==
  \A t \in Threads : MustEvict(t) => next[Head_] \in mapping

\* The key a lookup has unlinked and not yet linked again at the tail.
Moving == {key[t] : t \in {u \in Threads :
                            pc[u] \in {"detach", "append1", "append2", "append3", "append4"}}}

\* The nodes that the links lead to from head_ on, up to the first in stop.
ChainOf(links, stop) ==
  LET path[i \in 0..Cardinality(Keys)] ==
        IF i = 0 THEN links[Head_]
        ELSE IF path[i - 1] \in stop THEN path[i - 1] ELSE links[path[i - 1]]
      len == CHOOSE i \in 0..Cardinality(Keys) :
               path[i] \in stop /\ \A j \in 0..(i - 1) : path[j] \notin stop
  IN  [i \in 1..len |-> path[i - 1]]

\* The list, up to tail_ or the key that is being moved ...
Chain == ChainOf(next, Moving \cup {Tail_})

\* ... with that key as the most recently used one.
Order == IF Moving = {} THEN Chain ELSE Append(Chain, CHOOSE k \in Moving : TRUE)

Inserting == {t \in Threads : pc[t] = "insert"}

\* The insertion that is past its checks.
Want == IF Inserting = {} THEN <<>>
        ELSE LET t == CHOOSE t \in Inserting : TRUE IN <<key[t], item[t]>>

LRU == INSTANCE LRUCache WITH order <- Order, want <- Want

\* With lookups that do not overlap, the pointer manipulations, the map and
\* the unsigned counter implement the LRU cache: a lookup takes effect when it
\* unlinks its node, an eviction and an insertion when they are made.  So
\* LRUCache's theorems hold of the pointer code: list and map agree, and the
\* counter is exact, which keeps the unsigned difference from wrapping around.
ImplementsLRU == LRU!Spec

\* While no node is being moved the backward links mirror the forward links
\* of the list, so Detach and AppendToListTail work on a consistent list.
LinksMirror ==
  Moving = {} =>
    LET s == <<Head_>> \o Order \o <<Tail_>> IN
    \A i \in 1..(Len(s) - 1) : next[s[i]] = s[i + 1] /\ prev[s[i + 1]] = s[i]
=============================================================================
