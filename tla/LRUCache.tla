------------------------------ MODULE LRUCache ------------------------------
(***************************************************************************)
(* What Cache promises: a least-recently-used cache of bounded size whose  *)
(* operations take effect one after the other.  An insertion that needs    *)
(* room evicts one resource at a time, oldest first, while nothing else    *)
(* happens; lookups that miss and refused insertions change nothing.       *)
(***************************************************************************)
EXTENDS CacheParameters

VARIABLES
  order,      \* cached keys, least recently used first
  data,       \* data[k]: the cached content of k, or Nil
  occupancy,  \* occupancy_
  want        \* the insertion under way: <<key, content>>, or <<>>

vars == <<order, data, occupancy, want>>

Cached == {k \in Keys : data[k] # Nil}

Init ==
  /\ order = <<>>
  /\ data = [k \in Keys |-> Nil]
  /\ occupancy = 0
  /\ want = <<>>

\* The sequence with its i-th element moved to the end.
MovedToEnd(s, i) ==
  [j \in 1..Len(s) |-> IF j < i THEN s[j] ELSE IF j < Len(s) THEN s[j + 1] ELSE s[i]]

\* A lookup that hits makes the key the most recently used one.
Load(k) ==
  /\ want = <<>>
  /\ \E i \in 1..Len(order) : order[i] = k /\ order' = MovedToEnd(order, i)
  /\ UNCHANGED <<data, occupancy, want>>

Begin(k, d) ==
  /\ want = <<>> /\ k \notin Cached /\ Size[d] <= Capacity
  /\ want' = <<k, d>>
  /\ UNCHANGED <<order, data, occupancy>>

Evict ==
  /\ want # <<>> /\ order # <<>> /\ Capacity - occupancy < Size[want[2]]
  /\ order' = Tail(order)
  /\ data' = [data EXCEPT ![Head(order)] = Nil]
  /\ occupancy' = occupancy - Size[data[Head(order)]]
  /\ UNCHANGED want

Add ==
  /\ want # <<>>
  /\ order = <<>> \/ Capacity - occupancy >= Size[want[2]]
  /\ order' = Append(order, want[1])
  /\ data' = [data EXCEPT ![want[1]] = want[2]]
  /\ occupancy' = occupancy + Size[want[2]]
  /\ want' = <<>>

Clear ==
  /\ want = <<>>
  /\ order' = <<>>
  /\ data' = [k \in Keys |-> Nil]
  /\ occupancy' = 0
  /\ UNCHANGED want

Next ==
  \/ \E k \in Keys : Load(k)
  \/ \E k \in Keys, d \in Contents : Begin(k, d)
  \/ Evict
  \/ Add
  \/ Clear

Spec == Init /\ [][Next]_vars

-----------------------------------------------------------------------------
\* The bytes held, each tagged with its key and its position.
Bytes == {b \in Keys \X (1..Capacity) : data[b[1]] # Nil /\ b[2] <= Size[data[b[1]]]}

\* Every variable keeps its type, an insertion under way is of a new key, and
\* no content is larger than the cache.
TypeOK ==
  /\ order \in Seq(Keys)
  /\ data \in [Keys -> Contents \cup {Nil}]
  /\ occupancy \in Nat
  /\ want = <<>> \/ want \in Keys \X Contents
  /\ want # <<>> => data[want[1]] = Nil /\ Size[want[2]] <= Capacity
  /\ \A k \in Cached : Size[data[k]] <= Capacity

\* The list and the map hold the same keys, each once.
OrderMatchesMap ==
  /\ \A k \in Keys : data[k] # Nil <=> \E i \in 1..Len(order) : order[i] = k
  /\ \A i, j \in 1..Len(order) : order[i] = order[j] => i = j

\* The occupancy counter is exactly what the cached contents take and never
\* exceeds the capacity, so that capacity_ - occupancy_, an unsigned
\* difference in the code, never wraps around.
OccupancyExact ==
  /\ occupancy = Cardinality(Bytes)
  /\ occupancy <= Capacity
=============================================================================
