---------------------------- MODULE Cache_proofs ----------------------------
(***************************************************************************)
(* The pointer code of Cache implements the LRU cache, for every set of    *)
(* resources, every size and every capacity, when one thread at most calls *)
(* TryLoad.  The links of the list are described by a row of nodes from    *)
(* head_ to tail_ (Row); the list is Settled, or one thread Moves a node.  *)
(* That the chain of next_ pointers reads back as this row (ChainIs) gives *)
(* the refinement mapping, and the invariant of LRUCache_proofs, taken     *)
(* through the mapping, keeps the unsigned arithmetic from wrapping.       *)
(***************************************************************************)
EXTENDS Cache, FiniteSetTheorems, WellFoundedInduction, SequenceTheorems, TLAPS

MoveLabels == {"detach", "append1", "append2", "append3", "append4"}
LoadLabels == MoveLabels \cup {"find"}
InsertLabels == {"check", "insert"}

\* One thread at most calls TryLoad.
OneLoader == \A t, u \in Loaders : t = u

\* Variables, locals and arguments keep their types; mapping_ has the keys
\* that hold data.
CallInv ==
  /\ next \in [Nodes -> Nodes \cup {Nil}] /\ prev \in [Nodes -> Nodes \cup {Nil}]
  /\ mapping = {k \in Keys : data[k] # Nil}
  /\ data \in [Keys -> Contents \cup {Nil}]
  /\ readers \subseteq Loaders /\ writer \in Threads \cup {Nil}
  /\ pc \in [Threads -> {"idle"} \cup LoadLabels \cup InsertLabels]
  /\ key \in [Threads -> Keys \cup {Nil}]
  /\ item \in [Threads -> Contents \cup {Nil}]
  /\ nodePrev \in [Threads -> Nodes \cup {Nil}]
  /\ \A t \in Threads : pc[t] # "idle" => key[t] \in Keys
  /\ \A t \in Threads : pc[t] \in InsertLabels => item[t] \in Contents
  /\ \A t \in Threads : pc[t] = "insert" => key[t] \notin mapping /\ Size[item[t]] <= Capacity

\* The locks tell who is inside, and nobody is there together with another.
Alone ==
  /\ \A t \in Threads : t \in readers <=> pc[t] \in LoadLabels
  /\ \A t \in Threads : writer = t <=> pc[t] \in InsertLabels
  /\ \A t, u \in Threads : pc[t] # "idle" /\ pc[u] # "idle" => t = u

\* e[0] is head_, e[n + 1] is tail_ and between them are n cached nodes.
Row(e, n) ==
  /\ e \in [0..(n + 1) -> Nodes]
  /\ e[0] = Head_ /\ e[n + 1] = Tail_
  /\ \A i \in 1..n : e[i] \in Keys
  /\ \A i, j \in 0..(n + 1) : e[i] = e[j] => i = j

Items(e, n) == [i \in 1..n |-> e[i]]

\* The links from head_ on run along the row and end at last; those back from
\* tail_ do so except in one place.
Forward(e, n, last) == (\A i \in 0..(n - 1) : next[e[i]] = e[i + 1]) /\ next[e[n]] = last
Backward(e, n, gap) == \A i \in 0..n : i # gap => prev[e[i + 1]] = e[i]

\* Nobody moves a node: both chains of links are whole.
Settled(e, n) ==
  /\ \A t \in Threads : pc[t] \notin MoveLabels
  /\ mapping = {e[i] : i \in 1..n}
  /\ Forward(e, n, Tail_) /\ Backward(e, n, n + 1)

\* Thread t has unlinked its node from the row and links it at the end, one
\* pointer after the other.
Moves(t, e, n) ==
  /\ pc[t] \in MoveLabels
  /\ key[t] \notin {e[i] : i \in 1..n} /\ mapping = {e[i] : i \in 1..n} \cup {key[t]}
  /\ Forward(e, n, IF pc[t] \in {"detach", "append1"} THEN Tail_ ELSE key[t])
  /\ pc[t] = "detach" => \E j \in 0..n : /\ prev[key[t]] = e[j] /\ next[key[t]] = e[j + 1]
                                         /\ Backward(e, n, j)
  /\ pc[t] \in {"append1", "append2"} => Backward(e, n, n + 1)
  /\ pc[t] \in {"append3", "append4"} => Backward(e, n, n) /\ prev[Tail_] = key[t]
  /\ pc[t] \in {"append2", "append3"} => nodePrev[t] = e[n]
  /\ pc[t] = "append4" => prev[key[t]] = e[n]

Holds(e, n) == Row(e, n) /\ (Settled(e, n) \/ \E t \in Threads : Moves(t, e, n))

ListInv == \E n \in Nat : \E e \in [0..(n + 1) -> Nodes] : Holds(e, n)

\* The order of the naturals, as a well-founded relation.
Less == {ss \in Nat \X Nat : ss[1] < ss[2]}

\* Induction over the naturals, for a set instead of a predicate.
LEMMA SetInduction ==
  ASSUME NEW S, 0 \in S, \A n \in Nat : n \in S => n + 1 \in S
  PROVE  \A n \in Nat : n \in S
<1>1. IsWellFoundedOn(Less, Nat)
  BY NatLessThanWellFounded DEF OpToRel, Less
<1>. SUFFICES ASSUME Nat \ S # {} PROVE FALSE
  OBVIOUS
<1>2. PICK m \in Nat \ S : \A n \in Nat \ S : ~ (<<n, m>> \in Less)
  BY <1>1, WFMin
<1>3. m # 0 /\ m - 1 \in Nat /\ <<m - 1, m>> \in Less
  BY <1>2 DEF Less
<1>. QED
  BY <1>2, <1>3

\* A row is no longer than the keys are many.
LEMMA RowFits ==
  ASSUME NEW n \in Nat, NEW e, Row(e, n)
  PROVE  n <= Cardinality(Keys) /\ Cardinality(Keys) \in Nat
<1>1. Items(e, n) \in Injection(1..n, Keys)
  <2>1. Items(e, n) \in [1..n -> Keys]
    BY DEF Items, Row
  <2>2. \A i, j \in 1..n : Items(e, n)[i] = Items(e, n)[j] => i = j
    BY DEF Items, Row
  <2>. QED
    BY <2>1, <2>2 DEF Injection, IsInjective
<1>2. IsFiniteSet(1..n) /\ Cardinality(1..n) = n
  BY FS_Interval
<1>3. IsFiniteSet(Keys)
  BY LRUAssumption
<1>4. Cardinality(1..n) <= Cardinality(Keys)
  BY <1>1, <1>3, FS_Injection
<1>. QED
  BY <1>2, <1>3, <1>4, FS_CardinalityType

\* p is the way along the links from head_, m steps far, resting where it
\* first meets stop.
Walk(links, stop, m, p) ==
  p = [i \in 0..m |-> IF i = 0 THEN links[Head_]
                      ELSE IF p[i - 1] \in stop THEN p[i - 1] ELSE links[p[i - 1]]]

\* There is one such way.
LEMMA WalkUnique ==
  ASSUME NEW links, NEW stop, NEW m \in Nat, NEW p, NEW q,
         Walk(links, stop, m, p), Walk(links, stop, m, q)
  PROVE  p = q
<1>. DEFINE S == {i \in Nat : i \in 0..m => p[i] = q[i]}
<1>0. /\ \A i \in 0..m : p[i] = IF i = 0 THEN links[Head_]
                                ELSE IF p[i - 1] \in stop THEN p[i - 1] ELSE links[p[i - 1]]
      /\ \A i \in 0..m : q[i] = IF i = 0 THEN links[Head_]
                                ELSE IF q[i - 1] \in stop THEN q[i - 1] ELSE links[q[i - 1]]
  <2>1. \A i \in 0..m : p[i] = IF i = 0 THEN links[Head_]
                                ELSE IF p[i - 1] \in stop THEN p[i - 1] ELSE links[p[i - 1]]
    BY DEF Walk
  <2>2. \A i \in 0..m : q[i] = IF i = 0 THEN links[Head_]
                                ELSE IF q[i - 1] \in stop THEN q[i - 1] ELSE links[q[i - 1]]
    BY DEF Walk
  <2>. QED
    BY <2>1, <2>2
<1>1. 0 \in S
  BY <1>0
<1>2. ASSUME NEW i \in Nat, i \in S PROVE i + 1 \in S
  <2>. SUFFICES ASSUME i + 1 \in 0..m PROVE p[i + 1] = q[i + 1]
    OBVIOUS
  <2>1. i \in 0..m /\ (i + 1) - 1 = i /\ i + 1 # 0
    OBVIOUS
  <2>2. p[i] = q[i]
    BY <1>2, <2>1
  <2>. QED
    BY <1>0, <2>1, <2>2
<1>. HIDE DEF S
<1>3. \A i \in Nat : i \in S
  BY <1>1, <1>2, SetInduction
<1>4. \A i \in 0..m : p[i] = q[i]
  BY <1>3 DEF S
<1>5. \E f : p = [i \in 0..m |-> f[i]]
  BY DEF Walk
<1>6. \E f : q = [i \in 0..m |-> f[i]]
  BY DEF Walk
<1>. QED
  BY <1>4, <1>5, <1>6

\* Links that run along a row and then into stop give the items of the row.
LEMMA ChainIs ==
  ASSUME NEW n \in Nat, NEW e, Row(e, n), NEW links, NEW stop,
         \A i \in 0..(n - 1) : links[e[i]] = e[i + 1], links[e[n]] \in stop,
         \A i \in 1..n : e[i] \notin stop
  PROVE  ChainOf(links, stop) = Items(e, n)
<1>. DEFINE c == Cardinality(Keys)
            path == CHOOSE p : p = [i \in 0..c |-> IF i = 0 THEN links[Head_]
                      ELSE IF p[i - 1] \in stop THEN p[i - 1] ELSE links[p[i - 1]]]
            Ends(i) == path[i] \in stop /\ \A j \in 0..(i - 1) : path[j] \notin stop
            len == CHOOSE i \in 0..c : path[i] \in stop /\ \A j \in 0..(i - 1) : path[j] \notin stop
            way == [i \in 0..c |-> IF i < n THEN e[i + 1] ELSE links[e[n]]]
<1>1. ChainOf(links, stop) = [i \in 1..len |-> path[i - 1]]
  BY DEF ChainOf
<1>2. n <= c /\ c \in Nat
  BY RowFits
<1>. HIDE DEF c
<1>3. Walk(links, stop, c, way)
  <2>1. way[0] = links[Head_]
    BY <1>2 DEF Row
  <2>2. ASSUME NEW i \in 1..c
        PROVE  way[i] = IF way[i - 1] \in stop THEN way[i - 1] ELSE links[way[i - 1]]
    <3>1. CASE i < n
      <4>1. way[i - 1] = e[i] /\ way[i] = e[i + 1] /\ i \in 1..n /\ i \in 0..(n - 1)
        BY <1>2, <3>1
      <4>. QED
        BY <4>1
    <3>2. CASE i = n
      <4>1. way[i - 1] = e[n] /\ way[i] = links[e[n]] /\ n \in 1..n
        BY <1>2, <3>2
      <4>. QED
        BY <4>1
    <3>3. CASE i > n
      <4>1. way[i - 1] = links[e[n]] /\ way[i] = links[e[n]]
        BY <1>2, <3>3
      <4>. QED
        BY <4>1
    <3>. QED
      BY <1>2, <3>1, <3>2, <3>3
  <2>3. \A i \in 0..c : way[i] = IF i = 0 THEN links[Head_]
                            ELSE IF way[i - 1] \in stop THEN way[i - 1] ELSE links[way[i - 1]]
    BY <1>2, <2>1, <2>2
  <2>. QED
    BY <2>3 DEF Walk
<1>4. path = way
  <2>1. Walk(links, stop, c, path)
    BY <1>3 DEF Walk
  <2>. HIDE DEF path, way
  <2>. QED
    BY <1>2, <1>3, <2>1, WalkUnique
<1>5. \A i \in 0..c : path[i] = IF i < n THEN e[i + 1] ELSE links[e[n]]
  BY <1>4
<1>. HIDE DEF path
<1>6. Ends(n)
  BY <1>2, <1>5
<1>7. \A i \in 0..c : Ends(i) => i = n
  <2>. SUFFICES ASSUME NEW i \in 0..c, Ends(i) PROVE i = n
    OBVIOUS
  <2>1. CASE i < n
    <3>1. path[i] = e[i + 1] /\ i + 1 \in 1..n
      BY <1>2, <1>5, <2>1
    <3>. QED
      BY <3>1
  <2>2. CASE n < i
    <3>1. n \in 0..(i - 1)
      BY <1>2, <2>2
    <3>. QED
      BY <1>6, <3>1
  <2>. QED
    BY <1>2, <2>1, <2>2
<1>8. len = n
  BY <1>2, <1>6, <1>7
<1>9. \A i \in 1..n : path[i - 1] = e[i]
  BY <1>2, <1>5
<1>. QED
  BY <1>1, <1>8, <1>9 DEF Items

\* Only one call is under way at a time.
LEMMA AloneStep ==
  ASSUME OneLoader, CallInv, Alone, [Next]_vars
  PROVE  Alone'
<1>. USE DEF MoveLabels, LoadLabels, InsertLabels
<1>0. Nil \notin Threads /\ Loaders \subseteq Threads
  BY CacheAssumption
<1>1. ASSUME NEW t \in Threads, NEW k \in Keys, LoadLock(t, k) PROVE Alone'
  <2>1. \A u \in Threads : pc[u] = "idle"
    <3>. SUFFICES ASSUME NEW u \in Threads, pc[u] # "idle" PROVE FALSE
      OBVIOUS
    <3>1. pc[u] \notin InsertLabels
      BY <1>0, <1>1 DEF LoadLock, Alone
    <3>2. u \in Loaders
      BY <3>1 DEF Alone, CallInv
    <3>. QED
      BY <1>1, <3>2 DEF LoadLock, OneLoader
  <2>2. readers' = readers \cup {t} /\ pc' = [pc EXCEPT ![t] = "find"] /\ writer' = writer
    BY <1>1 DEF LoadLock, Goto
  <2>. QED
    BY <2>1, <2>2 DEF Alone, CallInv
<1>2. ASSUME NEW t \in Threads, LoadMiss(t) \/ Append4(t) PROVE Alone'
  <2>1. pc[t] \in LoadLabels /\ readers' = readers \ {t} /\ pc' = [pc EXCEPT ![t] = "idle"] /\ writer' = writer
    BY <1>2 DEF LoadMiss, Append4, Return
  <2>. QED
    BY <2>1 DEF Alone, CallInv
<1>3. ASSUME NEW t \in Threads, LoadHit(t) \/ Detach(t) \/ Append1(t) \/ Append2(t) \/ Append3(t) PROVE Alone'
  <2>1. PICK label \in LoadLabels : pc' = [pc EXCEPT ![t] = label]
    BY <1>3 DEF LoadHit, Detach, Append1, Append2, Append3, Goto
  <2>2. pc[t] \in LoadLabels /\ UNCHANGED lockVars
    BY <1>3 DEF LoadHit, Detach, Append1, Append2, Append3
  <2>. QED
    BY <2>1, <2>2 DEF Alone, CallInv, lockVars
<1>4. ASSUME NEW t \in Threads, NEW k \in Keys, NEW d \in Contents, InsertLock(t, k, d) PROVE Alone'
  <2>1. \A u \in Threads : pc[u] = "idle"
    BY <1>0, <1>4 DEF InsertLock, Alone, CallInv
  <2>2. readers' = readers /\ pc' = [pc EXCEPT ![t] = "check"] /\ writer' = t
    BY <1>4 DEF InsertLock, Goto
  <2>. QED
    BY <2>1, <2>2 DEF Alone, CallInv
<1>5. ASSUME NEW t \in Threads, InsertRefused(t) \/ Add(t) PROVE Alone'
  <2>1. pc[t] \in InsertLabels /\ readers' = readers /\ pc' = [pc EXCEPT ![t] = "idle"] /\ writer' = Nil
    BY <1>5 DEF InsertRefused, Add, Return
  <2>. QED
    BY <1>0, <2>1 DEF Alone, CallInv
<1>6. ASSUME NEW t \in Threads, InsertBegin(t) PROVE Alone'
  <2>1. pc[t] \in InsertLabels /\ UNCHANGED lockVars /\ pc' = [pc EXCEPT ![t] = "insert"]
    BY <1>6 DEF InsertBegin, Goto
  <2>. QED
    BY <2>1 DEF Alone, CallInv, lockVars
<1>7. ASSUME UNCHANGED <<lockVars, callVars>> PROVE Alone'
  BY <1>7 DEF Alone, lockVars, callVars
<1>8. CASE Clear \/ UNCHANGED vars
  BY <1>7, <1>8 DEF Clear, vars
<1>9. ASSUME NEW t \in Threads, Evict(t) PROVE Alone'
  BY <1>7, <1>9 DEF Evict
<1>. QED
  BY <1>1, <1>2, <1>3, <1>4, <1>5, <1>6, <1>8, <1>9 DEF Next, LoadStep, InsertStep

\* The arguments and locals of a call that goes on.
LEMMA CallKeeps ==
  ASSUME CallInv, NEW t \in Threads, NEW label \in LoadLabels \cup InsertLabels,
         pc[t] # "idle", label = "insert" => pc[t] = "check" /\ key[t] \notin mapping /\ Size[item[t]] <= Capacity,
         label \in InsertLabels => pc[t] \in InsertLabels,
         pc' = [pc EXCEPT ![t] = label], UNCHANGED <<key, item, mapVars, lockVars>>,
         next' \in [Nodes -> Nodes \cup {Nil}], prev' \in [Nodes -> Nodes \cup {Nil}],
         nodePrev' \in [Threads -> Nodes \cup {Nil}]
  PROVE  CallInv'
BY DEF CallInv, mapVars, lockVars, LoadLabels, InsertLabels, MoveLabels

\* The end of a call that leaves the map alone.
LEMMA CallReturns ==
  ASSUME CallInv, NEW t \in Threads, Return(t), UNCHANGED mapVars,
         next' \in [Nodes -> Nodes \cup {Nil}], prev' = prev,
         readers' \subseteq Loaders, writer' \in Threads \cup {Nil}
  PROVE  CallInv'
BY DEF CallInv, Return, mapVars, LoadLabels, InsertLabels, MoveLabels

\* An empty list.
LEMMA EmptyTypes ==
  /\ Empty("next") \in [Nodes -> Nodes \cup {Nil}] /\ Empty("prev") \in [Nodes -> Nodes \cup {Nil}]
BY DEF Empty, Nodes

\* Every step keeps the types, and mapping_ the keys that hold data.
LEMMA CallStep ==
  ASSUME CallInv, Alone, [Next]_vars
  PROVE  CallInv'
<1>0. Nil \notin Keys \cup Contents \cup Threads /\ Keys \subseteq Nodes /\ Head_ \in Nodes /\ Tail_ \in Nodes
  BY CacheAssumption DEF Nodes
<1>1. ASSUME NEW t \in Threads, NEW k \in Keys, LoadLock(t, k) PROVE CallInv'
  BY <1>1 DEF LoadLock, Goto, CallInv, listVars, mapVars, LoadLabels, InsertLabels, MoveLabels
<1>2. ASSUME NEW t \in Threads, LoadMiss(t) PROVE CallInv'
  BY <1>2, CallReturns DEF LoadMiss, CallInv, listVars
<1>3. ASSUME NEW t \in Threads, LoadHit(t) PROVE CallInv'
  <2>1. next' \in [Nodes -> Nodes \cup {Nil}] /\ prev' = prev
    BY <1>0, <1>3 DEF LoadHit, CallInv
  <2>. QED
    BY <1>3, <2>1, CallKeeps DEF LoadHit, Goto, CallInv, LoadLabels, InsertLabels, MoveLabels
<1>4. ASSUME NEW t \in Threads, Detach(t) PROVE CallInv'
  <2>1. prev' \in [Nodes -> Nodes \cup {Nil}] /\ next' = next
    BY <1>0, <1>4 DEF Detach, CallInv
  <2>. QED
    BY <1>4, <2>1, CallKeeps DEF Detach, Goto, CallInv, LoadLabels, InsertLabels, MoveLabels
<1>5. ASSUME NEW t \in Threads, Append1(t) PROVE CallInv'
  <2>1. /\ next' \in [Nodes -> Nodes \cup {Nil}] /\ prev' = prev
        /\ nodePrev' \in [Threads -> Nodes \cup {Nil}]
    BY <1>0, <1>5 DEF Append1, CallInv
  <2>. QED
    BY <1>5, <2>1, CallKeeps DEF Append1, Goto, CallInv, LoadLabels, InsertLabels, MoveLabels
<1>6. ASSUME NEW t \in Threads, Append2(t) PROVE CallInv'
  <2>1. prev' \in [Nodes -> Nodes \cup {Nil}] /\ next' = next
    BY <1>0, <1>6 DEF Append2, CallInv
  <2>. QED
    BY <1>6, <2>1, CallKeeps DEF Append2, Goto, CallInv, LoadLabels, InsertLabels, MoveLabels
<1>7. ASSUME NEW t \in Threads, Append3(t) PROVE CallInv'
  <2>1. prev' \in [Nodes -> Nodes \cup {Nil}] /\ next' = next
    BY <1>0, <1>7 DEF Append3, CallInv
  <2>. QED
    BY <1>7, <2>1, CallKeeps DEF Append3, Goto, CallInv, LoadLabels, InsertLabels, MoveLabels
<1>8. ASSUME NEW t \in Threads, Append4(t) PROVE CallInv'
  <2>1. next' \in [Nodes -> Nodes \cup {Nil}] /\ prev' = prev
    BY <1>0, <1>8 DEF Append4, CallInv
  <2>2. readers' \subseteq Loaders /\ writer' \in Threads \cup {Nil} /\ Return(t) /\ UNCHANGED mapVars
    BY <1>8 DEF Append4, CallInv
  <2>. QED
    BY <2>1, <2>2, CallReturns
<1>9. ASSUME NEW t \in Threads, NEW k \in Keys, NEW d \in Contents, InsertLock(t, k, d) PROVE CallInv'
  BY <1>9 DEF InsertLock, Goto, CallInv, listVars, mapVars, LoadLabels, InsertLabels, MoveLabels
<1>10. ASSUME NEW t \in Threads, InsertRefused(t) PROVE CallInv'
  BY <1>10, CallReturns DEF InsertRefused, CallInv, listVars
<1>11. ASSUME NEW t \in Threads, InsertBegin(t) PROVE CallInv'
  BY <1>11, CallKeeps DEF InsertBegin, Goto, CallInv, listVars, LoadLabels, InsertLabels, MoveLabels
<1>12. ASSUME NEW t \in Threads, Evict(t) PROVE CallInv'
  <2>. DEFINE first == next[Head_]
  <2>1. /\ first \in mapping /\ mapping' = mapping \ {first} /\ data' = [data EXCEPT ![first] = Nil]
        /\ next' = [next EXCEPT ![prev[first]] = next[first], ![first] = Nil]
        /\ prev' = [prev EXCEPT ![next[first]] = prev[first], ![first] = Nil]
        /\ UNCHANGED <<readers, writer, pc, key, item, nodePrev>>
    BY <1>12 DEF Evict, lockVars, callVars
  <2>2. first \in Keys
    BY <2>1 DEF CallInv
  <2>. HIDE DEF first
  <2>3. next' \in [Nodes -> Nodes \cup {Nil}] /\ prev' \in [Nodes -> Nodes \cup {Nil}]
    BY <1>0, <2>1, <2>2 DEF CallInv
  <2>4. data' \in [Keys -> Contents \cup {Nil}] /\ mapping' = {k \in Keys : data'[k] # Nil}
    BY <1>0, <2>1, <2>2 DEF CallInv
  <2>. QED
    BY <2>1, <2>3, <2>4 DEF CallInv
<1>13. ASSUME NEW t \in Threads, Add(t) PROVE CallInv'
  <2>. DEFINE k == key[t]
              last == prev[Tail_]
  <2>1. /\ pc[t] = "insert" /\ mapping' = mapping \cup {k} /\ data' = [data EXCEPT ![k] = item[t]]
        /\ next' = [next EXCEPT ![last] = k, ![k] = Tail_]
        /\ prev' = [prev EXCEPT ![Tail_] = k, ![k] = last]
        /\ readers' = readers /\ writer' = Nil
        /\ pc' = [pc EXCEPT ![t] = "idle"] /\ key' = [key EXCEPT ![t] = Nil]
        /\ item' = [item EXCEPT ![t] = Nil] /\ nodePrev' = [nodePrev EXCEPT ![t] = Nil]
    BY <1>13 DEF Add, Return
  <2>2. k \in Keys /\ item[t] \in Contents /\ last \in Nodes \cup {Nil}
    BY <1>0, <2>1 DEF CallInv, InsertLabels
  <2>3. next' \in [Nodes -> Nodes \cup {Nil}] /\ prev' \in [Nodes -> Nodes \cup {Nil}]
    <3>. HIDE DEF k, last
    <3>. QED
      BY <1>0, <2>1, <2>2 DEF CallInv
  <2>4. data' \in [Keys -> Contents \cup {Nil}] /\ mapping' = {j \in Keys : data'[j] # Nil}
    BY <1>0, <2>1, <2>2 DEF CallInv
  <2>5. \A u \in Threads : pc'[u] = "idle"
    BY <2>1 DEF Alone, CallInv
  <2>. QED
    BY <2>1, <2>3, <2>4, <2>5 DEF CallInv, InsertLabels
<1>14. CASE Clear
  <2>1. /\ next' = Empty("next") /\ prev' = Empty("prev") /\ mapping' = {} /\ data' = [k \in Keys |-> Nil]
        /\ UNCHANGED <<readers, writer, pc, key, item, nodePrev>>
    BY <1>14 DEF Clear, lockVars, callVars
  <2>2. \A u \in Threads : pc[u] = "idle"
    BY <1>14 DEF Clear
  <2>. QED
    BY <2>1, <2>2, EmptyTypes DEF CallInv, InsertLabels
<1>15. CASE UNCHANGED vars
  BY <1>15 DEF vars, listVars, mapVars, lockVars, callVars, CallInv
<1>. QED
  BY <1>1, <1>2, <1>3, <1>4, <1>5, <1>6, <1>7, <1>8, <1>9, <1>10, <1>11, <1>12, <1>13, <1>14, <1>15
  DEF Next, LoadStep, InsertStep

\* Without a node on the move the list is the row.
LEMMA OrderSettled ==
  \A n \in Nat : \A e \in [0..(n + 1) -> Nodes] :
    Row(e, n) /\ Settled(e, n) => Moving = {} /\ Order = Items(e, n)
<1>. SUFFICES ASSUME NEW n \in Nat, NEW e \in [0..(n + 1) -> Nodes], Row(e, n), Settled(e, n)
              PROVE  Moving = {} /\ Order = Items(e, n)
  OBVIOUS
<1>1. Moving = {}
  BY DEF Moving, Settled, MoveLabels
<1>. DEFINE stop == Moving \cup {Tail_}
<1>2. stop = {Tail_}
  BY <1>1
<1>3. /\ \A i \in 0..(n - 1) : next[e[i]] = e[i + 1]
      /\ next[e[n]] \in stop
  BY <1>2 DEF Settled, Forward
<1>4. \A i \in 1..n : e[i] \notin stop
  BY <1>2, CacheAssumption DEF Row
<1>. HIDE DEF stop
<1>5. ChainOf(next, stop) = Items(e, n)
  BY <1>3, <1>4, ChainIs
<1>. QED
  BY <1>1, <1>5 DEF Order, Chain, stop

\* With a node on the move the list is the row and that node behind it.
LEMMA OrderMoves ==
  \A n \in Nat : \A e \in [0..(n + 1) -> Nodes] : \A t \in Threads :
    CallInv /\ Alone /\ Row(e, n) /\ Moves(t, e, n) =>
      Moving = {key[t]} /\ Order = Append(Items(e, n), key[t])
<1>. SUFFICES ASSUME NEW n \in Nat, NEW e \in [0..(n + 1) -> Nodes], NEW t \in Threads,
                     CallInv, Alone, Row(e, n), Moves(t, e, n)
              PROVE  Moving = {key[t]} /\ Order = Append(Items(e, n), key[t])
  OBVIOUS
<1>1. \A u \in Threads : pc[u] \in MoveLabels <=> u = t
  BY DEF Moves, Alone, MoveLabels
<1>2. Moving = {key[t]}
  BY <1>1 DEF Moving, MoveLabels
<1>. DEFINE stop == Moving \cup {Tail_}
<1>3. stop = {key[t], Tail_}
  BY <1>2
<1>4. /\ \A i \in 0..(n - 1) : next[e[i]] = e[i + 1]
      /\ next[e[n]] \in stop
  BY <1>3 DEF Moves, Forward
<1>5. \A i \in 1..n : e[i] \notin stop
  BY <1>3, CacheAssumption DEF Row, Moves
<1>. HIDE DEF stop
<1>6. ChainOf(next, stop) = Items(e, n)
  BY <1>4, <1>5, ChainIs
<1>7. (CHOOSE k \in Moving : TRUE) = key[t] /\ Moving # {}
  BY <1>2
<1>. QED
  BY <1>2, <1>6, <1>7 DEF Order, Chain, stop

\* A row without its j-th node.
Without(e, n, j) == [i \in 0..n |-> IF i < j THEN e[i] ELSE e[i + 1]]

Shorter(f, e, n, j) ==
  /\ n - 1 \in Nat /\ (n - 1) + 1 = n /\ f \in [0..n -> Nodes] /\ Row(f, n - 1)
  /\ \A i \in 0..n : f[i] = IF i < j THEN e[i] ELSE e[i + 1]
  /\ {f[i] : i \in 1..(n - 1)} = {e[i] : i \in 1..n} \ {e[j]}

\* Detach: a row without one of its nodes is a row.
LEMMA RowWithout ==
  ASSUME NEW n \in Nat, NEW e, Row(e, n), NEW j \in 1..n, NEW f, f = Without(e, n, j)
  PROVE  Shorter(f, e, n, j)
<1>1. \A i \in 0..n : f[i] = IF i < j THEN e[i] ELSE e[i + 1]
  BY DEF Without
<1>2. f \in [0..n -> Nodes]
  BY DEF Without, Row
<1>3. n - 1 \in Nat /\ (n - 1) + 1 = n
  OBVIOUS
<1>4. f[0] = Head_ /\ f[n] = Tail_
  BY <1>1 DEF Row
<1>5. \A i \in 1..(n - 1) : f[i] \in Keys
  BY <1>1 DEF Row
<1>6. \A a, b \in 0..n : f[a] = f[b] => a = b
  <2>. DEFINE g(i) == IF i < j THEN i ELSE i + 1
  <2>1. \A i \in 0..n : g(i) \in 0..(n + 1) /\ f[i] = e[g(i)]
    BY <1>1
  <2>2. \A a, b \in 0..n : g(a) = g(b) => a = b
    OBVIOUS
  <2>. HIDE DEF g
  <2>. QED
    BY <2>1, <2>2 DEF Row
<1>7. Row(f, n - 1)
  BY <1>2, <1>3, <1>4, <1>5, <1>6 DEF Row
<1>8. {f[i] : i \in 1..(n - 1)} = {e[i] : i \in 1..n} \ {e[j]}
  <2>1. ASSUME NEW i \in 1..(n - 1) PROVE f[i] \in {e[m] : m \in 1..n} \ {e[j]}
    <3>1. PICK m \in 1..n : f[i] = e[m] /\ m # j
      BY <1>1
    <3>2. e[m] # e[j]
      BY <3>1 DEF Row
    <3>. QED
      BY <3>1, <3>2
  <2>2. ASSUME NEW m \in 1..n, e[m] # e[j] PROVE e[m] \in {f[i] : i \in 1..(n - 1)}
    <3>1. CASE m < j
      <4>1. m \in 1..(n - 1) /\ f[m] = e[m]
        BY <1>1, <3>1
      <4>. QED
        BY <4>1
    <3>2. CASE m > j
      <4>1. m - 1 \in 1..(n - 1) /\ f[m - 1] = e[m]
        BY <1>1, <3>2
      <4>. QED
        BY <4>1
    <3>. QED
      BY <2>2, <3>1, <3>2
  <2>. QED
    BY <2>1, <2>2
<1>. QED
  BY <1>1, <1>2, <1>3, <1>7, <1>8 DEF Shorter

\* A row with one more node before tail_.
With(e, n, k) == [i \in 0..(n + 2) |-> IF i <= n THEN e[i] ELSE IF i = n + 1 THEN k ELSE Tail_]

Longer(f, e, n, k) ==
  /\ n + 1 \in Nat /\ (n + 1) + 1 = n + 2 /\ f \in [0..(n + 2) -> Nodes] /\ Row(f, n + 1)
  /\ \A i \in 0..(n + 2) : f[i] = IF i <= n THEN e[i] ELSE IF i = n + 1 THEN k ELSE Tail_
  /\ {f[i] : i \in 1..(n + 1)} = {e[i] : i \in 1..n} \cup {k}
  /\ Items(f, n + 1) = Append(Items(e, n), k)

\* AppendToListTail: a row with a new node before tail_ is a row.
LEMMA RowWith ==
  ASSUME NEW n \in Nat, NEW e, Row(e, n), NEW k \in Keys, \A i \in 1..n : k # e[i],
         NEW f, f = With(e, n, k)
  PROVE  Longer(f, e, n, k)
<1>1. \A i \in 0..(n + 2) : f[i] = IF i <= n THEN e[i] ELSE IF i = n + 1 THEN k ELSE Tail_
  BY DEF With
<1>2. f \in [0..(n + 2) -> Nodes]
  BY DEF With, Row, Nodes
<1>3. n + 1 \in Nat /\ (n + 1) + 1 = n + 2
  OBVIOUS
<1>4. f[0] = Head_ /\ f[n + 2] = Tail_ /\ f[n + 1] = k
  BY <1>1 DEF Row
<1>5. \A i \in 1..(n + 1) : f[i] \in Keys
  BY <1>1 DEF Row
<1>6. \A i \in 0..n : e[i] # k /\ e[i] # Tail_
  <2>1. e[0] # k /\ k # Tail_
    BY CacheAssumption DEF Row
  <2>2. \A i \in 1..n : e[i] # k
    OBVIOUS
  <2>3. \A i \in 0..n : e[i] # Tail_
    BY DEF Row
  <2>. QED
    BY <2>1, <2>2, <2>3
<1>7. \A a, b \in 0..(n + 2) : f[a] = f[b] => a = b
  <2>1. k # Tail_
    BY CacheAssumption
  <2>2. \A a, b \in 0..n : e[a] = e[b] => a = b
    BY DEF Row
  <2>. QED
    BY <1>1, <1>6, <2>1, <2>2
<1>8. Row(f, n + 1)
  BY <1>2, <1>3, <1>4, <1>5, <1>7 DEF Row
<1>9. {f[i] : i \in 1..(n + 1)} = {e[i] : i \in 1..n} \cup {k}
  <2>1. \A i \in 1..(n + 1) : f[i] \in {e[m] : m \in 1..n} \cup {k}
    BY <1>1
  <2>2. \A m \in 1..n : m \in 1..(n + 1) /\ f[m] = e[m]
    BY <1>1
  <2>3. n + 1 \in 1..(n + 1) /\ f[n + 1] = k
    BY <1>4
  <2>. QED
    BY <2>1, <2>2, <2>3
<1>10. Items(f, n + 1) = Append(Items(e, n), k)
  <2>1. Items(e, n) \in Seq(Keys) /\ Len(Items(e, n)) = n
    BY DEF Items, Row
  <2>2. Items(f, n + 1) \in Seq(Keys) /\ Len(Items(f, n + 1)) = n + 1
    BY <1>5 DEF Items
  <2>3. \A i \in 1..n : Items(f, n + 1)[i] = Items(e, n)[i]
    BY <1>1 DEF Items
  <2>4. Items(f, n + 1)[n + 1] = k
    BY <1>4 DEF Items
  <2>. DEFINE s == Items(e, n)
              w == Items(f, n + 1)
  <2>. HIDE DEF s, w
  <2>5. /\ s \in Seq(Keys) /\ Len(s) = n /\ w \in Seq(Keys) /\ Len(w) = n + 1
        /\ \A i \in 1..n : w[i] = s[i]
        /\ w[n + 1] = k
    BY <2>1, <2>2, <2>3, <2>4 DEF s, w
  <2>6. /\ Append(s, k) \in Seq(Keys) /\ Len(Append(s, k)) = n + 1
        /\ \A i \in 1..n : Append(s, k)[i] = s[i]
        /\ Append(s, k)[n + 1] = k
    BY <2>5, AppendProperties
  <2>7. \A i \in 1..(n + 1) : w[i] = Append(s, k)[i]
    BY <2>5, <2>6
  <2>8. w = Append(s, k)
    BY <2>5, <2>6, <2>7, SeqEqual
  <2>. QED
    BY <2>8 DEF s, w
<1>. QED
  BY <1>1, <1>2, <1>3, <1>8, <1>9, <1>10 DEF Longer

\* The links of a whole row.
LEMMA RowLinks ==
  ASSUME NEW n \in Nat, NEW e, Row(e, n)
  PROVE  /\ Forward(e, n, Tail_) <=> \A i \in 0..n : next[e[i]] = e[i + 1]
         /\ Backward(e, n, n + 1) <=> \A i \in 0..n : prev[e[i + 1]] = e[i]
<1>1. Backward(e, n, n + 1) <=> \A i \in 0..n : prev[e[i + 1]] = e[i]
  BY DEF Backward
<1>2. Forward(e, n, Tail_) <=> \A i \in 0..n : next[e[i]] = e[i + 1]
  BY SMTT(30) DEF Forward, Row
<1>. QED
  BY <1>1, <1>2

\* The first half of Detach takes the node out of the forward links.
LEMMA HitLinks ==
  ASSUME CallInv, NEW n \in Nat, NEW e, Row(e, n), Settled(e, n), NEW t \in Threads, LoadHit(t)
  PROVE  \E j \in 1..n : e[j] = key[t] /\ Moves(t, Without(e, n, j), n - 1)'
<1>0. \A i \in 0..n : next[e[i]] = e[i + 1] /\ prev[e[i + 1]] = e[i]
  BY RowLinks DEF Settled
<1>1. /\ key[t] \in mapping /\ next' = [next EXCEPT ![prev[key[t]]] = next[key[t]]]
      /\ pc' = [pc EXCEPT ![t] = "detach"] /\ UNCHANGED <<prev, mapping, key, nodePrev>>
  BY DEF LoadHit, Goto, mapVars
<1>2. PICK j \in 1..n : e[j] = key[t]
  BY <1>1 DEF Settled
<1>3. next[key[t]] = e[j + 1] /\ prev[key[t]] = e[j - 1]
  <2>1. j \in 0..n /\ j - 1 \in 0..n /\ (j - 1) + 1 = j
    OBVIOUS
  <2>. QED
    BY <1>0, <1>2, <2>1
<1>4. e[j - 1] \in Nodes /\ e[j] # e[j - 1]
  BY DEF Row
<1>5. /\ next'[e[j - 1]] = e[j + 1]
      /\ \A i \in 0..n : i # j - 1 => next'[e[i]] = e[i + 1]
      /\ next'[key[t]] = e[j + 1]
  <2>1. next' = [next EXCEPT ![e[j - 1]] = e[j + 1]]
    BY <1>1, <1>3
  <2>2. next'[e[j - 1]] = e[j + 1]
    BY <1>4, <2>1 DEF CallInv
  <2>3. ASSUME NEW i \in 0..n, i # j - 1 PROVE next'[e[i]] = e[i + 1]
    <3>1. e[i] # e[j - 1] /\ e[i] \in Nodes
      BY <2>3 DEF Row
    <3>. QED
      BY <1>0, <2>1, <3>1 DEF CallInv
  <2>4. next'[e[j]] = e[j + 1]
    BY <2>3
  <2>. QED
    BY <1>2, <2>2, <2>3, <2>4
<1>6. PICK f : f = Without(e, n, j)
  OBVIOUS
<1>7. /\ n - 1 \in Nat /\ (n - 1) + 1 = n /\ f \in [0..n -> Nodes] /\ Row(f, n - 1)
      /\ \A i \in 0..n : f[i] = IF i < j THEN e[i] ELSE e[i + 1]
      /\ {f[i] : i \in 1..(n - 1)} = {e[i] : i \in 1..n} \ {e[j]}
  <2>1. Shorter(f, e, n, j)
    BY <1>6, RowWithout
  <2>. QED
    BY <2>1 DEF Shorter
<1>8. \A i \in 0..(n - 1) : next'[f[i]] = f[i + 1]
  <2>. SUFFICES ASSUME NEW i \in 0..(n - 1) PROVE next'[f[i]] = f[i + 1]
    OBVIOUS
  <2>1. CASE i < j - 1
    <3>1. f[i] = e[i] /\ f[i + 1] = e[i + 1] /\ i \in 0..n /\ i # j - 1
      BY <1>7, <2>1
    <3>. QED
      BY <1>5, <3>1
  <2>2. CASE i = j - 1
    <3>1. f[i] = e[j - 1] /\ f[i + 1] = e[j + 1]
      BY <1>7, <2>2
    <3>. QED
      BY <1>5, <3>1
  <2>3. CASE i > j - 1
    <3>1. f[i] = e[i + 1] /\ f[i + 1] = e[(i + 1) + 1] /\ i + 1 \in 0..n /\ i + 1 # j - 1
      BY <1>7, <2>3
    <3>. QED
      BY <1>5, <3>1
  <2>. QED
    BY <2>1, <2>2, <2>3
<1>9. \A i \in 0..(n - 1) : i # j - 1 => prev'[f[i + 1]] = f[i]
  <2>. SUFFICES ASSUME NEW i \in 0..(n - 1), i # j - 1 PROVE prev'[f[i + 1]] = f[i]
    OBVIOUS
  <2>1. CASE i < j - 1
    <3>1. f[i] = e[i] /\ f[i + 1] = e[i + 1] /\ i \in 0..n
      BY <1>7, <2>1
    <3>. QED
      BY <1>0, <1>1, <3>1
  <2>3. CASE i > j - 1
    <3>1. f[i] = e[i + 1] /\ f[i + 1] = e[(i + 1) + 1] /\ i + 1 \in 0..n
      BY <1>7, <2>3
    <3>. QED
      BY <1>0, <1>1, <3>1
  <2>. QED
    BY <2>1, <2>3
<1>10. pc'[t] = "detach"
  BY <1>1 DEF CallInv
<1>11. /\ Forward(f, n - 1, Tail_)'
       /\ Backward(f, n - 1, j - 1)'
  <2>1. f[(n - 1) + 1] = Tail_ /\ n - 1 \in 0..(n - 1)
    BY <1>7 DEF Row
  <2>2. \A i \in 0..((n - 1) - 1) : next'[f[i]] = f[i + 1]
    BY <1>8
  <2>3. next'[f[n - 1]] = Tail_
    BY <1>8, <2>1
  <2>4. Forward(f, n - 1, Tail_)'
    BY <2>2, <2>3 DEF Forward
  <2>5. Backward(f, n - 1, j - 1)'
    BY <1>9 DEF Backward
  <2>. QED
    BY <2>4, <2>5
<1>12. /\ prev'[key'[t]] = f[j - 1] /\ next'[key'[t]] = f[(j - 1) + 1] /\ j - 1 \in 0..(n - 1)
  <2>1. f[j - 1] = e[j - 1] /\ f[(j - 1) + 1] = e[j + 1] /\ j - 1 \in 0..(n - 1)
    BY <1>7
  <2>. QED
    BY <1>1, <1>3, <1>5, <2>1
<1>13. /\ key'[t] \notin {f[i] : i \in 1..(n - 1)}
       /\ mapping' = {f[i] : i \in 1..(n - 1)} \cup {key'[t]}
  BY <1>1, <1>2, <1>7 DEF Settled
<1>14. Moves(t, f, n - 1)'
  BY <1>10, <1>11, <1>12, <1>13 DEF Moves, MoveLabels
<1>. QED
  BY <1>2, <1>6, <1>14

\* The second half takes it out of the backward links.
LEMMA DetachLinks ==
  ASSUME CallInv, NEW n \in Nat, NEW e, Row(e, n), NEW t \in Threads, Moves(t, e, n), Detach(t)
  PROVE  Moves(t, e, n)'
<1>1. /\ pc[t] = "detach" /\ prev' = [prev EXCEPT ![next[key[t]]] = prev[key[t]]]
      /\ pc' = [pc EXCEPT ![t] = "append1"] /\ UNCHANGED <<next, mapping, key, nodePrev>>
  BY DEF Detach, Goto, mapVars
<1>2. PICK j \in 0..n : prev[key[t]] = e[j] /\ next[key[t]] = e[j + 1] /\ Backward(e, n, j)
  BY <1>1 DEF Moves
<1>3. prev' = [prev EXCEPT ![e[j + 1]] = e[j]]
  BY <1>1, <1>2
<1>4. \A i \in 0..n : prev'[e[i + 1]] = e[i]
  <2>. SUFFICES ASSUME NEW i \in 0..n PROVE prev'[e[i + 1]] = e[i]
    OBVIOUS
  <2>1. e[i + 1] \in Nodes
    BY DEF Row
  <2>2. CASE i = j
    BY <1>3, <2>1, <2>2 DEF CallInv
  <2>3. CASE i # j
    <3>1. e[i + 1] # e[j + 1]
      BY <2>3 DEF Row
    <3>. QED
      BY <1>2, <1>3, <2>1, <2>3, <3>1 DEF CallInv, Backward
  <2>. QED
    BY <2>2, <2>3
<1>5. Backward(e, n, n + 1)'
  BY <1>4 DEF Backward
<1>6. pc'[t] = "append1"
  BY <1>1 DEF CallInv
<1>7. Forward(e, n, Tail_)'
  BY <1>1 DEF Moves, Forward
<1>. QED
  BY <1>1, <1>5, <1>6, <1>7 DEF Moves, MoveLabels

\* AppendToListTail, its first three writes.
LEMMA AppendLinks ==
  ASSUME CallInv, NEW n \in Nat, NEW e, Row(e, n), NEW t \in Threads, Moves(t, e, n),
         Append1(t) \/ Append2(t) \/ Append3(t)
  PROVE  Moves(t, e, n)'
<1>0. /\ key[t] \in Keys /\ key[t] # Tail_ /\ key[t] # Head_ /\ e[n] \in Nodes /\ e[n + 1] = Tail_
      /\ Tail_ \in Nodes /\ Keys \subseteq Nodes
      /\ \A i \in 0..n : key[t] # e[i] /\ e[i] # Tail_ /\ e[i] \in Nodes
  <2>1. key[t] \in Keys
    BY DEF Moves, MoveLabels, CallInv
  <2>2. \A i \in 1..n : key[t] # e[i]
    BY DEF Moves
  <2>3. key[t] # Tail_ /\ key[t] # Head_
    BY <2>1, CacheAssumption
  <2>4. \A i \in 0..n : e[i] # Tail_
    BY DEF Row
  <2>5. Tail_ \in Nodes /\ Keys \subseteq Nodes
    BY DEF Nodes
  <2>. QED
    BY <2>1, <2>2, <2>3, <2>4, <2>5 DEF Row
<1>1. CASE Append1(t)
  <2>1. /\ pc[t] = "append1" /\ nodePrev' = [nodePrev EXCEPT ![t] = prev[Tail_]]
        /\ next' = [next EXCEPT ![prev[Tail_]] = key[t]]
        /\ pc' = [pc EXCEPT ![t] = "append2"] /\ UNCHANGED <<prev, mapping, key>>
    BY <1>1 DEF Append1, Goto, mapVars
  <2>2. Backward(e, n, n + 1) /\ Forward(e, n, Tail_)
    BY <2>1 DEF Moves
  <2>3. prev[Tail_] = e[n]
    BY <1>0, <2>2 DEF Backward
  <2>4. next'[e[n]] = key[t]
    BY <1>0, <2>1, <2>3 DEF CallInv
  <2>5. ASSUME NEW i \in 0..(n - 1) PROVE next'[e[i]] = e[i + 1]
    <3>1. e[i] # e[n] /\ e[i] \in Nodes
      BY DEF Row
    <3>. QED
      BY <2>1, <2>2, <2>3, <3>1 DEF CallInv, Forward
  <2>6. Forward(e, n, key[t])'
    BY <2>1, <2>4, <2>5 DEF Forward
  <2>7. pc'[t] = "append2" /\ nodePrev'[t] = e[n]
    BY <2>1, <2>3 DEF CallInv
  <2>8. Backward(e, n, n + 1)'
    BY <2>1, <2>2 DEF Backward
  <2>. QED
    BY <2>1, <2>6, <2>7, <2>8 DEF Moves, MoveLabels
<1>2. CASE Append2(t)
  <2>1. /\ pc[t] = "append2" /\ prev' = [prev EXCEPT ![Tail_] = key[t]]
        /\ pc' = [pc EXCEPT ![t] = "append3"] /\ UNCHANGED <<next, mapping, key, nodePrev>>
    BY <1>2 DEF Append2, Goto, mapVars
  <2>2. Backward(e, n, n + 1) /\ Forward(e, n, key[t]) /\ nodePrev[t] = e[n]
    BY <2>1 DEF Moves
  <2>3. prev'[Tail_] = key'[t] /\ pc'[t] = "append3"
    BY <1>0, <2>1 DEF CallInv
  <2>4. ASSUME NEW i \in 0..n, i # n PROVE prev'[e[i + 1]] = e[i]
    <3>1. i + 1 \in 0..n /\ i # n + 1
      BY <2>4
    <3>2. e[i + 1] # Tail_ /\ e[i + 1] \in Nodes
      BY <1>0, <3>1
    <3>. QED
      BY <2>1, <2>2, <3>1, <3>2 DEF CallInv, Backward
  <2>5. Backward(e, n, n)'
    BY <2>4 DEF Backward
  <2>6. Forward(e, n, key[t])'
    BY <2>1, <2>2 DEF Forward
  <2>. QED
    BY <2>1, <2>2, <2>3, <2>5, <2>6 DEF Moves, MoveLabels
<1>3. CASE Append3(t)
  <2>1. /\ pc[t] = "append3" /\ prev' = [prev EXCEPT ![key[t]] = nodePrev[t]]
        /\ pc' = [pc EXCEPT ![t] = "append4"] /\ UNCHANGED <<next, mapping, key, nodePrev>>
    BY <1>3 DEF Append3, Goto, mapVars
  <2>2. Backward(e, n, n) /\ Forward(e, n, key[t]) /\ nodePrev[t] = e[n] /\ prev[Tail_] = key[t]
    BY <2>1 DEF Moves
  <2>3. prev'[Tail_] = key'[t] /\ prev'[key'[t]] = e[n] /\ pc'[t] = "append4"
    BY <1>0, <2>1, <2>2 DEF CallInv
  <2>4. ASSUME NEW i \in 0..n, i # n PROVE prev'[e[i + 1]] = e[i]
    <3>1. i + 1 \in 0..n
      BY <2>4
    <3>2. e[i + 1] # key[t] /\ e[i + 1] \in Nodes
      BY <1>0, <3>1
    <3>. QED
      BY <2>1, <2>2, <2>4, <3>2 DEF CallInv, Backward
  <2>5. Backward(e, n, n)'
    BY <2>4 DEF Backward
  <2>6. Forward(e, n, key[t])'
    BY <2>1, <2>2 DEF Forward
  <2>. QED
    BY <2>1, <2>2, <2>3, <2>5, <2>6 DEF Moves, MoveLabels
<1>. QED
  BY <1>1, <1>2, <1>3

\* When both chains of links are whole after a step.
LEMMA SettledNext ==
  ASSUME NEW m \in Nat, NEW f, Row(f, m),
         \A u \in Threads : pc'[u] \notin MoveLabels,
         mapping' = {f[i] : i \in 1..m},
         \A i \in 0..m : next'[f[i]] = f[i + 1] /\ prev'[f[i + 1]] = f[i]
  PROVE  Settled(f, m)'
<1>1. Forward(f, m, Tail_)'
  <2>1. \A i \in 0..(m - 1) : next'[f[i]] = f[i + 1]
    OBVIOUS
  <2>2. next'[f[m]] = Tail_
    BY DEF Row
  <2>. QED
    BY <2>1, <2>2 DEF Forward
<1>2. Backward(f, m, m + 1)'
  BY DEF Backward
<1>. QED
  BY <1>1, <1>2 DEF Settled

\* The last write of AppendToListTail.
LEMMA Append4Links ==
  ASSUME CallInv, Alone, NEW n \in Nat, NEW e, Row(e, n), NEW t \in Threads, Moves(t, e, n), Append4(t)
  PROVE  \E f : Longer(f, e, n, key[t]) /\ Settled(f, n + 1)'
<1>. DEFINE k == key[t]
<1>1. /\ pc[t] = "append4" /\ next' = [next EXCEPT ![k] = Tail_]
      /\ pc' = [pc EXCEPT ![t] = "idle"] /\ UNCHANGED <<prev, mapping>>
  BY DEF Append4, Return, mapVars
<1>2. /\ k \in Keys /\ k \in Nodes /\ (\A i \in 1..n : k # e[i]) /\ mapping = {e[i] : i \in 1..n} \cup {k}
      /\ Forward(e, n, k) /\ Backward(e, n, n) /\ prev[Tail_] = k /\ prev[k] = e[n] /\ k # Head_
  BY <1>1, CacheAssumption DEF Moves, CallInv, Nodes
<1>. HIDE DEF k
<1>3. PICK f : f = With(e, n, k)
  OBVIOUS
<1>4. Longer(f, e, n, k)
  BY <1>2, <1>3, RowWith
<1>5. /\ n + 1 \in Nat /\ (n + 1) + 1 = n + 2 /\ Row(f, n + 1)
      /\ \A i \in 0..(n + 2) : f[i] = IF i <= n THEN e[i] ELSE IF i = n + 1 THEN k ELSE Tail_
      /\ {f[i] : i \in 1..(n + 1)} = {e[i] : i \in 1..n} \cup {k}
  BY <1>4 DEF Longer
<1>6. \A i \in 0..n : e[i] # k /\ e[i] \in Nodes
  BY <1>2 DEF Row
<1>7. ASSUME NEW i \in 0..(n + 1) PROVE next'[f[i]] = f[i + 1] /\ prev'[f[i + 1]] = f[i]
  <2>1. CASE i < n
    <3>1. f[i] = e[i] /\ f[i + 1] = e[i + 1] /\ i \in 0..n /\ i \in 0..(n - 1) /\ i # n
      BY <1>5, <2>1
    <3>2. next[e[i]] = e[i + 1] /\ prev[e[i + 1]] = e[i]
      BY <1>2, <3>1 DEF Forward, Backward
    <3>. QED
      BY <1>1, <1>6, <3>1, <3>2 DEF CallInv
  <2>2. CASE i = n
    <3>1. f[i] = e[n] /\ f[i + 1] = k /\ n \in 0..n
      BY <1>5, <2>2
    <3>2. next[e[n]] = k
      BY <1>2 DEF Forward
    <3>. QED
      BY <1>1, <1>2, <1>6, <3>1, <3>2 DEF CallInv
  <2>3. CASE i = n + 1
    <3>1. f[i] = k /\ f[i + 1] = Tail_
      BY <1>5, <2>3
    <3>. QED
      BY <1>1, <1>2, <3>1 DEF CallInv
  <2>. QED
    BY <2>1, <2>2, <2>3
<1>8. \A u \in Threads : pc'[u] \notin MoveLabels
  BY <1>1 DEF Alone, CallInv, MoveLabels
<1>9. mapping' = {f[i] : i \in 1..(n + 1)}
  BY <1>1, <1>2, <1>5
<1>10. Settled(f, n + 1)'
  BY <1>5, <1>7, <1>8, <1>9, SettledNext
<1>. QED
  BY <1>4, <1>10 DEF k

\* A new node at the end of the list.
LEMMA AddLinks ==
  ASSUME CallInv, Alone, NEW n \in Nat, NEW e, Row(e, n), Settled(e, n), NEW t \in Threads, Add(t)
  PROVE  \E f : Longer(f, e, n, key[t]) /\ Settled(f, n + 1)'
<1>. DEFINE k == key[t]
<1>0. \A i \in 0..n : next[e[i]] = e[i + 1] /\ prev[e[i + 1]] = e[i]
  BY RowLinks DEF Settled
<1>1. /\ pc[t] = "insert" /\ next' = [next EXCEPT ![prev[Tail_]] = k, ![k] = Tail_]
      /\ prev' = [prev EXCEPT ![Tail_] = k, ![k] = prev[Tail_]]
      /\ pc' = [pc EXCEPT ![t] = "idle"] /\ mapping' = mapping \cup {k}
  BY DEF Add, Return
<1>2. /\ k \in Keys /\ k \in Nodes /\ k \notin mapping /\ k # Head_ /\ k # Tail_ /\ Tail_ \in Nodes
  BY <1>1, CacheAssumption DEF CallInv, Nodes
<1>. HIDE DEF k
<1>3. mapping = {e[i] : i \in 1..n} /\ \A i \in 1..n : k # e[i]
  BY <1>2 DEF Settled
<1>4. PICK f : f = With(e, n, k)
  OBVIOUS
<1>5. Longer(f, e, n, k)
  <2>1. \A i \in 1..n : k # e[i]
    BY <1>3
  <2>. QED
    BY <1>2, <1>4, <2>1, RowWith
<1>6. /\ n + 1 \in Nat /\ (n + 1) + 1 = n + 2 /\ Row(f, n + 1)
      /\ \A i \in 0..(n + 2) : f[i] = IF i <= n THEN e[i] ELSE IF i = n + 1 THEN k ELSE Tail_
      /\ {f[i] : i \in 1..(n + 1)} = {e[i] : i \in 1..n} \cup {k}
  BY <1>5 DEF Longer
<1>7. /\ \A i \in 0..n : e[i] # k /\ e[i] # Tail_ /\ e[i] \in Nodes
      /\ prev[Tail_] = e[n]
  <2>1. \A i \in 0..n : e[i] # Tail_
    BY DEF Row
  <2>2. \A i \in 0..n : e[i] # k /\ e[i] \in Nodes
    BY <1>2, <1>3 DEF Row
  <2>3. prev[e[n + 1]] = e[n]
    BY <1>0
  <2>. QED
    BY <2>1, <2>2, <2>3 DEF Row
<1>8. /\ next'[k] = Tail_ /\ next'[e[n]] = k /\ prev'[Tail_] = k /\ prev'[k] = e[n]
  BY <1>1, <1>2, <1>7 DEF CallInv
<1>9. ASSUME NEW i \in 0..(n + 1) PROVE next'[f[i]] = f[i + 1] /\ prev'[f[i + 1]] = f[i]
  <2>1. CASE i < n
    <3>1. f[i] = e[i] /\ f[i + 1] = e[i + 1] /\ i \in 0..n /\ i + 1 \in 0..n /\ i # n
      BY <1>6, <2>1
    <3>2. next[e[i]] = e[i + 1] /\ prev[e[i + 1]] = e[i] /\ e[i] # e[n]
      BY <1>0, <3>1 DEF Row
    <3>. QED
      BY <1>1, <1>7, <3>1, <3>2 DEF CallInv
  <2>2. CASE i = n
    <3>1. f[i] = e[n] /\ f[i + 1] = k
      BY <1>6, <2>2
    <3>. QED
      BY <1>8, <3>1
  <2>3. CASE i = n + 1
    <3>1. f[i] = k /\ f[i + 1] = Tail_
      BY <1>6, <2>3
    <3>. QED
      BY <1>8, <3>1
  <2>. QED
    BY <2>1, <2>2, <2>3
<1>10. \A u \in Threads : pc'[u] \notin MoveLabels
  BY <1>1 DEF Settled, CallInv, MoveLabels
<1>11. mapping' = {f[i] : i \in 1..(n + 1)}
  BY <1>1, <1>3, <1>6
<1>12. Settled(f, n + 1)'
  BY <1>6, <1>9, <1>10, <1>11, SettledNext
<1>. QED
  BY <1>5, <1>12 DEF k

\* One iteration of the eviction loop takes the first node away.
LEMMA EvictLinks ==
  ASSUME CallInv, NEW n \in Nat, NEW e, Row(e, n), Settled(e, n), NEW t \in Threads, Evict(t)
  PROVE  /\ 1 \in 1..n /\ next[Head_] = e[1]
         /\ \E f : Shorter(f, e, n, 1) /\ Settled(f, n - 1)'
<1>0. \A i \in 0..n : next[e[i]] = e[i + 1] /\ prev[e[i + 1]] = e[i]
  BY RowLinks DEF Settled
<1>1. 1 \in 1..n /\ next[Head_] = e[1]
  <2>1. mapping # {}
    BY DEF Evict, MustEvict
  <2>2. n # 0
    BY <2>1 DEF Settled
  <2>. QED
    BY <1>0, <2>2 DEF Row
<1>2. next[e[1]] = e[2] /\ prev[e[1]] = Head_ /\ e[0] = Head_
  <2>1. 1 \in 0..n /\ 0 \in 0..n /\ 1 + 1 = 2 /\ 0 + 1 = 1
    BY <1>1
  <2>. QED
    BY <1>0, <2>1 DEF Row
<1>3. /\ next' = [next EXCEPT ![e[0]] = e[2], ![e[1]] = Nil]
      /\ prev' = [prev EXCEPT ![e[2]] = e[0], ![e[1]] = Nil]
      /\ mapping' = mapping \ {e[1]} /\ UNCHANGED pc
  BY <1>1, <1>2 DEF Evict, callVars
<1>4. PICK one : one = 1
  OBVIOUS
<1>5. PICK f : f = Without(e, n, one)
  OBVIOUS
<1>6. Shorter(f, e, n, one)
  <2>1. one \in 1..n
    BY <1>1, <1>4
  <2>. QED
    BY <1>5, <2>1, RowWithout
<1>7. /\ n - 1 \in Nat /\ (n - 1) + 1 = n /\ Row(f, n - 1)
      /\ \A i \in 0..n : f[i] = IF i < 1 THEN e[i] ELSE e[i + 1]
      /\ {f[i] : i \in 1..(n - 1)} = {e[i] : i \in 1..n} \ {e[1]}
  BY <1>4, <1>6 DEF Shorter
<1>8. ASSUME NEW i \in 0..(n - 1) PROVE next'[f[i]] = f[i + 1] /\ prev'[f[i + 1]] = f[i]
  <2>1. CASE i = 0
    <3>1. f[i] = e[0] /\ f[i + 1] = e[2]
      BY <1>1, <1>7, <2>1
    <3>2. e[0] # e[1] /\ e[2] # e[1] /\ e[0] \in Nodes /\ e[2] \in Nodes
      BY <1>1 DEF Row
    <3>. QED
      BY <1>3, <3>1, <3>2 DEF CallInv
  <2>2. CASE i > 0
    <3>1. f[i] = e[i + 1] /\ f[i + 1] = e[(i + 1) + 1] /\ i + 1 \in 0..n
      BY <1>7, <2>2
    <3>2. /\ e[i + 1] # e[0] /\ e[i + 1] # e[1] /\ e[(i + 1) + 1] # e[2] /\ e[(i + 1) + 1] # e[1]
          /\ e[i + 1] \in Nodes /\ e[(i + 1) + 1] \in Nodes
      BY <1>1, <2>2 DEF Row
    <3>3. next[e[i + 1]] = e[(i + 1) + 1] /\ prev[e[(i + 1) + 1]] = e[i + 1]
      BY <1>0, <3>1
    <3>. QED
      BY <1>3, <3>1, <3>2, <3>3 DEF CallInv
  <2>. QED
    BY <2>1, <2>2
<1>9. \A u \in Threads : pc'[u] \notin MoveLabels
  BY <1>3 DEF Settled
<1>10. mapping' = {f[i] : i \in 1..(n - 1)}
  BY <1>3, <1>7 DEF Settled
<1>11. Settled(f, n - 1)'
  <2>1. PICK m : m = n - 1
    OBVIOUS
  <2>2. Settled(f, m)'
    <3>1. /\ m \in Nat /\ Row(f, m) /\ mapping' = {f[i] : i \in 1..m}
          /\ \A i \in 0..m : next'[f[i]] = f[i + 1] /\ prev'[f[i + 1]] = f[i]
      BY <1>7, <1>8, <1>10, <2>1
    <3>. QED
      BY <1>9, <3>1, SettledNext
  <2>. QED
    BY <2>1, <2>2
<1>. QED
  BY <1>1, <1>4, <1>6, <1>11

\* head_ and tail_ alone.
LEMMA EmptyLinks ==
  ASSUME NEW e, e = [i \in 0..1 |-> IF i = 0 THEN Head_ ELSE Tail_], NEW m, m = 0
  PROVE  /\ m \in Nat /\ e \in [0..(m + 1) -> Nodes] /\ Row(e, m) /\ Items(e, m) = <<>>
         /\ {e[i] : i \in 1..m} = {} /\ e[0] = Head_ /\ e[1] = Tail_
         /\ Empty("next")[Head_] = Tail_ /\ Empty("prev")[Tail_] = Head_
<1>1. Empty("next")[Head_] = Tail_ /\ Empty("prev")[Tail_] = Head_
  BY CacheAssumption DEF Empty, Nodes
<1>2. e \in [0..1 -> Nodes]
  BY DEF Nodes
<1>3. Row(e, m)
  BY <1>2, CacheAssumption DEF Row
<1>. QED
  BY <1>1, <1>2, <1>3 DEF Items

P == INSTANCE LRUCache_proofs WITH order <- Order, want <- Want

\* The items of a row, as a sequence.
LEMMA ItemsSeq ==
  ASSUME NEW n \in Nat, NEW e, Row(e, n)
  PROVE  /\ Items(e, n) \in Seq(Keys) /\ Len(Items(e, n)) = n
         /\ \A i \in 1..n : Items(e, n)[i] = e[i]
BY DEF Items, Row

\* Taking a node out and adding it at the end moves its item to the end.
LEMMA ItemsMoved ==
  ASSUME NEW n \in Nat, NEW e, Row(e, n), NEW j \in 1..n, NEW f, Shorter(f, e, n, j)
  PROVE  Append(Items(f, n - 1), e[j]) = P!MovedToEnd(Items(e, n), j)
<1>. DEFINE s == Items(e, n)
            w == Items(f, n - 1)
<1>1. /\ s \in Seq(Keys) /\ Len(s) = n /\ \A i \in 1..n : s[i] = e[i]
  BY ItemsSeq
<1>2. n - 1 \in Nat /\ Row(f, n - 1) /\ \A i \in 0..n : f[i] = IF i < j THEN e[i] ELSE e[i + 1]
  BY DEF Shorter
<1>3. /\ w \in Seq(Keys) /\ Len(w) = n - 1 /\ \A i \in 1..(n - 1) : w[i] = f[i]
  <2>1. PICK m \in Nat : m = n - 1
    BY <1>2
  <2>2. Row(f, m)
    BY <1>2, <2>1
  <2>3. Items(f, m) \in Seq(Keys) /\ Len(Items(f, m)) = m /\ \A i \in 1..m : Items(f, m)[i] = f[i]
    BY <2>2, ItemsSeq
  <2>. QED
    BY <2>1, <2>3
<1>. HIDE DEF s, w
<1>4. e[j] \in Keys
  BY DEF Row
<1>5. /\ Append(w, e[j]) \in Seq(Keys) /\ Len(Append(w, e[j])) = n
      /\ \A i \in 1..n : Append(w, e[j])[i] = IF i < n THEN w[i] ELSE e[j]
  <2>1. /\ Append(w, e[j]) \in Seq(Keys) /\ Len(Append(w, e[j])) = Len(w) + 1
        /\ \A i \in 1..Len(w) : Append(w, e[j])[i] = w[i]
        /\ Append(w, e[j])[Len(w) + 1] = e[j]
    BY <1>3, <1>4, AppendProperties
  <2>. QED
    BY <1>3, <2>1
<1>6. /\ P!MovedToEnd(s, j) \in Seq(Keys) /\ Len(P!MovedToEnd(s, j)) = n
      /\ \A i \in 1..n : P!MovedToEnd(s, j)[i] = IF i < j THEN s[i] ELSE IF i < n THEN s[i + 1] ELSE s[j]
  <2>1. P!MovedToEnd(s, j) = [i \in 1..n |-> IF i < j THEN s[i] ELSE IF i < n THEN s[i + 1] ELSE s[j]]
    BY <1>1 DEF P!MovedToEnd
  <2>2. \A i \in 1..n : (IF i < j THEN s[i] ELSE IF i < n THEN s[i + 1] ELSE s[j]) \in Keys
    BY <1>1
  <2>. QED
    BY <2>1, <2>2
<1>7. \A i \in 1..n : Append(w, e[j])[i] = P!MovedToEnd(s, j)[i]
  <2>. SUFFICES ASSUME NEW i \in 1..n PROVE Append(w, e[j])[i] = P!MovedToEnd(s, j)[i]
    OBVIOUS
  <2>1. i < n => w[i] = IF i < j THEN e[i] ELSE e[i + 1]
    BY <1>2, <1>3
  <2>2. s[j] = e[j] /\ s[i] = e[i] /\ (i < n => s[i + 1] = e[i + 1])
    BY <1>1
  <2>3. i = n => ~ (i < j)
    OBVIOUS
  <2>. QED
    BY <1>5, <1>6, <2>1, <2>2, <2>3
<1>8. Append(w, e[j]) = P!MovedToEnd(s, j)
  BY <1>5, <1>6, <1>7, SeqEqual
<1>. QED
  BY <1>8 DEF s, w

\* Taking out the first node leaves the tail of the items.
LEMMA ItemsTail ==
  ASSUME NEW n \in Nat, NEW e, Row(e, n), 1 \in 1..n, NEW f, Shorter(f, e, n, 1)
  PROVE  /\ Items(f, n - 1) = Tail(Items(e, n)) /\ Head(Items(e, n)) = e[1]
         /\ Items(e, n) # <<>>
<1>. DEFINE s == Items(e, n)
            w == Items(f, n - 1)
<1>1. /\ s \in Seq(Keys) /\ Len(s) = n /\ \A i \in 1..n : s[i] = e[i]
  BY ItemsSeq
<1>2. n - 1 \in Nat /\ Row(f, n - 1) /\ \A i \in 0..n : f[i] = IF i < 1 THEN e[i] ELSE e[i + 1]
  BY DEF Shorter
<1>3. /\ w \in Seq(Keys) /\ Len(w) = n - 1 /\ \A i \in 1..(n - 1) : w[i] = f[i]
  <2>1. PICK m \in Nat : m = n - 1
    BY <1>2
  <2>2. Row(f, m)
    BY <1>2, <2>1
  <2>3. Items(f, m) \in Seq(Keys) /\ Len(Items(f, m)) = m /\ \A i \in 1..m : Items(f, m)[i] = f[i]
    BY <2>2, ItemsSeq
  <2>. QED
    BY <2>1, <2>3
<1>. HIDE DEF s, w
<1>4. /\ s # <<>> /\ Head(s) = e[1] /\ Tail(s) \in Seq(Keys) /\ Len(Tail(s)) = n - 1
      /\ \A i \in 1..(n - 1) : Tail(s)[i] = s[i + 1]
  BY <1>1
<1>5. ASSUME NEW i \in 1..(n - 1) PROVE w[i] = Tail(s)[i]
  <2>1. i \in 0..n /\ ~ (i < 1) /\ i + 1 \in 1..n
    BY <1>2
  <2>2. w[i] = f[i] /\ f[i] = e[i + 1]
    BY <1>2, <1>3, <2>1
  <2>3. Tail(s)[i] = s[i + 1] /\ s[i + 1] = e[i + 1]
    BY <1>1, <1>4, <2>1
  <2>. QED
    BY <2>2, <2>3
<1>6. w = Tail(s)
  BY <1>3, <1>4, <1>5, SeqEqual
<1>. QED
  BY <1>4, <1>6 DEF s, w

\* No insertion is past its checks.
LEMMA WantNone == (\A u \in Threads : pc[u] # "insert") => Want = <<>>
BY DEF Want, Inserting

\* The insertion that is.
LEMMA WantIs == Alone => \A t \in Threads : pc[t] = "insert" => Want = <<key[t], item[t]>>
<1>. SUFFICES ASSUME Alone, NEW t \in Threads, pc[t] = "insert" PROVE Want = <<key[t], item[t]>>
  OBVIOUS
<1>1. Inserting = {t}
  BY DEF Inserting, Alone
<1>2. (CHOOSE u \in Inserting : TRUE) = t
  BY <1>1
<1>. QED
  BY <1>1, <1>2 DEF Want

\* The list after a step.
LEMMA OrderAfter ==
  /\ \A n \in Nat : \A e \in [0..(n + 1) -> Nodes] :
       Row(e, n) /\ Settled(e, n)' => Order' = Items(e, n)
  /\ \A n \in Nat : \A e \in [0..(n + 1) -> Nodes] : \A t \in Threads :
       CallInv' /\ Alone' /\ Row(e, n) /\ Moves(t, e, n)' => Order' = Append(Items(e, n), key'[t])
  /\ (\A u \in Threads : pc'[u] # "insert") => Want' = <<>>
  /\ Alone' => \A t \in Threads : pc'[t] = "insert" => Want' = <<key'[t], item'[t]>>
<1>1. (\A n \in Nat : \A e \in [0..(n + 1) -> Nodes] :
    Row(e, n) /\ Settled(e, n) => Moving = {} /\ Order = Items(e, n))'
  BY OrderSettled, PTL
<1>2. (\A n \in Nat : \A e \in [0..(n + 1) -> Nodes] : \A t \in Threads :
    CallInv /\ Alone /\ Row(e, n) /\ Moves(t, e, n) =>
      Moving = {key[t]} /\ Order = Append(Items(e, n), key[t]))'
  BY OrderMoves, PTL
<1>3. ((\A u \in Threads : pc[u] # "insert") => Want = <<>>)'
  BY WantNone, PTL
<1>4. (Alone => \A t \in Threads : pc[t] = "insert" => Want = <<key[t], item[t]>>)'
  BY WantIs, PTL
<1>. QED
  BY <1>1, <1>2, <1>3, <1>4

\* The row behind the list, when nobody moves a node.
LEMMA RowOfList ==
  ASSUME ListInv, \A u \in Threads : pc[u] \notin MoveLabels
  PROVE  \E n \in Nat : \E e \in [0..(n + 1) -> Nodes] :
           Row(e, n) /\ Settled(e, n) /\ Order = Items(e, n)
<1>1. PICK n \in Nat : \E e \in [0..(n + 1) -> Nodes] : Holds(e, n)
  BY DEF ListInv
<1>2. PICK e \in [0..(n + 1) -> Nodes] : Holds(e, n)
  BY <1>1
<1>3. Row(e, n) /\ Settled(e, n)
  BY <1>2 DEF Holds, Moves
<1>4. Order = Items(e, n)
  BY <1>3, OrderSettled
<1>. QED
  BY <1>3, <1>4

\* The row behind the list, while thread t moves a node.
LEMMA RowOfMove ==
  ASSUME CallInv, Alone, ListInv, NEW t \in Threads, pc[t] \in MoveLabels
  PROVE  \E n \in Nat : \E e \in [0..(n + 1) -> Nodes] :
           Row(e, n) /\ Moves(t, e, n) /\ Order = Append(Items(e, n), key[t])
<1>1. PICK n \in Nat : \E e \in [0..(n + 1) -> Nodes] : Holds(e, n)
  BY DEF ListInv
<1>2. PICK e \in [0..(n + 1) -> Nodes] : Holds(e, n)
  BY <1>1
<1>3. Row(e, n) /\ \E u \in Threads : Moves(u, e, n)
  BY <1>2 DEF Holds, Settled
<1>4. Moves(t, e, n)
  BY <1>3 DEF Moves, Alone, MoveLabels
<1>5. Order = Append(Items(e, n), key[t])
  BY <1>3, <1>4, OrderMoves
<1>. QED
  BY <1>3, <1>4, <1>5

\* A row that holds after a step.
LEMMA ListAfter ==
  ASSUME NEW n \in Nat, NEW e \in [0..(n + 1) -> Nodes], Row(e, n),
         Settled(e, n)' \/ \E t \in Threads : Moves(t, e, n)'
  PROVE  ListInv'
<1>1. Holds(e, n)'
  BY DEF Holds
<1>2. \E m \in Nat : \E f \in [0..(m + 1) -> Nodes] : Holds(f, m)'
  BY <1>1
<1>. QED
  BY <1>2 DEF ListInv

\* A step that touches neither list nor map, with nobody moving a node.
LEMMA StillList ==
  ASSUME ListInv, UNCHANGED <<listVars, mapVars>>,
         \A u \in Threads : pc[u] \notin MoveLabels, \A u \in Threads : pc'[u] \notin MoveLabels
  PROVE  ListInv' /\ Order' = Order
<1>1. PICK n \in Nat : \E e \in [0..(n + 1) -> Nodes] :
           Row(e, n) /\ Settled(e, n) /\ Order = Items(e, n)
  BY RowOfList
<1>2. PICK e \in [0..(n + 1) -> Nodes] : Row(e, n) /\ Settled(e, n) /\ Order = Items(e, n)
  BY <1>1
<1>3. Settled(e, n)'
  BY <1>2 DEF Settled, Forward, Backward, listVars, mapVars
<1>4. ListInv'
  BY <1>2, <1>3, ListAfter
<1>5. Order' = Items(e, n)
  BY <1>2, <1>3, OrderAfter
<1>. QED
  BY <1>2, <1>4, <1>5

\* Locking, a miss and a refused insertion leave the abstract cache alone.
LEMMA RefineQuiet ==
  ASSUME CallInv, Alone, ListInv, CallInv', Alone', NEW t \in Threads,
         \/ \E k \in Keys : LoadLock(t, k)
         \/ LoadMiss(t)
         \/ \E k \in Keys, d \in Contents : InsertLock(t, k, d)
         \/ InsertRefused(t)
  PROVE  ListInv' /\ UNCHANGED P!vars
<1>1. /\ UNCHANGED <<listVars, mapVars>>
      /\ \E label \in {"idle", "find", "check"} : pc' = [pc EXCEPT ![t] = label]
      /\ pc[t] \in {"idle", "find", "check"} /\ (pc[t] = "idle" => pc'[t] # "idle")
  BY DEF LoadLock, LoadMiss, InsertLock, InsertRefused, Goto, Return, CallInv
<1>2. \A u \in Threads : pc[u] \notin MoveLabels \cup {"insert"} /\ pc'[u] \notin MoveLabels \cup {"insert"}
  <2>. SUFFICES ASSUME NEW u \in Threads
                PROVE  pc[u] \notin MoveLabels \cup {"insert"} /\ pc'[u] \notin MoveLabels \cup {"insert"}
    OBVIOUS
  <2>1. CASE u = t
    BY <1>1, <2>1 DEF CallInv, MoveLabels
  <2>2. CASE u # t
    <3>1. pc'[u] = pc[u]
      BY <1>1, <2>2 DEF CallInv
    <3>2. pc[u] = "idle"
      BY <1>1, <2>2, <3>1 DEF Alone
    <3>. QED
      BY <3>1, <3>2 DEF MoveLabels
  <2>. QED
    BY <2>1, <2>2
<1>3. ListInv' /\ Order' = Order
  BY <1>1, <1>2, StillList
<1>4. Want = <<>> /\ Want' = <<>>
  BY <1>2, WantNone, OrderAfter
<1>. QED
  BY <1>1, <1>3, <1>4 DEF P!vars, mapVars

\* TryInsert past its two checks begins an insertion.
LEMMA RefineBegin ==
  ASSUME CallInv, Alone, ListInv, CallInv', Alone', NEW t \in Threads, InsertBegin(t)
  PROVE  ListInv' /\ P!Begin(key[t], item[t]) /\ key[t] \in Keys /\ item[t] \in Contents
<1>1. /\ UNCHANGED <<listVars, mapVars, key, item>> /\ pc' = [pc EXCEPT ![t] = "insert"]
      /\ pc[t] = "check" /\ key[t] \notin mapping /\ Size[item[t]] <= Capacity
  BY DEF InsertBegin, Goto
<1>2. /\ \A u \in Threads : pc[u] \notin MoveLabels \cup {"insert"}
      /\ \A u \in Threads : pc'[u] \notin MoveLabels
      /\ pc'[t] = "insert"
  BY <1>1 DEF Alone, CallInv, MoveLabels
<1>3. ListInv' /\ Order' = Order
  BY <1>1, <1>2, StillList
<1>4. Want = <<>>
  BY <1>2, WantNone
<1>5. Want' = <<key[t], item[t]>>
  BY <1>1, <1>2, OrderAfter
<1>6. key[t] \in Keys /\ item[t] \in Contents /\ key[t] \notin P!Cached
  BY <1>1 DEF CallInv, InsertLabels, P!Cached
<1>. QED
  BY <1>1, <1>3, <1>4, <1>5, <1>6 DEF P!Begin, mapVars

\* A hit makes its key the most recently used one.
LEMMA RefineHit ==
  ASSUME CallInv, Alone, ListInv, CallInv', Alone', NEW t \in Threads, LoadHit(t)
  PROVE  ListInv' /\ P!Load(key[t]) /\ key[t] \in Keys
<1>1. /\ pc[t] = "find" /\ pc' = [pc EXCEPT ![t] = "detach"] /\ UNCHANGED <<mapVars, key>>
  BY DEF LoadHit, Goto
<1>2. /\ \A u \in Threads : pc[u] \notin MoveLabels \cup {"insert"} /\ pc'[u] # "insert"
      /\ key[t] \in Keys
  BY <1>1 DEF Alone, CallInv, MoveLabels
<1>3. Want = <<>> /\ Want' = <<>>
  BY <1>2, WantNone, OrderAfter
<1>4. PICK n \in Nat : \E e \in [0..(n + 1) -> Nodes] :
           Row(e, n) /\ Settled(e, n) /\ Order = Items(e, n)
  BY <1>2, RowOfList
<1>5. PICK e \in [0..(n + 1) -> Nodes] : Row(e, n) /\ Settled(e, n) /\ Order = Items(e, n)
  BY <1>4
<1>6. PICK j \in 1..n : e[j] = key[t] /\ Moves(t, Without(e, n, j), n - 1)'
  BY <1>5, HitLinks
<1>7. PICK f : f = Without(e, n, j)
  OBVIOUS
<1>8. Shorter(f, e, n, j)
  BY <1>5, <1>7, RowWithout
<1>9. PICK m : m = n - 1
  OBVIOUS
<1>10. m \in Nat /\ f \in [0..(m + 1) -> Nodes] /\ Row(f, m)
  BY <1>8, <1>9 DEF Shorter
<1>11. Moves(t, f, m)'
  BY <1>6, <1>7, <1>9
<1>12. ListInv'
  BY <1>10, <1>11, ListAfter
<1>13. Order' = Append(Items(f, m), key'[t])
  BY <1>10, <1>11, OrderAfter
<1>14. Order' = P!MovedToEnd(Order, j)
  BY <1>1, <1>5, <1>6, <1>8, <1>9, <1>13, ItemsMoved
<1>15. j \in 1..Len(Order) /\ Order[j] = key[t]
  BY <1>5, <1>6, ItemsSeq
<1>. QED
  BY <1>1, <1>2, <1>3, <1>12, <1>14, <1>15 DEF P!Load, mapVars

\* The other pointer writes of a lookup do not show.
LEMMA RefineMove ==
  ASSUME CallInv, Alone, ListInv, CallInv', Alone', NEW t \in Threads,
         Detach(t) \/ Append1(t) \/ Append2(t) \/ Append3(t) \/ Append4(t)
  PROVE  ListInv' /\ UNCHANGED P!vars
<1>1. /\ pc[t] \in MoveLabels /\ UNCHANGED mapVars
      /\ \E label \in MoveLabels \cup {"idle"} : pc' = [pc EXCEPT ![t] = label]
      /\ ~ Append4(t) => key' = key
  BY DEF Detach, Append1, Append2, Append3, Append4, Goto, Return, MoveLabels
<1>2. \A u \in Threads : pc[u] # "insert" /\ pc'[u] # "insert"
  <2>1. \A u \in Threads : u # t => pc[u] = "idle"
    BY <1>1 DEF Alone, MoveLabels
  <2>. QED
    BY <1>1, <2>1 DEF CallInv, MoveLabels
<1>3. Want = <<>> /\ Want' = <<>>
  BY <1>2, WantNone, OrderAfter
<1>4. PICK n \in Nat : \E e \in [0..(n + 1) -> Nodes] :
           Row(e, n) /\ Moves(t, e, n) /\ Order = Append(Items(e, n), key[t])
  BY <1>1, RowOfMove
<1>5. PICK e \in [0..(n + 1) -> Nodes] : Row(e, n) /\ Moves(t, e, n) /\ Order = Append(Items(e, n), key[t])
  BY <1>4
<1>6. ListInv' /\ Order' = Order
  <2>1. CASE Append4(t)
    <3>1. PICK f : Longer(f, e, n, key[t]) /\ Settled(f, n + 1)'
      BY <1>5, <2>1, Append4Links
    <3>2. PICK m : m = n + 1
      OBVIOUS
    <3>3. /\ m \in Nat /\ f \in [0..(m + 1) -> Nodes] /\ Row(f, m) /\ Settled(f, m)'
          /\ Items(f, m) = Append(Items(e, n), key[t])
      BY <3>1, <3>2 DEF Longer
    <3>4. ListInv'
      BY <3>3, ListAfter
    <3>5. Order' = Items(f, m)
      BY <3>3, OrderAfter
    <3>. QED
      BY <1>5, <3>3, <3>4, <3>5
  <2>2. CASE ~ Append4(t)
    <3>1. Moves(t, e, n)'
      BY <1>5, <2>2, DetachLinks, AppendLinks
    <3>2. ListInv'
      BY <1>5, <3>1, ListAfter
    <3>3. Order' = Append(Items(e, n), key'[t])
      BY <1>5, <3>1, OrderAfter
    <3>. QED
      BY <1>1, <1>5, <2>2, <3>2, <3>3
  <2>. QED
    BY <2>1, <2>2
<1>. QED
  BY <1>1, <1>3, <1>6 DEF P!vars, mapVars

\* The unsigned expressions of TryInsert's loop do not wrap around.
LEMMA Unwrapped ==
  ASSUME NEW x \in 0..Capacity
  PROVE  x % Word = x
<1>1. x \in Nat /\ x < Word /\ Word \in Nat
  BY LRUAssumption, CacheAssumption
<1>. QED
  BY <1>1

\* What the abstract invariant says of the counter.
LEMMA Counted == P!IndInv => occupancy \in 0..Capacity /\ Capacity - occupancy \in 0..Capacity
BY LRUAssumption DEF P!IndInv, P!TypeOK, P!OccupancyExact

\* One iteration of the eviction loop evicts the least recently used key.
LEMMA RefineEvict ==
  ASSUME CallInv, Alone, ListInv, CallInv', Alone', P!IndInv, NEW t \in Threads, Evict(t)
  PROVE  ListInv' /\ P!Evict
<1>1. /\ pc[t] = "insert" /\ UNCHANGED <<pc, key, item>>
      /\ mapping # {} /\ (Capacity - occupancy) % Word < Size[item[t]]
      /\ data' = [data EXCEPT ![next[Head_]] = Nil]
      /\ occupancy' = (occupancy - Size[data[next[Head_]]]) % Word
  BY DEF Evict, MustEvict, callVars
<1>2. \A u \in Threads : pc[u] \notin MoveLabels
  BY <1>1 DEF Alone, MoveLabels
<1>3. Want = <<key[t], item[t]>>
  BY <1>1, WantIs
<1>4. Want' = <<key[t], item[t]>>
  BY <1>1, OrderAfter
<1>5. PICK n \in Nat : \E e \in [0..(n + 1) -> Nodes] :
           Row(e, n) /\ Settled(e, n) /\ Order = Items(e, n)
  BY <1>2, RowOfList
<1>6. PICK e \in [0..(n + 1) -> Nodes] : Row(e, n) /\ Settled(e, n) /\ Order = Items(e, n)
  BY <1>5
<1>7. /\ 1 \in 1..n /\ next[Head_] = e[1]
      /\ \E f : Shorter(f, e, n, 1) /\ Settled(f, n - 1)'
  BY <1>6, EvictLinks
<1>8. PICK f : Shorter(f, e, n, 1) /\ Settled(f, n - 1)'
  BY <1>7
<1>9. Items(f, n - 1) = Tail(Order) /\ Head(Order) = e[1] /\ Order # <<>>
  BY <1>6, <1>7, <1>8, ItemsTail
<1>10. PICK m : m = n - 1
  OBVIOUS
<1>11. m \in Nat /\ f \in [0..(m + 1) -> Nodes] /\ Row(f, m) /\ Settled(f, m)'
  BY <1>8, <1>10 DEF Shorter
<1>12. ListInv'
  BY <1>11, ListAfter
<1>13. Order' = Tail(Order)
  BY <1>9, <1>10, <1>11, OrderAfter
<1>14. /\ data' = [data EXCEPT ![Head(Order)] = Nil]
       /\ occupancy' = (occupancy - Size[data[Head(Order)]]) % Word
  BY <1>1, <1>7, <1>9
<1>15. Size[data[Head(Order)]] \in 0..occupancy
  <2>1. P!IndInv /\ Order # <<>> => Size[data[Head(Order)]] \in 0..occupancy
    BY P!EvictFits, LRUAssumption DEF IsFiniteSet, P!IsFiniteSet
  <2>. QED
    BY <1>9, <2>1
<1>16. occupancy \in 0..Capacity /\ Capacity - occupancy \in 0..Capacity /\ Capacity \in Nat
  BY Counted, LRUAssumption
<1>17. occupancy - Size[data[Head(Order)]] \in 0..Capacity
  BY <1>15, <1>16
<1>18. /\ occupancy' = occupancy - Size[data[Head(Order)]]
       /\ Capacity - occupancy < Size[item[t]]
  <2>1. (Capacity - occupancy) % Word = Capacity - occupancy
    BY <1>16, Unwrapped
  <2>2. (occupancy - Size[data[Head(Order)]]) % Word = occupancy - Size[data[Head(Order)]]
    BY <1>17, Unwrapped
  <2>. QED
    BY <1>1, <1>14, <2>1, <2>2
<1>19. Want # <<>> /\ Want[2] = item[t] /\ Want' = Want
  BY <1>3, <1>4
<1>. QED
  BY <1>9, <1>12, <1>13, <1>14, <1>18, <1>19 DEF P!Evict

\* The end of TryInsert adds the key as the most recently used one.
LEMMA RefineAdd ==
  ASSUME CallInv, Alone, ListInv, CallInv', Alone', P!IndInv, NEW t \in Threads, Add(t)
  PROVE  ListInv' /\ P!Add
<1>1. /\ pc[t] = "insert" /\ pc' = [pc EXCEPT ![t] = "idle"]
      /\ mapping = {} \/ ~ ((Capacity - occupancy) % Word < Size[item[t]])
      /\ data' = [data EXCEPT ![key[t]] = item[t]]
      /\ occupancy' = (occupancy + Size[item[t]]) % Word
  BY DEF Add, MustEvict, Return
<1>2. /\ \A u \in Threads : pc[u] \notin MoveLabels
      /\ \A u \in Threads : pc'[u] # "insert"
  BY <1>1 DEF Alone, MoveLabels, CallInv
<1>3. Want = <<key[t], item[t]>>
  BY <1>1, WantIs
<1>4. Want' = <<>>
  BY <1>2, OrderAfter
<1>5. PICK n \in Nat : \E e \in [0..(n + 1) -> Nodes] :
           Row(e, n) /\ Settled(e, n) /\ Order = Items(e, n)
  BY <1>2, RowOfList
<1>6. PICK e \in [0..(n + 1) -> Nodes] : Row(e, n) /\ Settled(e, n) /\ Order = Items(e, n)
  BY <1>5
<1>7. PICK f : Longer(f, e, n, key[t]) /\ Settled(f, n + 1)'
  BY <1>6, AddLinks
<1>8. PICK m : m = n + 1
  OBVIOUS
<1>9. /\ m \in Nat /\ f \in [0..(m + 1) -> Nodes] /\ Row(f, m) /\ Settled(f, m)'
      /\ Items(f, m) = Append(Order, key[t])
  BY <1>6, <1>7, <1>8 DEF Longer
<1>10. ListInv'
  BY <1>9, ListAfter
<1>11. Order' = Append(Order, key[t])
  BY <1>9, OrderAfter
<1>12. mapping = {} => Order = <<>>
  <2>. SUFFICES ASSUME mapping = {} PROVE Order = <<>>
    OBVIOUS
  <2>1. \A i \in 1..n : e[i] \in mapping
    BY <1>6 DEF Settled
  <2>2. n = 0
    <3>1. n >= 1 => 1 \in 1..n
      OBVIOUS
    <3>. QED
      BY <2>1, <3>1
  <2>. QED
    BY <1>6, <2>2 DEF Items
<1>13. occupancy \in 0..Capacity /\ Capacity - occupancy \in 0..Capacity /\ Capacity \in Nat
  BY Counted, LRUAssumption
<1>14. (Capacity - occupancy) % Word = Capacity - occupancy
  BY <1>13, Unwrapped
<1>15. item[t] \in Contents /\ Size[item[t]] \in Nat
  BY <1>1, LRUAssumption DEF CallInv, InsertLabels
<1>16. Order = <<>> \/ Capacity - occupancy >= Size[item[t]]
  BY <1>1, <1>12, <1>13, <1>14, <1>15
<1>17. Want # <<>> /\ Want[1] = key[t] /\ Want[2] = item[t]
  BY <1>3
<1>18. occupancy + Size[item[t]] \in 0..Capacity
  <2>1. P!IndInv /\ Want # <<>> /\ (Order = <<>> \/ Capacity - occupancy >= Size[Want[2]])
          => occupancy + Size[Want[2]] \in 0..Capacity
    BY P!AddFits, LRUAssumption DEF IsFiniteSet, P!IsFiniteSet
  <2>. QED
    BY <1>16, <1>17, <2>1
<1>19. occupancy' = occupancy + Size[item[t]]
  BY <1>1, <1>18, Unwrapped
<1>. QED
  BY <1>1, <1>4, <1>10, <1>11, <1>16, <1>17, <1>19 DEF P!Add

\* head_ and tail_ alone, before or after a step.
LEMMA EmptyRow ==
  (/\ next = Empty("next") /\ prev = Empty("prev") /\ mapping = {}
   /\ \A u \in Threads : pc[u] = "idle")
  => ListInv /\ Order = <<>> /\ Want = <<>>
<1>. SUFFICES ASSUME next = Empty("next"), prev = Empty("prev"), mapping = {},
                     \A u \in Threads : pc[u] = "idle"
              PROVE  ListInv /\ Order = <<>> /\ Want = <<>>
  OBVIOUS
<1>1. PICK e : e = [i \in 0..1 |-> IF i = 0 THEN Head_ ELSE Tail_]
  OBVIOUS
<1>2. PICK m : m = 0
  OBVIOUS
<1>3. /\ m \in Nat /\ e \in [0..(m + 1) -> Nodes] /\ Row(e, m) /\ Items(e, m) = <<>>
      /\ {e[i] : i \in 1..m} = {} /\ e[0] = Head_ /\ e[1] = Tail_
      /\ next[Head_] = Tail_ /\ prev[Tail_] = Head_
  BY <1>1, <1>2, EmptyLinks
<1>4. Forward(e, m, Tail_)
  BY <1>2, <1>3 DEF Forward
<1>5. Backward(e, m, m + 1)
  BY <1>2, <1>3 DEF Backward
<1>6. Settled(e, m)
  BY <1>3, <1>4, <1>5 DEF Settled, MoveLabels
<1>7. Order = <<>>
  BY <1>3, <1>6, OrderSettled
<1>8. Holds(e, m)
  BY <1>3, <1>6 DEF Holds
<1>9. ListInv
  BY <1>3, <1>8 DEF ListInv
<1>10. Want = <<>>
  BY WantNone
<1>. QED
  BY <1>7, <1>9, <1>10

\* Clear empties the abstract cache.
LEMMA RefineClear ==
  ASSUME CallInv, Clear
  PROVE  ListInv' /\ P!Clear
<1>1. /\ next' = Empty("next") /\ prev' = Empty("prev") /\ mapping' = {}
      /\ data' = [k \in Keys |-> Nil] /\ occupancy' = 0
      /\ (\A u \in Threads : pc[u] = "idle") /\ pc' = pc
  BY DEF Clear, callVars
<1>2. ((/\ next = Empty("next") /\ prev = Empty("prev") /\ mapping = {}
        /\ \A u \in Threads : pc[u] = "idle")
       => ListInv /\ Order = <<>> /\ Want = <<>>)'
  BY EmptyRow, PTL
<1>3. ListInv' /\ Order' = <<>> /\ Want' = <<>>
  BY <1>1, <1>2 DEF Empty
<1>4. Want = <<>>
  BY <1>1, WantNone
<1>. QED
  BY <1>1, <1>3, <1>4 DEF P!Clear

\* A step outside the cache.
LEMMA RefineStutter ==
  ASSUME ListInv, UNCHANGED vars
  PROVE  ListInv' /\ UNCHANGED P!vars
<1>1. ListInv'
  <2>1. PICK n \in Nat : \E e \in [0..(n + 1) -> Nodes] : Holds(e, n)
    BY DEF ListInv
  <2>2. PICK e \in [0..(n + 1) -> Nodes] : Holds(e, n)
    BY <2>1
  <2>3. Row(e, n) /\ (Settled(e, n)' \/ \E t \in Threads : Moves(t, e, n)')
    BY <2>2 DEF vars, listVars, mapVars, callVars, Holds, Settled, Moves, Forward, Backward
  <2>. QED
    BY <2>3, ListAfter
<1>2. Order' = Order
  BY DEF vars, listVars, callVars, Order, Chain, ChainOf, Moving
<1>3. Want' = Want
  BY DEF vars, callVars, Want, Inserting
<1>. QED
  BY <1>2, <1>1, <1>3 DEF P!vars, vars, mapVars

\* Every step of the pointer code is a step of the abstract cache or none.
LEMMA RefineStep ==
  ASSUME CallInv, Alone, ListInv, CallInv', Alone', P!IndInv, [Next]_vars
  PROVE  ListInv' /\ [P!Next]_(P!vars)
<1>1. CASE UNCHANGED vars
  BY <1>1, RefineStutter
<1>2. CASE Clear
  BY <1>2, RefineClear DEF P!Next
<1>3. ASSUME NEW t \in Threads, LoadStep(t) PROVE ListInv' /\ [P!Next]_(P!vars)
  <2>1. CASE LoadHit(t)
    <3>1. ListInv' /\ P!Load(key[t]) /\ key[t] \in Keys
      BY <2>1, RefineHit
    <3>. QED
      BY <3>1 DEF P!Next
  <2>2. CASE (\E k \in Keys : LoadLock(t, k)) \/ LoadMiss(t)
    BY <2>2, RefineQuiet
  <2>3. CASE Detach(t) \/ Append1(t) \/ Append2(t) \/ Append3(t) \/ Append4(t)
    BY <2>3, RefineMove
  <2>. QED
    BY <1>3, <2>1, <2>2, <2>3 DEF LoadStep
<1>4. ASSUME NEW t \in Threads, InsertStep(t) PROVE ListInv' /\ [P!Next]_(P!vars)
  <2>1. CASE InsertBegin(t)
    <3>1. ListInv' /\ P!Begin(key[t], item[t]) /\ key[t] \in Keys /\ item[t] \in Contents
      BY <2>1, RefineBegin
    <3>. QED
      BY <3>1 DEF P!Next
  <2>2. CASE (\E k \in Keys, d \in Contents : InsertLock(t, k, d)) \/ InsertRefused(t)
    BY <2>2, RefineQuiet
  <2>3. CASE Evict(t)
    BY <2>3, RefineEvict DEF P!Next
  <2>4. CASE Add(t)
    BY <2>4, RefineAdd DEF P!Next
  <2>. QED
    BY <1>4, <2>1, <2>2, <2>3, <2>4 DEF InsertStep
<1>. QED
  BY <1>1, <1>2, <1>3, <1>4 DEF Next

\* The invariant of the pointer code, with that of the abstract cache.
CacheInv == CallInv /\ Alone /\ ListInv /\ P!IndInv

\* The cache starts empty, with no call under way.
LEMMA CacheInitInv == Init => CacheInv /\ P!Init
<1>. SUFFICES ASSUME Init PROVE CacheInv /\ P!Init
  OBVIOUS
<1>1. /\ next = Empty("next") /\ prev = Empty("prev") /\ mapping = {}
      /\ \A u \in Threads : pc[u] = "idle"
  BY DEF Init
<1>2. ListInv /\ Order = <<>> /\ Want = <<>>
  BY <1>1, EmptyRow
<1>3. CallInv
  BY EmptyTypes DEF Init, CallInv, InsertLabels
<1>4. Alone
  BY CacheAssumption DEF Init, Alone, LoadLabels, MoveLabels, InsertLabels
<1>5. P!Init
  BY <1>2 DEF Init, P!Init
<1>6. P!IndInv
  <2>1. P!Init => P!IndInv
    BY P!InitInv, LRUAssumption DEF IsFiniteSet, P!IsFiniteSet
  <2>. QED
    BY <1>5, <2>1
<1>. QED
  BY <1>2, <1>3, <1>4, <1>5, <1>6 DEF CacheInv

\* Every step keeps the invariant and refines the abstract cache.
LEMMA CacheStep == OneLoader /\ CacheInv /\ [Next]_vars => CacheInv' /\ [P!Next]_(P!vars)
<1>. SUFFICES ASSUME OneLoader, CacheInv, [Next]_vars PROVE CacheInv' /\ [P!Next]_(P!vars)
  OBVIOUS
<1>1. CallInv /\ Alone /\ ListInv /\ P!IndInv
  BY DEF CacheInv
<1>2. CallInv'
  BY <1>1, CallStep
<1>3. Alone'
  BY <1>1, AloneStep
<1>4. ListInv' /\ [P!Next]_(P!vars)
  BY <1>1, <1>2, <1>3, RefineStep
<1>5. P!IndInv'
  <2>1. P!IndInv /\ [P!Next]_(P!vars) => P!IndInv'
    BY P!InvStep, LRUAssumption DEF IsFiniteSet, P!IsFiniteSet
  <2>. QED
    BY <1>1, <1>4, <2>1
<1>. QED
  BY <1>2, <1>3, <1>4, <1>5 DEF CacheInv

\* The invariant always holds.
LEMMA CacheInvariance == OneLoader => (Spec => []CacheInv)
<1>. SUFFICES ASSUME OneLoader PROVE Spec => []CacheInv
  OBVIOUS
<1>1. Init => CacheInv
  BY CacheInitInv
<1>2. CacheInv /\ [Next]_vars => CacheInv'
  BY CacheStep
<1>. QED
  BY <1>1, <1>2, PTL DEF Spec

\* With one looking thread at most, every variable keeps its type and
\* occupancy_, unsigned, stays within capacity_ whatever is inserted, looked
\* up or evicted.
THEOREM TypeCorrect == OneLoader => (Spec => []TypeOK)
<1>1. CacheInv => TypeOK
  BY Counted DEF CacheInv, CallInv, TypeOK
<1>. QED
  BY <1>1, CacheInvariance, PTL

\* The assertion in TryInsert's eviction loop never fails: the node at the
\* head of the list is in the map.
THEOREM EvictSafety == OneLoader => (Spec => []EvictFindsVictim)
<1>1. CacheInv => EvictFindsVictim
  <2>. SUFFICES ASSUME CacheInv, NEW t \in Threads, MustEvict(t)
                PROVE  next[Head_] \in mapping
    BY DEF EvictFindsVictim
  <2>1. pc[t] = "insert" /\ mapping # {} /\ Alone /\ ListInv
    BY DEF CacheInv, MustEvict
  <2>2. \A u \in Threads : pc[u] \notin MoveLabels
    BY <2>1 DEF Alone, MoveLabels
  <2>3. PICK n \in Nat : \E e \in [0..(n + 1) -> Nodes] :
           Row(e, n) /\ Settled(e, n) /\ Order = Items(e, n)
    BY <2>1, <2>2, RowOfList
  <2>4. PICK e \in [0..(n + 1) -> Nodes] : Row(e, n) /\ Settled(e, n) /\ Order = Items(e, n)
    BY <2>3
  <2>5. n # 0
    BY <2>1, <2>4 DEF Settled
  <2>6. 0 \in 0..(n - 1) /\ 1 \in 1..n /\ 0 + 1 = 1
    BY <2>5
  <2>7. next[e[0]] = e[1]
    BY <2>4, <2>6 DEF Settled, Forward
  <2>. QED
    BY <2>4, <2>6, <2>7 DEF Row, Settled
<1>. QED
  BY <1>1, CacheInvariance, PTL

\* The row is head_, the list and tail_.
LEMMA RowSeq ==
  ASSUME NEW n \in Nat, NEW e, Row(e, n), NEW s, s = <<Head_>> \o Items(e, n) \o <<Tail_>>
  PROVE  Len(s) = n + 2 /\ \A i \in 1..(n + 2) : s[i] = e[i - 1]
<1>. DEFINE w == Items(e, n)
<1>1. w \in Seq(Keys) /\ Len(w) = n /\ \A i \in 1..n : w[i] = e[i]
  BY ItemsSeq
<1>. HIDE DEF w
<1>2. w \in Seq(Nodes) /\ <<Head_>> \in Seq(Nodes) /\ <<Tail_>> \in Seq(Nodes)
  BY <1>1 DEF Nodes
<1>3. PICK v : v = <<Head_>> \o w
  OBVIOUS
<1>4. v \in Seq(Nodes) /\ Len(v) = n + 1 /\ v[1] = Head_ /\ \A i \in 2..(n + 1) : v[i] = w[i - 1]
  BY <1>1, <1>2, <1>3
<1>5. Len(v \o <<Tail_>>) = n + 2 /\ (v \o <<Tail_>>)[n + 2] = Tail_
      /\ \A i \in 1..(n + 1) : (v \o <<Tail_>>)[i] = v[i]
  BY <1>2, <1>4
<1>6. s = v \o <<Tail_>>
  BY <1>3 DEF w
<1>7. e[0] = Head_ /\ e[n + 1] = Tail_
  BY DEF Row
<1>8. ASSUME NEW i \in 1..(n + 2) PROVE s[i] = e[i - 1]
  <2>1. CASE i = 1
    BY <1>4, <1>5, <1>6, <1>7, <2>1
  <2>2. CASE i \in 2..(n + 1)
    BY <1>1, <1>4, <1>5, <1>6, <2>2
  <2>3. CASE i = n + 2
    BY <1>5, <1>6, <1>7, <2>3
  <2>4. i = 1 \/ i \in 2..(n + 1) \/ i = n + 2
    OBVIOUS
  <2>. QED
    BY <2>1, <2>2, <2>3, <2>4
<1>. QED
  BY <1>5, <1>6, <1>8

\* prev_ mirrors next_ from head_ to tail_ whenever no lookup is between its
\* pointer writes, so Detach and AppendToListTail find a consistent list.
THEOREM MirrorSafety == OneLoader => (Spec => []LinksMirror)
<1>1. CacheInv => LinksMirror
  <2>. SUFFICES ASSUME CacheInv, Moving = {} PROVE LinksMirror
    BY DEF LinksMirror
  <2>1. \A u \in Threads : pc[u] \notin MoveLabels
    BY DEF Moving, MoveLabels
  <2>2. PICK n \in Nat : \E e \in [0..(n + 1) -> Nodes] :
           Row(e, n) /\ Settled(e, n) /\ Order = Items(e, n)
    BY <2>1, RowOfList DEF CacheInv
  <2>3. PICK e \in [0..(n + 1) -> Nodes] : Row(e, n) /\ Settled(e, n) /\ Order = Items(e, n)
    BY <2>2
  <2>4. \A i \in 0..n : next[e[i]] = e[i + 1] /\ prev[e[i + 1]] = e[i]
    BY <2>3, RowLinks DEF Settled
  <2>5. PICK s : s = <<Head_>> \o Order \o <<Tail_>>
    OBVIOUS
  <2>6. Len(s) = n + 2 /\ \A i \in 1..(n + 2) : s[i] = e[i - 1]
    BY <2>3, <2>5, RowSeq
  <2>7. ASSUME NEW i \in 1..(Len(s) - 1) PROVE next[s[i]] = s[i + 1] /\ prev[s[i + 1]] = s[i]
    <3>1. i \in 1..(n + 2) /\ i + 1 \in 1..(n + 2) /\ (i + 1) - 1 = i /\ i - 1 \in 0..n /\ (i - 1) + 1 = i
      BY <2>6
    <3>2. s[i] = e[i - 1] /\ s[i + 1] = e[i]
      BY <2>6, <3>1
    <3>3. next[e[i - 1]] = e[i] /\ prev[e[i]] = e[i - 1]
      BY <2>4, <3>1
    <3>. QED
      BY <3>2, <3>3
  <2>. QED
    BY <2>5, <2>7 DEF LinksMirror
<1>. QED
  BY <1>1, CacheInvariance, PTL

\* The two instances of the abstract cache have the same steps.
LEMMA SameCache == (P!Init <=> LRU!Init) /\ ([P!Next]_(P!vars) => [LRU!Next]_(LRU!vars))
<1>1. P!Init <=> LRU!Init
  BY DEF P!Init, LRU!Init
<1>2. P!Next <=> LRU!Next
  BY DEF LRU!Next, P!Next, LRU!Load, P!Load, LRU!Begin, P!Begin, LRU!Evict, P!Evict, LRU!Add, P!Add,
         LRU!Clear, P!Clear, LRU!MovedToEnd, P!MovedToEnd, LRU!Cached, P!Cached
<1>3. P!vars = LRU!vars /\ (UNCHANGED P!vars <=> UNCHANGED LRU!vars)
  BY DEF P!vars, LRU!vars
<1>. QED
  BY <1>1, <1>2, <1>3

\* TryLoad, TryInsert and Clear, pointer write by pointer write and in
\* unsigned arithmetic, implement the LRU cache.
THEOREM Refinement == OneLoader => (Spec => ImplementsLRU)
<1>. SUFFICES ASSUME OneLoader PROVE Spec => ImplementsLRU
  OBVIOUS
<1>1. Init => LRU!Init
  BY CacheInitInv, SameCache
<1>2. CacheInv /\ [Next]_vars => [LRU!Next]_(LRU!vars)
  BY CacheStep, SameCache
<1>. QED
  BY <1>1, <1>2, CacheInvariance, PTL DEF Spec, ImplementsLRU, LRU!Spec
=============================================================================
