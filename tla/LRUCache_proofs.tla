-------------------------- MODULE LRUCache_proofs --------------------------
(***************************************************************************)
(* The accounting of the LRU cache, for every set of resources, every size *)
(* and every capacity: the counter is the number of cached bytes and never *)
(* exceeds the capacity.                                                   *)
(***************************************************************************)
EXTENDS LRUCache, FiniteSetTheorems, TLAPS

IndInv == TypeOK /\ OrderMatchesMap /\ OccupancyExact

\* The bytes of a resource of n bytes under key k.
Block(k, n) == {k} \X (1..n)

\* A resource of n bytes accounts for n of the tagged bytes.
LEMMA BlockSize ==
  ASSUME NEW k, NEW n \in Nat
  PROVE  IsFiniteSet(Block(k, n)) /\ Cardinality(Block(k, n)) = n
<1>1. IsFiniteSet({k}) /\ Cardinality({k}) = 1
  BY FS_Singleton
<1>2. IsFiniteSet(1..n) /\ Cardinality(1..n) = n
  BY FS_Interval
<1>3. IsFiniteSet({k} \X (1..n)) /\ Cardinality({k} \X (1..n)) = Cardinality({k}) * Cardinality(1..n)
  BY <1>1, <1>2, FS_Product
<1>. QED
  BY <1>1, <1>2, <1>3 DEF Block

\* There are finitely many tagged bytes.
LEMMA BytesFinite == IsFiniteSet(Bytes)
<1>1. IsFiniteSet(1..Capacity)
  BY LRUAssumption, FS_Interval
<1>2. IsFiniteSet(Keys \X (1..Capacity))
  BY <1>1, LRUAssumption, FS_Product
<1>. QED
  BY <1>2, FS_Subset DEF Bytes

\* Two disjoint finite sets.
LEMMA DisjointSum ==
  ASSUME NEW S, NEW T, IsFiniteSet(S), IsFiniteSet(T), S \cap T = {}
  PROVE  Cardinality(S \cup T) = Cardinality(S) + Cardinality(T)
<1>1. Cardinality(S \cup T) = Cardinality(S) + Cardinality(T) - Cardinality(S \cap T)
  BY FS_Union
<1>2. Cardinality(S \cap T) = 0
  BY FS_EmptySet
<1>3. Cardinality(S) \in Nat /\ Cardinality(T) \in Nat
  BY FS_CardinalityType
<1>. QED
  BY <1>1, <1>2, <1>3

\* The cache starts empty.
LEMMA InitInv == Init => IndInv
<1>. SUFFICES ASSUME Init PROVE IndInv
  OBVIOUS
<1>1. TypeOK
  BY DEF Init, TypeOK, Cached
<1>2. OrderMatchesMap
  BY DEF Init, OrderMatchesMap
<1>3. Bytes = {}
  BY DEF Init, Bytes
<1>4. OccupancyExact
  BY <1>3, FS_EmptySet, LRUAssumption DEF Init, OccupancyExact
<1>. QED
  BY <1>1, <1>2, <1>4 DEF IndInv

\* TryLoad permutes the list and leaves the accounting alone.
LEMMA LoadStep ==
  ASSUME IndInv, NEW k \in Keys, Load(k)
  PROVE  IndInv'
<1>1. PICK i \in 1..Len(order) : order' = MovedToEnd(order, i)
  BY DEF Load
<1>2. UNCHANGED <<data, occupancy, want>>
  BY DEF Load
<1>. DEFINE n == Len(order)
<1>3. order \in Seq(Keys) /\ n \in Nat
  BY DEF IndInv, TypeOK
<1>4. /\ Len(order') = n /\ order' \in Seq(Keys)
      /\ \A j \in 1..n : order'[j] = IF j < i THEN order[j] ELSE IF j < n THEN order[j + 1] ELSE order[i]
  BY <1>1, <1>3 DEF MovedToEnd
<1>5. TypeOK'
  BY <1>2, <1>4 DEF IndInv, TypeOK, Cached
<1>6. \A x : (\E j \in 1..n : order[j] = x) <=> (\E j \in 1..n : order'[j] = x)
  <2>1. ASSUME NEW j \in 1..n PROVE \E m \in 1..n : order'[m] = order[j]
    <3>1. CASE j < i
      BY <1>3, <1>4, <3>1
    <3>2. CASE j = i
      <4>1. n \in 1..n /\ order'[n] = order[i]
        BY <1>3, <1>4
      <4>. QED
        BY <3>2, <4>1
    <3>3. CASE j > i
      <4>1. j - 1 \in 1..n /\ order'[j - 1] = order[j]
        BY <1>3, <1>4, <3>3
      <4>. QED
        BY <4>1
    <3>. QED
      BY <1>3, <3>1, <3>2, <3>3
  <2>2. ASSUME NEW j \in 1..n PROVE \E m \in 1..n : order[m] = order'[j]
    <3>1. CASE j < i
      BY <1>4, <3>1
    <3>2. CASE j >= i /\ j < n
      <4>1. j + 1 \in 1..n /\ order'[j] = order[j + 1]
        BY <1>3, <1>4, <3>2
      <4>. QED
        BY <4>1
    <3>3. CASE j >= i /\ j = n
      BY <1>3, <1>4, <3>3
    <3>. QED
      BY <1>3, <3>1, <3>2, <3>3
  <2>. QED
    BY <2>1, <2>2
<1>7. \A j, m \in 1..n : order'[j] = order'[m] => j = m
  <2>1. \A j, m \in 1..n : order[j] = order[m] => j = m
    BY DEF IndInv, OrderMatchesMap
  <2>. DEFINE from(j) == IF j < i THEN j ELSE IF j < n THEN j + 1 ELSE i
  <2>2. \A j \in 1..n : from(j) \in 1..n /\ order'[j] = order[from(j)]
    BY <1>3, <1>4
  <2>3. \A j, m \in 1..n : from(j) = from(m) => j = m
    BY <1>3
  <2>. HIDE DEF from
  <2>. QED
    BY <2>1, <2>2, <2>3
<1>8. OrderMatchesMap'
  BY <1>2, <1>4, <1>6, <1>7 DEF IndInv, OrderMatchesMap
<1>9. OccupancyExact'
  BY <1>2 DEF IndInv, OccupancyExact, Bytes
<1>. QED
  BY <1>5, <1>8, <1>9 DEF IndInv

\* TryInsert has found its key new and its content small enough.
LEMMA BeginStep ==
  ASSUME IndInv, NEW k \in Keys, NEW d \in Contents, Begin(k, d)
  PROVE  IndInv'
<1>1. TypeOK'
  BY DEF IndInv, TypeOK, Cached, Begin
<1>2. OrderMatchesMap' /\ OccupancyExact'
  BY DEF IndInv, OrderMatchesMap, OccupancyExact, Bytes, Begin
<1>. QED
  BY <1>1, <1>2 DEF IndInv

\* The victim's bytes are counted, so the unsigned counter can give them back.
LEMMA EvictFits == IndInv /\ order # <<>> => Size[data[Head(order)]] \in 0..occupancy
<1>. SUFFICES ASSUME IndInv, order # <<>> PROVE Size[data[Head(order)]] \in 0..occupancy
  OBVIOUS
<1>. DEFINE k == Head(order)
            n == Size[data[k]]
<1>1. /\ order \in Seq(Keys) /\ k \in Keys /\ k = order[1]
      /\ Len(order) \in Nat /\ 1 \in 1..Len(order)
  BY DEF IndInv, TypeOK
<1>2. data[k] \in Contents /\ n \in Nat /\ n <= Capacity
  BY <1>1, LRUAssumption DEF IndInv, TypeOK, Cached, OrderMatchesMap
<1>3. Block(k, n) \subseteq Bytes
  BY <1>1, <1>2, LRUAssumption DEF Bytes, Block
<1>4. n <= Cardinality(Bytes)
  BY <1>2, <1>3, BytesFinite, BlockSize, FS_Subset
<1>. QED
  BY <1>2, <1>4 DEF IndInv, OccupancyExact, TypeOK

\* One iteration of the eviction loop gives back the bytes of the victim.
LEMMA EvictStep ==
  ASSUME IndInv, Evict
  PROVE  IndInv'
<1>. DEFINE k == Head(order)
            n == Size[data[k]]
<1>1. /\ order \in Seq(Keys) /\ order # <<>> /\ k \in Keys /\ k = order[1]
      /\ Len(order) \in Nat /\ 1 \in 1..Len(order)
  BY DEF IndInv, TypeOK, Evict
<1>2. data[k] \in Contents /\ n \in Nat /\ n <= Capacity
  BY <1>1, LRUAssumption DEF IndInv, TypeOK, Cached, OrderMatchesMap
<1>3. /\ order' = Tail(order) /\ data' = [data EXCEPT ![k] = Nil]
      /\ occupancy' = occupancy - n /\ want' = want
  BY DEF Evict
<1>4. Bytes = Bytes' \cup Block(k, n) /\ Bytes' \cap Block(k, n) = {}
  BY <1>1, <1>2, <1>3, LRUAssumption DEF IndInv, TypeOK, Bytes, Block
<1>5. IsFiniteSet(Bytes')
  BY <1>4, BytesFinite, FS_Subset
<1>6. Cardinality(Bytes) = Cardinality(Bytes') + n
  BY <1>2, <1>4, <1>5, BlockSize, DisjointSum
<1>7. Cardinality(Bytes') \in Nat
  BY <1>5, FS_CardinalityType
<1>8. OccupancyExact'
  BY <1>2, <1>3, <1>6, <1>7, LRUAssumption DEF IndInv, OccupancyExact
<1>9. TypeOK'
  BY <1>1, <1>3, <1>7, <1>8 DEF IndInv, TypeOK, Cached, OccupancyExact
<1>10. OrderMatchesMap'
  <2>1. /\ Len(order') = Len(order) - 1
        /\ \A j \in 1..Len(order') : order'[j] = order[j + 1]
    BY <1>1, <1>3
  <2>2. \A j, m \in 1..Len(order) : order[j] = order[m] => j = m
    BY DEF IndInv, OrderMatchesMap
  <2>3. \A j, m \in 1..Len(order') : order'[j] = order'[m] => j = m
    BY <1>1, <2>1, <2>2
  <2>4. ASSUME NEW x \in Keys
        PROVE  data'[x] # Nil <=> \E j \in 1..Len(order') : order'[j] = x
    <3>1. CASE x = k
      BY <1>1, <1>3, <2>1, <2>2, <3>1 DEF IndInv, TypeOK
    <3>2. CASE x # k
      <4>1. data'[x] = data[x]
        BY <1>3, <3>2 DEF IndInv, TypeOK
      <4>2. ASSUME NEW j \in 1..Len(order), order[j] = x
            PROVE  \E m \in 1..Len(order') : order'[m] = x
        <5>1. j - 1 \in 1..Len(order') /\ order'[j - 1] = x
          BY <1>1, <2>1, <3>2, <4>2
        <5>. QED
          BY <5>1
      <4>3. ASSUME NEW j \in 1..Len(order'), order'[j] = x
            PROVE  \E m \in 1..Len(order) : order[m] = x
        <5>1. j + 1 \in 1..Len(order) /\ order[j + 1] = x
          BY <1>1, <2>1, <4>3
        <5>. QED
          BY <5>1
      <4>. QED
        BY <4>1, <4>2, <4>3 DEF IndInv, OrderMatchesMap
    <3>. QED
      BY <3>1, <3>2
  <2>. QED
    BY <2>3, <2>4 DEF OrderMatchesMap
<1>. QED
  BY <1>8, <1>9, <1>10 DEF IndInv

\* When the loop has made room, or has emptied the cache, the new content
\* fits: it is not larger than the whole cache.
LEMMA AddFits ==
  IndInv /\ want # <<>> /\ (order = <<>> \/ Capacity - occupancy >= Size[want[2]])
    => occupancy + Size[want[2]] \in 0..Capacity
<1>. SUFFICES ASSUME IndInv, want # <<>>, order = <<>> \/ Capacity - occupancy >= Size[want[2]]
              PROVE  occupancy + Size[want[2]] \in 0..Capacity
  OBVIOUS
<1>1. /\ Size[want[2]] \in Nat /\ Size[want[2]] <= Capacity /\ occupancy \in Nat
  BY LRUAssumption DEF IndInv, TypeOK
<1>2. CASE order = <<>>
  <2>1. Bytes = {}
    BY <1>2 DEF IndInv, OrderMatchesMap, Bytes
  <2>2. occupancy = 0
    BY <2>1, FS_EmptySet DEF IndInv, OccupancyExact
  <2>. QED
    BY <1>1, <2>2, LRUAssumption
<1>3. CASE Capacity - occupancy >= Size[want[2]]
  BY <1>1, <1>3, LRUAssumption
<1>. QED
  BY <1>2, <1>3

\* The end of TryInsert: the content goes to the end of the list and is
\* counted.
LEMMA AddStep ==
  ASSUME IndInv, Add
  PROVE  IndInv'
<1>. DEFINE k == want[1]
            d == want[2]
<1>1. /\ k \in Keys /\ d \in Contents /\ data[k] = Nil
      /\ Size[d] \in Nat /\ Size[d] <= Capacity
      /\ order \in Seq(Keys) /\ Len(order) \in Nat
  BY LRUAssumption DEF IndInv, TypeOK, Add
<1>2. /\ order' = Append(order, k) /\ data' = [data EXCEPT ![k] = d]
      /\ occupancy' = occupancy + Size[d] /\ want' = <<>>
  BY DEF Add
<1>3. occupancy + Size[d] <= Capacity
  BY AddFits DEF Add
<1>4. Bytes' = Bytes \cup Block(k, Size[d]) /\ Bytes \cap Block(k, Size[d]) = {}
  BY <1>1, <1>2, LRUAssumption DEF IndInv, TypeOK, Bytes, Block
<1>5. Cardinality(Bytes') = Cardinality(Bytes) + Size[d]
  BY <1>1, <1>4, BytesFinite, BlockSize, DisjointSum
<1>6. OccupancyExact'
  BY <1>2, <1>3, <1>5 DEF IndInv, OccupancyExact
<1>7. TypeOK'
  BY <1>1, <1>2 DEF IndInv, TypeOK, Cached
<1>8. OrderMatchesMap'
  <2>1. /\ Len(order') = Len(order) + 1 /\ order'[Len(order) + 1] = k
        /\ \A j \in 1..Len(order) : order'[j] = order[j]
    BY <1>1, <1>2
  <2>2. \A j \in 1..Len(order) : order[j] # k
    BY <1>1 DEF IndInv, OrderMatchesMap
  <2>3. \A j, m \in 1..Len(order') : order'[j] = order'[m] => j = m
    BY <1>1, <2>1, <2>2 DEF IndInv, OrderMatchesMap
  <2>4. ASSUME NEW x \in Keys
        PROVE  data'[x] # Nil <=> \E j \in 1..Len(order') : order'[j] = x
    <3>1. CASE x = k
      <4>1. data'[x] # Nil
        BY <1>1, <1>2, <3>1, LRUAssumption DEF IndInv, TypeOK
      <4>2. Len(order) + 1 \in 1..Len(order')
        BY <1>1, <2>1
      <4>. QED
        BY <2>1, <3>1, <4>1, <4>2
    <3>2. CASE x # k
      <4>1. data'[x] = data[x]
        BY <1>2, <3>2 DEF IndInv, TypeOK
      <4>2. (\E j \in 1..Len(order') : order'[j] = x) <=> (\E j \in 1..Len(order) : order[j] = x)
        BY <1>1, <2>1, <3>2
      <4>. QED
        BY <4>1, <4>2 DEF IndInv, OrderMatchesMap
    <3>. QED
      BY <3>1, <3>2
  <2>. QED
    BY <2>3, <2>4 DEF OrderMatchesMap
<1>. QED
  BY <1>6, <1>7, <1>8 DEF IndInv

\* Clear goes back to the empty cache.
LEMMA ClearStep ==
  ASSUME IndInv, Clear
  PROVE  IndInv'
<1>1. TypeOK'
  BY DEF IndInv, TypeOK, Cached, Clear
<1>2. OrderMatchesMap'
  BY DEF OrderMatchesMap, Clear
<1>3. Bytes' = {}
  BY DEF Bytes, Clear
<1>4. OccupancyExact'
  BY <1>3, FS_EmptySet, LRUAssumption DEF OccupancyExact, Clear
<1>. QED
  BY <1>1, <1>2, <1>4 DEF IndInv

\* Every step keeps the inductive invariant.
LEMMA InvStep == IndInv /\ [Next]_vars => IndInv'
<1>. SUFFICES ASSUME IndInv, [Next]_vars PROVE IndInv'
  OBVIOUS
<1>1. CASE UNCHANGED vars
  BY <1>1 DEF vars, IndInv, TypeOK, Cached, OrderMatchesMap, OccupancyExact, Bytes
<1>. QED
  BY <1>1, LoadStep, BeginStep, EvictStep, AddStep, ClearStep DEF Next

\* The inductive invariant always holds.
LEMMA Invariance == Spec => []IndInv
BY InvStep, InitInv, PTL DEF Spec

\* Every variable keeps its type whatever is inserted, looked up or evicted.
THEOREM TypeCorrect == Spec => []TypeOK
<1>1. IndInv => TypeOK
  BY DEF IndInv
<1>. QED
  BY <1>1, Invariance, PTL

\* occupancy_ is the number of cached bytes and stays within capacity_, so the
\* unsigned difference in TryInsert's loop never wraps around.
THEOREM OccupancySafety == Spec => []OccupancyExact
<1>1. IndInv => OccupancyExact
  BY DEF IndInv
<1>. QED
  BY <1>1, Invariance, PTL

\* The recency list and the map always hold the same keys, each once.
THEOREM OrderSafety == Spec => []OrderMatchesMap
<1>1. IndInv => OrderMatchesMap
  BY DEF IndInv
<1>. QED
  BY <1>1, Invariance, PTL
=============================================================================
