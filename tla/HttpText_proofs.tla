--------------------------- MODULE HttpText_proofs ---------------------------
(***************************************************************************)
(* What the parser of requests, the CGI command line and the Content-Type  *)
(* decide, proved for texts of every length.                               *)
(*                                                                         *)
(* Split, FlattenSeq and the lines of a request are recursive: what they   *)
(* compute is proved by induction over a set of numbers (SetInduction),    *)
(* once for Split and Join (SplitGoodAll), once for the lines (SplitLined).*)
(* Everything else follows from where the first and the last delimiter is. *)
(***************************************************************************)
EXTENDS HttpText, WellFoundedInduction, SequenceTheorems, TLAPS

-----------------------------------------------------------------------------
(* Induction over the natural numbers by sets, and FlattenSeq.             *)

\* The order of the naturals, as a well-founded relation.
Less == {ss \in Nat \X Nat : ss[1] < ss[2]}

\* Induction over the naturals, for a set instead of a predicate.
LEMMA SetInduction ==
  ASSUME NEW S, 0 \in S, \A n \in Nat : n \in S => n + 1 \in S
  PROVE  \A n \in Nat : n \in S
<1>1. IsWellFoundedOn(Less, Nat)
  BY NatLessThanWellFounded DEF OpToRel, Less
<1>. SUFFICES ASSUME Nat \ S # {} PROVE FALSE
  OBVIOUS
<1>2. PICK m \in Nat \ S : \A n \in Nat \ S : ~ (<<n, m>> \in Less)
  BY <1>1, WFMin
<1>3. m # 0 /\ m - 1 \in Nat /\ <<m - 1, m>> \in Less
  BY <1>2 DEF Less
<1>. QED
  BY <1>2, <1>3

\* f[i] is what the first i of the sequences make together.
Joins(ss, n, f) == f = [i \in 1..n |-> IF i = 1 THEN ss[i] ELSE f[i - 1] \o ss[i]]

\* One sequence more.
LEMMA JoinsOneMore ==
  ASSUME NEW ss, NEW n \in Nat, NEW f, Joins(ss, n, f), NEW g,
         g = [i \in 1..(n + 1) |-> IF i <= n THEN f[i]
                                   ELSE IF i = 1 THEN ss[i] ELSE f[i - 1] \o ss[i]]
  PROVE  Joins(ss, n + 1, g)
<1>. DEFINE h == [i \in 1..(n + 1) |-> IF i = 1 THEN ss[i] ELSE g[i - 1] \o ss[i]]
<1>1. ASSUME NEW i \in 1..(n + 1) PROVE g[i] = IF i = 1 THEN ss[i] ELSE g[i - 1] \o ss[i]
  <2>1. i # 1 => i - 1 \in 1..n /\ g[i - 1] = f[i - 1]
    OBVIOUS
  <2>2. i <= n => i \in 1..n
    OBVIOUS
  <2>3. \A j \in 1..n : f[j] = IF j = 1 THEN ss[j] ELSE f[j - 1] \o ss[j]
    BY DEF Joins
  <2>4. i <= n => f[i] = IF i = 1 THEN ss[i] ELSE f[i - 1] \o ss[i]
    BY <2>2, <2>3
  <2>5. g[i] = IF i <= n THEN f[i] ELSE IF i = 1 THEN ss[i] ELSE f[i - 1] \o ss[i]
    OBVIOUS
  <2>. QED
    BY <2>1, <2>4, <2>5
<1>2. g = h
  <2>1. g = [i \in 1..(n + 1) |-> g[i]]
    OBVIOUS
  <2>2. \A i \in 1..(n + 1) : g[i] = h[i]
    BY <1>1
  <2>. HIDE DEF h
  <2>3. h = [i \in 1..(n + 1) |-> h[i]]
    BY DEF h
  <2>. QED
    BY <2>1, <2>2, <2>3, Zenon
<1>. QED
  BY <1>2 DEF Joins

\* Any sequence of sequences can be joined.
LEMMA JoinsExists ==
  ASSUME NEW ss, NEW n \in Nat
  PROVE  \E f : Joins(ss, n, f)
<1>. DEFINE S == {m \in Nat : \E f : Joins(ss, m, f)}
<1>1. 0 \in S
  <2>1. \E f : f = [i \in 1..0 |-> ss]
    OBVIOUS
  <2>2. PICK f : f = [i \in 1..0 |-> ss]
    BY <2>1
  <2>3. f = [i \in 1..0 |-> IF i = 1 THEN ss[i] ELSE f[i - 1] \o ss[i]]
    BY <2>2
  <2>. QED
    BY <2>3 DEF Joins
<1>2. ASSUME NEW m \in Nat, m \in S PROVE m + 1 \in S
  <2>1. PICK f : Joins(ss, m, f)
    BY <1>2
  <2>2. PICK g : g = [i \in 1..(m + 1) |-> IF i <= m THEN f[i]
                                   ELSE IF i = 1 THEN ss[i] ELSE f[i - 1] \o ss[i]]
    OBVIOUS
  <2>3. Joins(ss, m + 1, g)
    BY <2>1, <2>2, JoinsOneMore
  <2>. QED
    BY <2>3
<1>. HIDE DEF S
<1>3. \A m \in Nat : m \in S
  BY <1>1, <1>2, SetInduction
<1>. QED
  BY <1>3 DEF S

\* There is one way to join them.
LEMMA JoinsUnique ==
  ASSUME NEW ss, NEW n \in Nat, NEW f, NEW g, Joins(ss, n, f), Joins(ss, n, g)
  PROVE  f = g
<1>. DEFINE S == {m \in Nat : m \in 1..n => f[m] = g[m]}
<1>1. 0 \in S
  OBVIOUS
<1>2. ASSUME NEW m \in Nat, m \in S PROVE m + 1 \in S
  <2>1. m + 1 \in 1..n => f[m + 1] = IF m + 1 = 1 THEN ss[m + 1] ELSE f[(m + 1) - 1] \o ss[m + 1]
    BY DEF Joins
  <2>2. m + 1 \in 1..n => g[m + 1] = IF m + 1 = 1 THEN ss[m + 1] ELSE g[(m + 1) - 1] \o ss[m + 1]
    BY DEF Joins
  <2>3. (m + 1) - 1 = m /\ (m + 1 \in 1..n /\ m + 1 # 1 => m \in 1..n)
    OBVIOUS
  <2>. QED
    BY <1>2, <2>1, <2>2, <2>3
<1>. HIDE DEF S
<1>3. \A m \in Nat : m \in S
  BY <1>1, <1>2, SetInduction
<1>4. \A m \in 1..n : f[m] = g[m]
  BY <1>3 DEF S
<1>. QED
  BY <1>4 DEF Joins

\* FlattenSeq is the last of the joins.
LEMMA FlattenIsJoin ==
  ASSUME NEW ss, Len(ss) \in Nat, Len(ss) # 0, NEW f, Joins(ss, Len(ss), f)
  PROVE  FlattenSeq(ss) = f[Len(ss)]
<1>. DEFINE flat == CHOOSE g : g = [i \in 1..Len(ss) |-> IF i = 1 THEN ss[i] ELSE g[i - 1] \o ss[i]]
<1>1. FlattenSeq(ss) = flat[Len(ss)]
  BY DEF FlattenSeq
<1>2. Joins(ss, Len(ss), flat)
  BY DEF Joins
<1>3. flat = f
  <2>. HIDE DEF flat
  <2>. QED
    BY <1>2, JoinsUnique
<1>. QED
  BY <1>1, <1>3

\* Flattening with one sequence more appends it.
LEMMA FlattenAppend ==
  ASSUME NEW S, NEW ss \in Seq(Seq(S)), NEW s \in Seq(S), NEW more, more = Append(ss, s)
  PROVE  FlattenSeq(more) = FlattenSeq(ss) \o s
<1>. DEFINE n == Len(ss)
<1>1. /\ n \in Nat /\ Len(more) = n + 1 /\ more[n + 1] = s
      /\ \A i \in 1..n : more[i] = ss[i]
  OBVIOUS
<1>. HIDE DEF n
<1>2. PICK f : Joins(ss, n, f)
  BY <1>1, JoinsExists
<1>3. Joins(more, n, f)
  BY <1>1, <1>2 DEF Joins
<1>4. PICK g : g = [i \in 1..(n + 1) |-> IF i <= n THEN f[i]
                                   ELSE IF i = 1 THEN more[i] ELSE f[i - 1] \o more[i]]
  OBVIOUS
<1>5. Joins(more, n + 1, g)
  <2>1. n \in Nat
    BY <1>1
  <2>. QED
    BY <2>1, <1>3, <1>4, JoinsOneMore
<1>6. FlattenSeq(more) = g[n + 1]
  <2>1. Len(more) \in Nat /\ Len(more) # 0 /\ Joins(more, Len(more), g)
    BY <1>1, <1>5
  <2>2. FlattenSeq(more) = g[Len(more)]
    BY <2>1, FlattenIsJoin
  <2>. QED
    BY <1>1, <2>2
<1>7. g[n + 1] = IF n + 1 = 1 THEN s ELSE f[(n + 1) - 1] \o s
  BY <1>1, <1>4
<1>8. CASE n = 0
  <2>1. ss = <<>> /\ FlattenSeq(ss) = ss
    BY <1>8 DEF FlattenSeq, n
  <2>2. <<>> \o s = s
    BY ConcatEmptySeq
  <2>. QED
    BY <1>6, <1>7, <1>8, <2>1, <2>2
<1>9. CASE n # 0
  <2>1. FlattenSeq(ss) = f[n]
    BY <1>1, <1>2, <1>9, FlattenIsJoin DEF n
  <2>2. (n + 1) - 1 = n /\ n + 1 # 1
    BY <1>1, <1>9
  <2>. QED
    BY <1>6, <1>7, <2>1, <2>2
<1>. QED
  BY <1>8, <1>9

\* Concatenation is associative.
LEMMA Assoc ==
  ASSUME NEW S, NEW a \in Seq(S), NEW b \in Seq(S), NEW c \in Seq(S)
  PROVE  (a \o b) \o c = a \o (b \o c)
<1>1. a \o (b \o c) = (a \o b) \o c
  BY ConcatAssociative, SMTT(30)
<1>. QED
  BY <1>1

\* Flattening gives a sequence, and one sequence more in front goes in front.
LEMMA FlattenCons ==
  ASSUME NEW S
  PROVE  \A ss \in Seq(Seq(S)) : /\ FlattenSeq(ss) \in Seq(S)
                                 /\ \A s \in Seq(S) : FlattenSeq(<<s>> \o ss) = s \o FlattenSeq(ss)
<1>. DEFINE Good(ss) == /\ FlattenSeq(ss) \in Seq(S)
                        /\ \A s \in Seq(S) : FlattenSeq(<<s>> \o ss) = s \o FlattenSeq(ss)
            N == {n \in Nat : \A ss \in Seq(Seq(S)) : Len(ss) = n => Good(ss)}
<1>0. <<>> \in Seq(Seq(S)) /\ <<>> \in Seq(S) /\ FlattenSeq(<<>>) = <<>>
  BY EmptySeq DEF FlattenSeq
<1>1. 0 \in N
  <2>. SUFFICES ASSUME NEW ss \in Seq(Seq(S)), Len(ss) = 0 PROVE Good(ss)
    OBVIOUS
  <2>1. ss = <<>>
    OBVIOUS
  <2>2. ASSUME NEW s \in Seq(S) PROVE FlattenSeq(<<s>> \o ss) = s \o FlattenSeq(ss)
    <3>1. <<s>> \o <<>> = <<s>> /\ Append(<<>>, s) = <<s>> /\ <<>> \o s = s /\ s \o <<>> = s
      BY <1>0, ConcatEmptySeq
    <3>2. FlattenSeq(Append(<<>>, s)) = FlattenSeq(<<>>) \o s
      BY <1>0, FlattenAppend
    <3>. QED
      BY <1>0, <2>1, <3>1, <3>2
  <2>. QED
    BY <1>0, <2>1, <2>2
<1>2. ASSUME NEW n \in Nat, n \in N PROVE n + 1 \in N
  <2>. SUFFICES ASSUME NEW ss \in Seq(Seq(S)), Len(ss) = n + 1 PROVE Good(ss)
    OBVIOUS
  <2>1. PICK w \in Seq(Seq(S)), x \in Seq(S) : ss = Append(w, x) /\ Len(w) = n
    <3>1. /\ SubSeq(ss, 1, n) \in Seq(Seq(S)) /\ ss[n + 1] \in Seq(S) /\ Len(SubSeq(ss, 1, n)) = n
          /\ ss = Append(SubSeq(ss, 1, n), ss[n + 1])
      OBVIOUS
    <3>. QED
      BY <3>1
  <2>2. Good(w)
    BY <1>2, <2>1
  <2>3. FlattenSeq(ss) = FlattenSeq(w) \o x
    BY <2>1, FlattenAppend
  <2>4. ASSUME NEW s \in Seq(S) PROVE FlattenSeq(<<s>> \o ss) = s \o FlattenSeq(ss)
    <3>1. <<s>> \o w \in Seq(Seq(S)) /\ <<s>> \o ss = Append(<<s>> \o w, x)
      BY <2>1
    <3>2. FlattenSeq(<<s>> \o ss) = FlattenSeq(<<s>> \o w) \o x
      BY <3>1, FlattenAppend
    <3>3. FlattenSeq(<<s>> \o w) = s \o FlattenSeq(w)
      BY <2>2
    <3>4. (s \o FlattenSeq(w)) \o x = s \o (FlattenSeq(w) \o x)
      <4>1. PICK y \in Seq(S) : y = FlattenSeq(w)
        BY <2>2
      <4>2. (s \o y) \o x = s \o (y \o x)
        BY <2>1, Assoc
      <4>. QED
        BY <4>1, <4>2
    <3>. QED
      BY <2>3, <3>2, <3>3, <3>4
  <2>5. FlattenSeq(ss) \in Seq(S)
    BY <2>2, <2>3
  <2>. QED
    BY <2>4, <2>5
<1>. HIDE DEF N
<1>3. \A n \in Nat : n \in N
  BY <1>1, <1>2, SetInduction
<1>4. ASSUME NEW ss \in Seq(Seq(S)) PROVE Good(ss)
  <2>1. Len(ss) \in Nat
    OBVIOUS
  <2>2. Len(ss) \in N
    BY <1>3, <2>1
  <2>. HIDE DEF Good
  <2>. QED
    BY <2>2 DEF N
<1>. QED
  BY <1>4

-----------------------------------------------------------------------------
(* The searches and substr.                                                *)

\* A set of numbers has a least one.
LEMMA LeastNat ==
  ASSUME NEW T \in SUBSET Nat, T # {}
  PROVE  \E m \in T : \A n \in T : m <= n
<1>1. IsWellFoundedOn(Less, Nat)
  BY NatLessThanWellFounded DEF OpToRel, Less
<1>2. PICK m \in T : \A n \in T : ~ (<<n, m>> \in Less)
  BY <1>1, WFMin
<1>3. ASSUME NEW n \in T PROVE m <= n
  <2>1. m \in Nat /\ n \in Nat
    OBVIOUS
  <2>2. ~ (n < m)
    BY <1>2, <2>1 DEF Less
  <2>. QED
    BY <2>1, <2>2
<1>. QED
  BY <1>3

\* Min of a set of two numbers.
LEMMA MinOfTwo ==
  ASSUME NEW a \in Nat, NEW b \in Nat
  PROVE  Min({a, b}) = IF a <= b THEN a ELSE b
BY DEF Min

\* The lexeme d is at q and not before, or nowhere, from position p on.
FirstAt(s, d, p, q) ==
  q \in p..(Len(s) - 1) /\ s[q + 1] = d /\ \A i \in p..(q - 1) : s[i + 1] # d
NoneFrom(s, d, p) == \A i \in p..(Len(s) - 1) : s[i + 1] # d

\* find meets the lexeme at q first.
LEMMA FindAt ==
  ASSUME NEW S, NEW s \in Seq(S), NEW d, NEW p \in Nat, NEW q, FirstAt(s, d, p, q)
  PROVE  find(s, d, p) = q
<1>. DEFINE T == {i \in p..(Len(s) - 1) : s[i + 1] = d}
<1>1. q \in T /\ T \subseteq Nat /\ \A i \in T : q <= i
  BY DEF FirstAt
<1>2. find(s, d, p) = Min(T) /\ T # {}
  BY <1>1 DEF find, Least
<1>. HIDE DEF T
<1>3. Min(T) = q
  <2>1. \A x \in T : (\A y \in T : x <= y) => x = q
    BY <1>1
  <2>2. \A y \in T : q <= y
    BY <1>1
  <2>. QED
    BY <1>1, <2>1, <2>2 DEF Min
<1>. QED
  BY <1>2, <1>3

\* find meets no such lexeme.
LEMMA FindNone ==
  ASSUME NEW s, NEW d, NEW p, NoneFrom(s, d, p)
  PROVE  find(s, d, p) = npos
BY DEF find, Least, NoneFrom

\* One or the other is the case.
LEMMA FindCases ==
  ASSUME NEW S, NEW s \in Seq(S), NEW d, NEW p \in Nat
  PROVE  \/ find(s, d, p) = npos /\ NoneFrom(s, d, p)
         \/ FirstAt(s, d, p, find(s, d, p))
<1>. DEFINE T == {i \in p..(Len(s) - 1) : s[i + 1] = d}
<1>1. CASE T = {}
  <2>1. NoneFrom(s, d, p)
    BY <1>1 DEF NoneFrom
  <2>. QED
    BY <2>1, FindNone
<1>2. CASE T # {}
  <2>1. T \subseteq Nat
    OBVIOUS
  <2>. HIDE DEF T
  <2>2. PICK q \in T : \A n \in T : q <= n
    BY <1>2, <2>1, LeastNat
  <2>3. FirstAt(s, d, p, q)
    BY <2>2 DEF T, FirstAt
  <2>4. find(s, d, p) = q
    BY <2>3, FindAt
  <2>. QED
    BY <2>3, <2>4
<1>. QED
  BY <1>1, <1>2

\* substr, when it asks for no more than there is.
LEMMA SubstrIs ==
  ASSUME NEW S, NEW s \in Seq(S), NEW p \in 0..Len(s), NEW n \in 0..(Len(s) - p)
  PROVE  substr(s, p, n) = SubSeq(s, p + 1, p + n)
<1>1. p + n \in Nat /\ Len(s) \in Nat /\ p + n <= Len(s)
  OBVIOUS
<1>2. Min({p + n, Len(s)}) = p + n
  BY <1>1, MinOfTwo
<1>. QED
  BY <1>2 DEF substr

\* What the loop of Split has from position curr on, given what it has later.
Piece(s, d, f, curr) ==
  IF find(s, d, curr) # npos
  THEN <<substr(s, curr, find(s, d, curr) - curr)>> \o f[find(s, d, curr) + 1]
  ELSE IF curr # Len(s) THEN <<substr(s, curr, Len(s) - curr)>> ELSE <<>>

Cuts(s, d, f) == f = [curr \in 0..Len(s) |-> Piece(s, d, f, curr)]

\* It depends on later positions only.
LEMMA PieceDepends ==
  ASSUME NEW S, NEW s \in Seq(S), NEW d, NEW f, NEW g, NEW curr \in 0..Len(s),
         \A i \in (curr + 1)..Len(s) : f[i] = g[i]
  PROVE  Piece(s, d, f, curr) = Piece(s, d, g, curr)
<1>1. CASE find(s, d, curr) = npos
  BY <1>1 DEF Piece
<1>2. CASE find(s, d, curr) # npos
  <2>0. curr \in Nat
    OBVIOUS
  <2>1. find(s, d, curr) \in curr..(Len(s) - 1)
    BY <1>2, <2>0, FindCases DEF FirstAt
  <2>2. find(s, d, curr) + 1 \in (curr + 1)..Len(s)
    BY <2>1
  <2>3. f[find(s, d, curr) + 1] = g[find(s, d, curr) + 1]
    BY <2>2
  <2>. QED
    BY <2>3 DEF Piece
<1>. QED
  BY <1>1, <1>2

\* The loop ends.
LEMMA CutsExist ==
  ASSUME NEW S, NEW s \in Seq(S), NEW d
  PROVE  \E f : Cuts(s, d, f)
<1>. DEFINE l == Len(s)
            N == {n \in Nat : n <= l => \E f : \A c \in (l - n)..l : f[c] = Piece(s, d, f, c)}
<1>0. l \in Nat
  OBVIOUS
<1>. HIDE DEF l
<1>1. 0 \in N
  <2>1. PICK f : f = [c \in {l} |-> Piece(s, d, <<>>, c)]
    OBVIOUS
  <2>2. Piece(s, d, f, l) = Piece(s, d, <<>>, l)
    <3>1. l \in 0..Len(s) /\ \A i \in (l + 1)..Len(s) : f[i] = <<>>[i]
      BY <1>0 DEF l
    <3>. QED
      BY <3>1, PieceDepends
  <2>3. f[l] = Piece(s, d, f, l)
    BY <2>1, <2>2
  <2>4. \A c \in (l - 0)..l : f[c] = Piece(s, d, f, c)
    BY <1>0, <2>3
  <2>. QED
    BY <2>4
<1>2. ASSUME NEW n \in Nat, n \in N PROVE n + 1 \in N
  <2>. SUFFICES ASSUME n + 1 <= l
                PROVE  \E g : \A c \in (l - (n + 1))..l : g[c] = Piece(s, d, g, c)
    OBVIOUS
  <2>1. n <= l
    BY <1>0
  <2>2. PICK f : \A c \in (l - n)..l : f[c] = Piece(s, d, f, c)
    BY <1>2, <2>1
  <2>3. PICK first : first = l - (n + 1)
    OBVIOUS
  <2>4. first \in 0..l /\ first + 1 = l - n
    BY <1>0, <2>3
  <2>5. PICK g : g = [c \in first..l |-> IF c = first THEN Piece(s, d, f, c) ELSE f[c]]
    OBVIOUS
  <2>6. g[first] = Piece(s, d, f, first) /\ \A c \in (first + 1)..l : g[c] = f[c]
    BY <1>0, <2>4, <2>5
  <2>7. ASSUME NEW c \in first..l PROVE g[c] = Piece(s, d, g, c)
    <3>1. \A i \in (c + 1)..Len(s) : f[i] = g[i]
      BY <1>0, <2>4, <2>6 DEF l
    <3>2. c \in 0..Len(s)
      BY <1>0, <2>4 DEF l
    <3>3. Piece(s, d, f, c) = Piece(s, d, g, c)
      BY <3>1, <3>2, PieceDepends
    <3>4. g[c] = Piece(s, d, f, c)
      BY <1>0, <2>2, <2>4, <2>6
    <3>. QED
      BY <3>3, <3>4
  <2>. QED
    BY <2>3, <2>7
<1>. HIDE DEF N
<1>3. \A n \in Nat : n \in N
  BY <1>1, <1>2, SetInduction
<1>4. PICK f : \A c \in (l - l)..l : f[c] = Piece(s, d, f, c)
  <2>1. l \in N
    BY <1>0, <1>3
  <2>. QED
    BY <1>0, <2>1 DEF N
<1>5. \A c \in 0..l : f[c] = Piece(s, d, f, c)
  BY <1>0, <1>4
<1>6. PICK g : g = [c \in 0..Len(s) |-> f[c]]
  OBVIOUS
<1>7. ASSUME NEW c \in 0..Len(s) PROVE f[c] = Piece(s, d, g, c)
  <2>1. \A i \in (c + 1)..Len(s) : f[i] = g[i]
    BY <1>6
  <2>2. Piece(s, d, f, c) = Piece(s, d, g, c)
    BY <2>1, PieceDepends
  <2>. QED
    BY <1>5, <2>2 DEF l
<1>8. g = [c \in 0..Len(s) |-> Piece(s, d, g, c)]
  BY <1>6, <1>7
<1>. QED
  BY <1>8 DEF Cuts

\* So Split is what such a function has at position 0.
LEMMA SplitIs ==
  ASSUME NEW S, NEW s \in Seq(S), NEW d
  PROVE  \E f : Cuts(s, d, f) /\ Split(s, d) = f[0]
<1>. DEFINE from == CHOOSE f : f = [curr \in 0..Len(s) |->
        IF find(s, d, curr) # npos
        THEN <<substr(s, curr, find(s, d, curr) - curr)>> \o f[find(s, d, curr) + 1]
        ELSE IF curr # Len(s) THEN <<substr(s, curr, Len(s) - curr)>>
        ELSE <<>>]
<1>1. Split(s, d) = from[0]
  BY DEF Split
<1>2. \E f : Cuts(s, d, f)
  BY CutsExist
<1>3. Cuts(s, d, from)
  BY <1>2 DEF Cuts, Piece
<1>. QED
  BY <1>1, <1>3

-----------------------------------------------------------------------------
(* Split, from one delimiter to the next.                                  *)

\* A text and what follows it.
LEMMA ConcatIs ==
  ASSUME NEW S, NEW p \in Seq(S), NEW r \in Seq(S), NEW s, s = p \o r
  PROVE  /\ s \in Seq(S) /\ Len(s) = Len(p) + Len(r) /\ Len(p) \in Nat /\ Len(r) \in Nat
         /\ \A i \in 1..Len(p) : s[i] = p[i]
         /\ \A i \in 1..Len(r) : s[Len(p) + i] = r[i]
<1>1. /\ s \in Seq(S) /\ Len(s) = Len(p) + Len(r) /\ Len(p) \in Nat /\ Len(r) \in Nat
      /\ \A i \in 1..(Len(p) + Len(r)) : s[i] = IF i <= Len(p) THEN p[i] ELSE r[i - Len(p)]
  OBVIOUS
<1>2. ASSUME NEW i \in 1..Len(r) PROVE s[Len(p) + i] = r[i]
  <2>1. Len(p) + i \in 1..(Len(p) + Len(r)) /\ ~ (Len(p) + i <= Len(p)) /\ (Len(p) + i) - Len(p) = i
    BY <1>1
  <2>. QED
    BY <1>1, <2>1
<1>. QED
  BY <1>1, <1>2

\* The text s is p followed by r.
Follows(S, p, r, s) == p \in Seq(S) /\ r \in Seq(S) /\ s = p \o r

\* Searching s from n + j on gives what searching r from j on gives, n further.
Moved(r, s, d, n, j) ==
  \/ find(r, d, j) = npos /\ find(s, d, n + j) = npos
  \/ /\ find(r, d, j) \in j..(Len(r) - 1) /\ find(r, d, j) # npos
     /\ find(s, d, n + j) = n + find(r, d, j) /\ find(s, d, n + j) # npos

\* Searching behind a prefix is searching what follows it.
LEMMA FindShift ==
  ASSUME NEW S, NEW p, NEW r, NEW s, Follows(S, p, r, s), NEW d, NEW j \in 0..Len(r),
         Len(s) < SizeMax, SizeMax \in Nat
  PROVE  Moved(r, s, d, Len(p), j)
<1>. p \in Seq(S) /\ r \in Seq(S) /\ s = p \o r
  BY DEF Follows
<1>0. /\ s \in Seq(S) /\ Len(s) = Len(p) + Len(r) /\ Len(p) \in Nat /\ Len(r) \in Nat
      /\ \A i \in 1..Len(r) : s[Len(p) + i] = r[i]
  BY ConcatIs
<1>. DEFINE n == Len(p)
<1>a. j \in Nat /\ n + j \in Nat
  BY <1>0
<1>1. CASE find(r, d, j) = npos /\ NoneFrom(r, d, j)
  <2>1. ASSUME NEW i \in (n + j)..(Len(s) - 1) PROVE s[i + 1] # d
    <3>1. PICK k : k = i - n
      OBVIOUS
    <3>2. k \in j..(Len(r) - 1) /\ k + 1 \in 1..Len(r) /\ n + (k + 1) = i + 1
      BY <1>0, <3>1
    <3>3. s[i + 1] = r[k + 1]
      BY <1>0, <3>2
    <3>. QED
      BY <1>1, <3>2, <3>3 DEF NoneFrom
  <2>2. NoneFrom(s, d, n + j)
    BY <2>1 DEF NoneFrom
  <2>3. find(s, d, n + j) = npos
    BY <2>2, FindNone
  <2>. QED
    BY <1>1, <2>3 DEF Moved
<1>2. CASE FirstAt(r, d, j, find(r, d, j))
  <2>0. PICK q : q = find(r, d, j)
    OBVIOUS
  <2>1. /\ q \in j..(Len(r) - 1) /\ r[q + 1] = d
        /\ n + q \in (n + j)..(Len(s) - 1) /\ q + 1 \in 1..Len(r) /\ n + (q + 1) = (n + q) + 1
    BY <1>0, <1>2, <2>0 DEF FirstAt
  <2>2. s[(n + q) + 1] = d
    BY <1>0, <2>1
  <2>3. ASSUME NEW i \in (n + j)..((n + q) - 1) PROVE s[i + 1] # d
    <3>1. PICK k : k = i - n
      OBVIOUS
    <3>2. k \in j..(q - 1) /\ k + 1 \in 1..Len(r) /\ n + (k + 1) = i + 1
      BY <1>0, <2>1, <3>1
    <3>3. s[i + 1] = r[k + 1]
      BY <1>0, <3>2
    <3>. QED
      BY <1>2, <2>0, <3>2, <3>3 DEF FirstAt
  <2>4. FirstAt(s, d, n + j, n + q)
    BY <2>1, <2>2, <2>3 DEF FirstAt
  <2>5. find(s, d, n + j) = n + q
    BY <1>0, <1>a, <2>4, FindAt
  <2>6. q # npos /\ n + q # npos
    <3>1. q \in Nat /\ n \in Nat /\ n + q < SizeMax
      BY <1>0, <2>1
    <3>. QED
      BY <3>1 DEF npos
  <2>7. find(r, d, j) \in j..(Len(r) - 1) /\ find(r, d, j) # npos
    BY <2>0, <2>1, <2>6
  <2>8. find(s, d, Len(p) + j) = Len(p) + find(r, d, j) /\ find(s, d, Len(p) + j) # npos
    BY <2>0, <2>5, <2>6
  <2>. QED
    BY <2>7, <2>8 DEF Moved
<1>3. \/ find(r, d, j) = npos /\ NoneFrom(r, d, j)
      \/ FirstAt(r, d, j, find(r, d, j))
  BY <1>a, FindCases
<1>. QED
  BY <1>1, <1>2, <1>3

\* So is cutting.
LEMMA SubstrShift ==
  ASSUME NEW S, NEW p, NEW r, NEW s, Follows(S, p, r, s),
         NEW j \in 0..Len(r), NEW n \in 0..(Len(r) - j)
  PROVE  substr(s, Len(p) + j, n) = substr(r, j, n)
<1>. p \in Seq(S) /\ r \in Seq(S) /\ s = p \o r
  BY DEF Follows
<1>0. /\ s \in Seq(S) /\ Len(s) = Len(p) + Len(r) /\ Len(p) \in Nat /\ Len(r) \in Nat
      /\ \A i \in 1..Len(r) : s[Len(p) + i] = r[i]
  BY ConcatIs
<1>1. substr(r, j, n) = SubSeq(r, j + 1, j + n)
  BY SubstrIs
<1>2. PICK a : a = Len(p) + j
  OBVIOUS
<1>3. a \in 0..Len(s) /\ n \in 0..(Len(s) - a)
  BY <1>0, <1>2
<1>4. substr(s, a, n) = SubSeq(s, a + 1, a + n)
  BY <1>0, <1>3, SubstrIs
<1>5. SubSeq(s, a + 1, a + n) = SubSeq(r, j + 1, j + n)
  <2>1. SubSeq(r, j + 1, j + n) = [i \in 1..n |-> r[i + j]]
    BY <1>0
  <2>2. SubSeq(s, a + 1, a + n) = [i \in 1..n |-> s[i + a]]
    BY <1>0, <1>3
  <2>3. ASSUME NEW i \in 1..n PROVE s[i + a] = r[i + j]
    <3>1. i + j \in 1..Len(r) /\ Len(p) + (i + j) = i + a
      BY <1>0, <1>2
    <3>. QED
      BY <1>0, <3>1
  <2>. QED
    BY <2>1, <2>2, <2>3
<1>. QED
  BY <1>1, <1>2, <1>4, <1>5

\* Behind a prefix, Split goes on as if what follows were all.
LEMMA CutsSuffix ==
  ASSUME NEW S, NEW p, NEW r, NEW s, Follows(S, p, r, s), NEW d,
         Len(s) < SizeMax, SizeMax \in Nat, NEW f, Cuts(s, d, f), NEW g, Cuts(r, d, g)
  PROVE  \A j \in 0..Len(r) : f[Len(p) + j] = g[j]
<1>. DEFINE n == Len(p)
            l == Len(r)
<1>0. s \in Seq(S) /\ Len(s) = n + l /\ n \in Nat /\ l \in Nat
  BY ConcatIs DEF Follows
<1>a. \A c \in 0..Len(s) : f[c] = Piece(s, d, f, c)
  BY DEF Cuts
<1>b. \A c \in 0..l : g[c] = Piece(r, d, g, c)
  BY DEF Cuts
<1>c. \A j \in 0..Len(r) : \A k \in 0..(Len(r) - j) : substr(s, Len(p) + j, k) = substr(r, j, k)
  <2>. SUFFICES ASSUME NEW j \in 0..Len(r), NEW k \in 0..(Len(r) - j)
                PROVE  substr(s, Len(p) + j, k) = substr(r, j, k)
    OBVIOUS
  <2>. QED
    BY SubstrShift
<1>e. \A j \in 0..Len(r) : Moved(r, s, d, Len(p), j)
  BY FindShift
<1>d. Len(r) = l /\ Len(p) = n
  OBVIOUS
<1>. HIDE DEF n, l
<1>1. ASSUME NEW j \in 0..l, \A k \in (j + 1)..l : f[n + k] = g[k] PROVE f[n + j] = g[j]
  <2>1. f[n + j] = Piece(s, d, f, n + j) /\ g[j] = Piece(r, d, g, j)
    <3>1. n + j \in 0..Len(s)
      BY <1>0
    <3>. QED
      BY <1>a, <1>b, <3>1
  <2>2. CASE find(r, d, j) = npos /\ find(s, d, n + j) = npos
    <3>1. n + j # Len(s) <=> j # l
      BY <1>0
    <3>2. Len(s) - (n + j) = l - j /\ l - j \in 0..(l - j)
      BY <1>0
    <3>3. substr(s, n + j, l - j) = substr(r, j, l - j)
      BY <1>c, <1>d, <3>2
    <3>4. Piece(s, d, f, n + j) = IF n + j # Len(s) THEN <<substr(s, n + j, l - j)>> ELSE <<>>
      BY <2>2, <3>2 DEF Piece
    <3>5. Piece(r, d, g, j) = IF j # l THEN <<substr(r, j, l - j)>> ELSE <<>>
      BY <1>d, <2>2 DEF Piece
    <3>. QED
      BY <2>1, <3>1, <3>3, <3>4, <3>5
  <2>3. CASE /\ find(r, d, j) \in j..(l - 1) /\ find(r, d, j) # npos
             /\ find(s, d, n + j) = n + find(r, d, j) /\ find(s, d, n + j) # npos
    <3>1. PICK q \in j..(l - 1) : q = find(r, d, j)
      BY <2>3
    <3>2. (n + q) - (n + j) = q - j /\ q - j \in 0..(l - j) /\ (n + q) + 1 = n + (q + 1) /\ q + 1 \in (j + 1)..l
      BY <1>0
    <3>3. substr(s, n + j, q - j) = substr(r, j, q - j)
      BY <1>c, <1>d, <3>2
    <3>4. f[(n + q) + 1] = g[q + 1]
      BY <1>1, <3>2
    <3>5. find(r, d, j) = q /\ find(s, d, n + j) = n + q /\ q # npos /\ n + q # npos
      BY <2>3, <3>1
    <3>6. Piece(s, d, f, n + j) = <<substr(s, n + j, q - j)>> \o f[(n + q) + 1]
      BY <3>2, <3>5 DEF Piece
    <3>7. Piece(r, d, g, j) = <<substr(r, j, q - j)>> \o g[q + 1]
      BY <3>5 DEF Piece
    <3>. QED
      BY <2>1, <3>3, <3>4, <3>6, <3>7
  <2>. QED
    BY <1>d, <1>e, <2>2, <2>3 DEF Moved
<1>. DEFINE N == {m \in Nat : \A j \in 0..l : l - j <= m => f[n + j] = g[j]}
<1>2. 0 \in N
  <2>. SUFFICES ASSUME NEW j \in 0..l, l - j <= 0 PROVE f[n + j] = g[j]
    OBVIOUS
  <2>1. \A k \in (j + 1)..l : f[n + k] = g[k]
    BY <1>0
  <2>. QED
    BY <1>1, <2>1
<1>3. ASSUME NEW m \in Nat, m \in N PROVE m + 1 \in N
  <2>. SUFFICES ASSUME NEW j \in 0..l, l - j <= m + 1 PROVE f[n + j] = g[j]
    OBVIOUS
  <2>1. \A k \in (j + 1)..l : k \in 0..l /\ l - k <= m
    BY <1>0
  <2>2. \A k \in (j + 1)..l : f[n + k] = g[k]
    BY <1>3, <2>1
  <2>. QED
    BY <1>1, <2>2
<1>. HIDE DEF N
<1>4. \A m \in Nat : m \in N
  BY <1>2, <1>3, SetInduction
<1>5. l \in N
  BY <1>0, <1>4
<1>. QED
  BY <1>0, <1>5, <1>d DEF N

\* No occurrence of the delimiter.
Free(s, d) == \A i \in 1..Len(s) : s[i] # d

\* Split takes the part before the first delimiter, and goes on behind it.
LEMMA SplitFirst ==
  ASSUME NEW S, NEW p \in Seq(S), NEW d \in S, NEW r \in Seq(S), Free(p, d),
         NEW s, Follows(S, p \o <<d>>, r, s), Len(s) < SizeMax, SizeMax \in Nat
  PROVE  Split(s, d) = <<p>> \o Split(r, d)
<1>. DEFINE n == Len(p)
<1>1. PICK v : v = p \o <<d>>
  OBVIOUS
<1>2. v \in Seq(S) /\ Len(v) = n + 1 /\ n \in Nat /\ v[n + 1] = d /\ \A i \in 1..n : v[i] = p[i]
  BY <1>1
<1>3. s = v \o r
  BY <1>1 DEF Follows
<1>4. /\ s \in Seq(S) /\ Len(s) = Len(v) + Len(r) /\ Len(r) \in Nat
      /\ \A i \in 1..Len(v) : s[i] = v[i]
  <2>1. v \in Seq(S)
    BY <1>2
  <2>. QED
    BY <1>3, <2>1, ConcatIs
<1>5. PICK f : Cuts(s, d, f) /\ Split(s, d) = f[0]
  BY <1>4, SplitIs
<1>6. PICK g : Cuts(r, d, g) /\ Split(r, d) = g[0]
  BY SplitIs
<1>7. f[n + 1] = g[0]
  <2>1. f[Len(v) + 0] = g[0]
    <3>1. 0 \in 0..Len(r)
      BY <1>4
    <3>2. \A j \in 0..Len(r) : f[Len(v) + j] = g[j]
      <4>1. Follows(S, v, r, s) /\ Cuts(s, d, f) /\ Cuts(r, d, g)
        BY <1>2, <1>3, <1>5, <1>6 DEF Follows
      <4>. QED
        BY <4>1, CutsSuffix
    <3>. QED
      BY <3>1, <3>2
  <2>. QED
    BY <1>2, <2>1
<1>8. n \in 0..(Len(s) - 1) /\ n # npos
  BY <1>2, <1>4 DEF npos
<1>9. FirstAt(s, d, 0, n)
  <2>1. s[n + 1] = d
    BY <1>2, <1>4
  <2>2. ASSUME NEW i \in 0..(n - 1) PROVE s[i + 1] # d
    <3>1. i + 1 \in 1..n /\ i + 1 \in 1..Len(v)
      BY <1>2
    <3>. QED
      BY <1>2, <1>4, <3>1 DEF Free
  <2>. QED
    BY <1>8, <2>1, <2>2 DEF FirstAt
<1>10. find(s, d, 0) = n
  BY <1>4, <1>9, FindAt
<1>11. substr(s, 0, n) = p
  <2>1. PICK z : z = 0
    OBVIOUS
  <2>2. z \in 0..Len(s) /\ n \in 0..(Len(s) - z)
    BY <1>4, <1>8, <2>1
  <2>3. substr(s, z, n) = SubSeq(s, z + 1, z + n)
    BY <1>4, <2>2, SubstrIs
  <2>4. SubSeq(s, 1, n) = [i \in 1..n |-> s[i]]
    BY <1>2, <1>4
  <2>5. \A i \in 1..n : s[i] = p[i]
    BY <1>2, <1>4
  <2>6. p = [i \in 1..n |-> p[i]]
    OBVIOUS
  <2>7. z + 1 = 1 /\ z + n = n
    BY <1>2, <2>1
  <2>. QED
    BY <2>1, <2>3, <2>4, <2>5, <2>6, <2>7
<1>12. f[0] = Piece(s, d, f, 0)
  <2>1. 0 \in 0..Len(s)
    BY <1>4, <1>2
  <2>. QED
    BY <1>5, <2>1 DEF Cuts
<1>13. Piece(s, d, f, 0) = <<substr(s, 0, n)>> \o f[n + 1]
  <2>1. n - 0 = n
    BY <1>2
  <2>. QED
    BY <1>8, <1>10, <2>1 DEF Piece
<1>. QED
  BY <1>5, <1>6, <1>7, <1>11, <1>12, <1>13

\* A text without a delimiter is one token, an empty one none.
LEMMA SplitFree ==
  ASSUME NEW S, NEW p \in Seq(S), NEW d, Free(p, d)
  PROVE  Split(p, d) = IF p = <<>> THEN <<>> ELSE <<p>>
<1>1. PICK f : Cuts(p, d, f) /\ Split(p, d) = f[0]
  BY SplitIs
<1>2. Len(p) \in Nat /\ (Len(p) = 0 <=> p = <<>>)
  OBVIOUS
<1>3. f[0] = Piece(p, d, f, 0)
  <2>1. 0 \in 0..Len(p)
    BY <1>2
  <2>. QED
    BY <1>1, <2>1 DEF Cuts
<1>4. find(p, d, 0) = npos
  <2>1. \A i \in 0..(Len(p) - 1) : p[i + 1] # d
    BY <1>2 DEF Free
  <2>. QED
    BY <2>1, FindNone DEF NoneFrom
<1>5. substr(p, 0, Len(p) - 0) = p
  <2>1. PICK z : z = 0
    OBVIOUS
  <2>2. z \in 0..Len(p) /\ Len(p) \in 0..(Len(p) - z)
    BY <1>2, <2>1
  <2>3. substr(p, z, Len(p)) = SubSeq(p, z + 1, z + Len(p))
    BY <2>2, SubstrIs
  <2>4. SubSeq(p, 1, Len(p)) = p
    OBVIOUS
  <2>5. z + 1 = 1 /\ z + Len(p) = Len(p) /\ Len(p) - 0 = Len(p)
    BY <1>2, <2>1
  <2>. QED
    BY <2>1, <2>3, <2>4, <2>5
<1>. QED
  BY <1>1, <1>2, <1>3, <1>4, <1>5 DEF Piece

-----------------------------------------------------------------------------
(* Split and Join.                                                         *)

\* Two sequences with the same elements are the same.
LEMMA SameSeq ==
  ASSUME NEW S, NEW a \in Seq(S), NEW b \in Seq(S), Len(a) = Len(b), \A i \in 1..Len(a) : a[i] = b[i]
  PROVE  a = b
OBVIOUS

\* The elements of a text and of what follows it.
LEMMA ConcatElem ==
  ASSUME NEW S, NEW a \in Seq(S), NEW b \in Seq(S), NEW y, y = a \o b
  PROVE  /\ y \in Seq(S) /\ Len(y) = Len(a) + Len(b) /\ Len(a) \in Nat /\ Len(b) \in Nat
         /\ \A i \in 1..Len(y) : y[i] = IF i <= Len(a) THEN a[i] ELSE b[i - Len(a)]
OBVIOUS

\* A text has no delimiter, or a part before the first one and a part behind it.
LEMMA CutCases ==
  ASSUME NEW S, NEW s \in Seq(S), NEW d
  PROVE  \/ Free(s, d)
         \/ d \in S /\ \E p \in Seq(S), r \in Seq(S) : Free(p, d) /\ Follows(S, p \o <<d>>, r, s)
<1>0. Len(s) \in Nat
  OBVIOUS
<1>1. PICK z : z = 0
  OBVIOUS
<1>2. CASE NoneFrom(s, d, z)
  <2>1. ASSUME NEW i \in 1..Len(s) PROVE s[i] # d
    <3>1. PICK k : k = i - 1
      OBVIOUS
    <3>2. k \in z..(Len(s) - 1) /\ k + 1 = i
      BY <1>0, <1>1, <3>1
    <3>. QED
      BY <1>2, <3>2 DEF NoneFrom
  <2>. QED
    BY <2>1 DEF Free
<1>3. CASE \E q : FirstAt(s, d, z, q)
  <2>1. PICK q : FirstAt(s, d, z, q)
    BY <1>3
  <2>2. /\ q \in 0..(Len(s) - 1) /\ s[q + 1] = d
        /\ \A i \in 0..(q - 1) : s[i + 1] # d
    BY <1>1, <2>1 DEF FirstAt
  <2>3. q \in Nat /\ q + 1 \in 1..Len(s) /\ d \in S
    BY <1>0, <2>2
  <2>4. PICK p : p = SubSeq(s, 1, q)
    OBVIOUS
  <2>5. PICK r : r = SubSeq(s, q + 2, Len(s))
    OBVIOUS
  <2>6. p \in Seq(S) /\ Len(p) = q /\ \A i \in 1..q : p[i] = s[i]
    BY <1>0, <2>2, <2>3, <2>4
  <2>7. r \in Seq(S) /\ Len(r) = Len(s) - (q + 1) /\ \A i \in 1..Len(r) : r[i] = s[i + (q + 1)]
    BY <1>0, <2>2, <2>3, <2>5
  <2>8. Free(p, d)
    <3>. SUFFICES ASSUME NEW i \in 1..q PROVE p[i] # d
      BY <2>6 DEF Free
    <3>1. PICK k : k = i - 1
      OBVIOUS
    <3>2. k \in 0..(q - 1) /\ k + 1 = i
      BY <2>3, <3>1
    <3>. QED
      BY <2>2, <2>6, <3>2
  <2>9. PICK v : v = p \o <<d>>
    OBVIOUS
  <2>10. v \in Seq(S) /\ Len(v) = q + 1 /\ v[q + 1] = d /\ \A i \in 1..q : v[i] = p[i]
    BY <2>3, <2>6, <2>9
  <2>11. v \o r \in Seq(S) /\ Len(v \o r) = Len(s)
    <3>1. v \in Seq(S) /\ r \in Seq(S)
      BY <2>7, <2>10
    <3>2. v \o r \in Seq(S) /\ Len(v \o r) = Len(v) + Len(r)
      BY <3>1
    <3>. QED
      BY <1>0, <2>3, <2>7, <2>10, <3>2
  <2>12. ASSUME NEW i \in 1..Len(s) PROVE s[i] = (v \o r)[i]
    <3>1. (v \o r)[i] = IF i <= q + 1 THEN v[i] ELSE r[i - (q + 1)]
      <4>1. v \in Seq(S) /\ r \in Seq(S)
        BY <2>7, <2>10
      <4>2. PICK y : y = v \o r
        OBVIOUS
      <4>3. \A k \in 1..Len(y) : y[k] = IF k <= Len(v) THEN v[k] ELSE r[k - Len(v)]
        BY <4>1, <4>2, ConcatElem
      <4>4. i \in 1..Len(y) /\ Len(v) = q + 1
        BY <2>10, <2>11, <4>2
      <4>. QED
        BY <4>2, <4>3, <4>4
    <3>2. CASE i <= q
      BY <2>3, <2>6, <2>10, <3>1, <3>2
    <3>3. CASE i = q + 1
      BY <2>2, <2>3, <2>10, <3>1, <3>3
    <3>4. CASE i > q + 1
      <4>1. PICK k : k = i - (q + 1)
        OBVIOUS
      <4>2. k \in 1..Len(r) /\ k + (q + 1) = i
        BY <1>0, <2>3, <2>7, <3>4, <4>1
      <4>3. r[k] = s[i]
        BY <2>7, <4>2
      <4>. QED
        BY <2>3, <3>1, <3>4, <4>1, <4>3
    <3>5. i <= q \/ i = q + 1 \/ i > q + 1
      BY <2>3
    <3>. QED
      BY <3>2, <3>3, <3>4, <3>5
  <2>13. s = v \o r
    <3>. HIDE <2>9
    <3>. QED
      BY <2>11, <2>12, SameSeq
  <2>14. Follows(S, p \o <<d>>, r, s)
    BY <2>7, <2>9, <2>10, <2>13 DEF Follows
  <2>. QED
    BY <2>3, <2>6, <2>7, <2>8, <2>14
<1>4. z \in Nat
  BY <1>1
<1>5. NoneFrom(s, d, z) \/ FirstAt(s, d, z, find(s, d, z))
  BY <1>4, FindCases
<1>. QED
  BY <1>2, <1>3, <1>5

\* Join, with one token more in front.
JoinMore(S, p, ts, d) ==
  /\ Join(ts, d) \in Seq(S)
  /\ Join(<<p>> \o ts, d) = IF ts = <<>> THEN p ELSE (p \o <<d>>) \o Join(ts, d)

\* Join of a first token and the others, as substr and the loop of Join build it.
LEMMA JoinCons ==
  ASSUME NEW S, NEW d \in S, NEW p \in Seq(S), NEW ts \in Seq(Seq(S))
  PROVE  JoinMore(S, p, ts, d)
<1>. DEFINE D(w) == [i \in 1..(Len(w) - 1) |-> Append(w[i], d)]
<1>1. ASSUME NEW w \in Seq(Seq(S)), w # <<>>
      PROVE  /\ D(w) \in Seq(Seq(S)) /\ Last(w) \in Seq(S) /\ FlattenSeq(D(w)) \in Seq(S)
             /\ Join(w, d) = FlattenSeq(D(w)) \o Last(w)
  <2>1. Len(w) \in Nat /\ Len(w) - 1 \in Nat /\ Last(w) \in Seq(S)
    BY <1>1 DEF Last
  <2>2. D(w) \in Seq(Seq(S))
    BY <2>1
  <2>3. Join(w, d) = FlattenSeq(D(w)) \o Last(w)
    BY <1>1 DEF Join
  <2>. HIDE DEF D
  <2>4. FlattenSeq(D(w)) \in Seq(S)
    BY <2>2, FlattenCons
  <2>. QED
    BY <2>1, <2>2, <2>3, <2>4
<1>2. CASE ts = <<>>
  <2>1. Join(ts, d) = <<>> /\ <<>> \in Seq(S)
    BY <1>2 DEF Join
  <2>2. <<p>> \o ts = <<p>> /\ <<p>> \in Seq(Seq(S)) /\ <<p>> # <<>> /\ Last(<<p>>) = p /\ Len(<<p>>) = 1
    BY <1>2 DEF Last
  <2>3. D(<<p>>) = <<>>
    BY <2>2
  <2>4. FlattenSeq(<<>>) = <<>> /\ <<>> \o p = p
    BY ConcatEmptySeq DEF FlattenSeq
  <2>. HIDE DEF D
  <2>5. Join(<<p>>, d) = FlattenSeq(D(<<p>>)) \o Last(<<p>>)
    BY <1>1, <2>2
  <2>. QED
    BY <1>2, <2>1, <2>2, <2>3, <2>4, <2>5 DEF JoinMore
<1>3. CASE ts # <<>>
  <2>1. PICK w : w = <<p>> \o ts
    OBVIOUS
  <2>2. /\ w \in Seq(Seq(S)) /\ w # <<>> /\ Len(w) = Len(ts) + 1 /\ Len(ts) \in Nat /\ Len(ts) # 0
        /\ w[1] = p /\ \A i \in 1..Len(ts) : w[i + 1] = ts[i]
    BY <1>3, <2>1
  <2>3. Last(w) = Last(ts)
    <3>1. Len(ts) \in 1..Len(ts)
      BY <2>2
    <3>2. w[Len(ts) + 1] = ts[Len(ts)]
      BY <2>2, <3>1
    <3>. QED
      BY <2>2, <3>2 DEF Last
  <2>4. PICK u : u = Append(p, d)
    OBVIOUS
  <2>5. u \in Seq(S) /\ u = p \o <<d>>
    BY <2>4
  <2>6. D(w) = <<u>> \o D(ts)
    <3>1. Len(D(ts)) = Len(ts) - 1 /\ Len(D(w)) = Len(ts)
      BY <2>2
    <3>2. D(w) \in Seq(Seq(S)) /\ <<u>> \o D(ts) \in Seq(Seq(S))
      <4>1. D(w) \in Seq(Seq(S)) /\ D(ts) \in Seq(Seq(S))
        BY <1>1, <1>3, <2>2
      <4>. HIDE DEF D
      <4>. QED
        BY <2>5, <4>1
    <3>3. Len(<<u>> \o D(ts)) = Len(ts)
      <4>1. D(ts) \in Seq(Seq(S))
        BY <1>1, <1>3
      <4>. HIDE DEF D
      <4>. QED
        BY <2>2, <2>5, <3>1, <4>1
    <3>4. ASSUME NEW i \in 1..Len(ts) PROVE D(w)[i] = (<<u>> \o D(ts))[i]
      <4>1. D(w)[i] = Append(w[i], d)
        BY <2>2, SMTT(30)
      <4>2. (<<u>> \o D(ts))[i] = IF i = 1 THEN u ELSE D(ts)[i - 1]
        <5>1. D(ts) \in Seq(Seq(S))
          BY <1>1, <1>3
        <5>. HIDE DEF D
        <5>2. PICK b : b = D(ts)
          OBVIOUS
        <5>3. PICK a : a = <<u>>
          OBVIOUS
        <5>4. a \in Seq(Seq(S)) /\ b \in Seq(Seq(S)) /\ Len(a) = 1 /\ a[1] = u /\ Len(b) = Len(ts) - 1
          BY <2>5, <3>1, <5>1, <5>2, <5>3, SMTT(30)
        <5>5. PICK y : y = a \o b
          OBVIOUS
        <5>6. Len(y) = Len(a) + Len(b) /\ \A k \in 1..Len(y) : y[k] = IF k <= Len(a) THEN a[k] ELSE b[k - Len(a)]
          <6>1. a \in Seq(Seq(S)) /\ b \in Seq(Seq(S))
            BY <5>4
          <6>. QED
            BY <5>5, <6>1, ConcatElem
        <5>7. y[i] = IF i = 1 THEN u ELSE b[i - 1]
          <6>0. Len(ts) \in Nat /\ Len(a) = 1 /\ Len(b) = Len(ts) - 1 /\ Len(y) = Len(a) + Len(b)
            BY <2>2, <5>4, <5>6
          <6>1. i \in 1..Len(y) /\ (i <= Len(a) <=> i = 1) /\ Len(a) = 1
            BY <6>0
          <6>2. y[i] = IF i <= Len(a) THEN a[i] ELSE b[i - Len(a)]
            BY <5>6, <6>1
          <6>. QED
            BY <5>4, <6>1, <6>2
        <5>. QED
          BY <5>2, <5>3, <5>5, <5>7
      <4>3. CASE i = 1
        BY <2>2, <2>4, <4>1, <4>2, <4>3
      <4>4. CASE i # 1
        <5>1. PICK k : k = i - 1
          OBVIOUS
        <5>2. k \in 1..(Len(ts) - 1) /\ k \in 1..Len(ts) /\ k + 1 = i
          BY <2>2, <4>4, <5>1
        <5>3. D(ts)[k] = Append(ts[k], d) /\ w[i] = ts[k]
          BY <2>2, <5>2
        <5>. HIDE DEF D
        <5>. QED
          BY <4>1, <4>2, <4>4, <5>1, <5>3
      <4>. QED
        BY <4>3, <4>4
    <3>. HIDE DEF D
    <3>5. PICK a : a = D(w)
      OBVIOUS
    <3>6. PICK b : b = <<u>> \o D(ts)
      OBVIOUS
    <3>7. a \in Seq(Seq(S)) /\ b \in Seq(Seq(S)) /\ Len(a) = Len(b) /\ \A i \in 1..Len(a) : a[i] = b[i]
      BY <3>1, <3>2, <3>3, <3>4, <3>5, <3>6
    <3>8. a = b
      <4>. HIDE <3>5, <3>6
      <4>. QED
        BY <3>7, SameSeq
    <3>. QED
      BY <3>5, <3>6, <3>8
  <2>7. D(ts) \in Seq(Seq(S)) /\ Last(ts) \in Seq(S) /\ FlattenSeq(D(ts)) \in Seq(S)
    BY <1>1, <1>3
  <2>8. Join(ts, d) = FlattenSeq(D(ts)) \o Last(ts) /\ Join(w, d) = FlattenSeq(D(w)) \o Last(w)
    BY <1>1, <1>3, <2>2
  <2>. HIDE DEF D
  <2>9. FlattenSeq(<<u>> \o D(ts)) = u \o FlattenSeq(D(ts))
    BY <2>5, <2>7, FlattenCons
  <2>10. (u \o FlattenSeq(D(ts))) \o Last(ts) = u \o (FlattenSeq(D(ts)) \o Last(ts))
    <3>1. PICK x : x = FlattenSeq(D(ts))
      OBVIOUS
    <3>2. PICK y : y = Last(ts)
      OBVIOUS
    <3>3. u \in Seq(S) /\ x \in Seq(S) /\ y \in Seq(S)
      BY <2>5, <2>7, <3>1, <3>2
    <3>4. (u \o x) \o y = u \o (x \o y)
      BY <3>3, Assoc, SMTT(30)
    <3>. QED
      BY <3>1, <3>2, <3>4
  <2>11. Join(w, d) = u \o Join(ts, d)
    BY <2>3, <2>6, <2>8, <2>9, <2>10
  <2>12. Join(ts, d) \in Seq(S)
    BY <2>7, <2>8
  <2>. QED
    BY <1>3, <2>1, <2>5, <2>11, <2>12 DEF JoinMore
<1>. QED
  BY <1>2, <1>3

\* A text without one delimiter at its end.
Chop(s, d) == IF s # <<>> /\ Last(s) = d THEN Front(s) ELSE s

\* The tokens of a text are texts, there is one if there is a text, and joined
\* again they are the text but for one delimiter at its end.
SplitGood(S, s, d) ==
  /\ Split(s, d) \in Seq(Seq(S))
  /\ Split(s, d) = <<>> <=> s = <<>>
  /\ Join(Split(s, d), d) = Chop(s, d)

\* Split and Join of a text without the delimiter.
LEMMA SplitGoodFree ==
  ASSUME NEW S, NEW s \in Seq(S), NEW d \in S, Free(s, d)
  PROVE  SplitGood(S, s, d)
<1>1. Split(s, d) = IF s = <<>> THEN <<>> ELSE <<s>>
  BY SplitFree
<1>2. Chop(s, d) = s
  BY DEF Chop, Free, Last
<1>3. <<>> \in Seq(Seq(S)) /\ <<s>> \in Seq(Seq(S)) /\ <<s>> # <<>>
  OBVIOUS
<1>4. Join(<<>>, d) = <<>>
  BY DEF Join
<1>5. Join(<<s>>, d) = s
  <2>1. <<>> \in Seq(Seq(S)) /\ <<s>> \o <<>> = <<s>>
    OBVIOUS
  <2>2. JoinMore(S, s, <<>>, d)
    BY <2>1, JoinCons
  <2>. QED
    BY <2>1, <2>2 DEF JoinMore
<1>. QED
  BY <1>1, <1>2, <1>3, <1>4, <1>5 DEF SplitGood

\* What is cut off the end is cut off the last part.
LEMMA ChopBehind ==
  ASSUME NEW S, NEW p \in Seq(S), NEW d \in S, NEW r \in Seq(S), NEW s, Follows(S, p \o <<d>>, r, s)
  PROVE  Chop(s, d) = IF r = <<>> THEN p ELSE (p \o <<d>>) \o Chop(r, d)
<1>1. PICK v : v = p \o <<d>>
  OBVIOUS
<1>2. v \in Seq(S) /\ Len(v) = Len(p) + 1 /\ v[Len(v)] = d /\ Front(v) = p /\ v # <<>>
  BY <1>1 DEF Front
<1>3. s = v \o r
  BY <1>1 DEF Follows
<1>4. CASE r = <<>>
  <2>1. s = v
    BY <1>2, <1>3, <1>4
  <2>. QED
    BY <1>2, <1>4, <2>1 DEF Chop, Last
<1>5. CASE r # <<>>
  <2>1. s # <<>> /\ Last(s) = Last(r)
    BY <1>2, <1>3, <1>5 DEF Last
  <2>2. Front(s) = v \o Front(r)
    <3>1. Front(r) \in Seq(S) /\ Len(Front(r)) = Len(r) - 1 /\ Len(r) \in Nat /\ Len(r) # 0
          /\ \A i \in 1..(Len(r) - 1) : Front(r)[i] = r[i]
      BY <1>5 DEF Front
    <3>2. /\ s \in Seq(S) /\ Len(s) = Len(v) + Len(r) /\ Len(v) \in Nat
          /\ \A i \in 1..Len(s) : s[i] = IF i <= Len(v) THEN v[i] ELSE r[i - Len(v)]
      <4>1. v \in Seq(S)
        BY <1>2
      <4>. QED
        BY <1>3, <4>1, ConcatElem
    <3>3. /\ Front(s) \in Seq(S) /\ Len(Front(s)) = Len(s) - 1
          /\ \A i \in 1..(Len(s) - 1) : Front(s)[i] = s[i]
      BY <3>1, <3>2 DEF Front
    <3>4. PICK w : w = Front(r)
      OBVIOUS
    <3>5. PICK y : y = v \o w
      OBVIOUS
    <3>6. y \in Seq(S) /\ Len(y) = Len(v) + (Len(r) - 1)
          /\ \A i \in 1..Len(y) : y[i] = IF i <= Len(v) THEN v[i] ELSE w[i - Len(v)]
      <4>1. v \in Seq(S) /\ w \in Seq(S) /\ Len(w) = Len(r) - 1
        BY <1>2, <3>1, <3>4
      <4>2. /\ y \in Seq(S) /\ Len(y) = Len(v) + Len(w)
            /\ \A i \in 1..Len(y) : y[i] = IF i <= Len(v) THEN v[i] ELSE w[i - Len(v)]
        <5>1. v \in Seq(S) /\ w \in Seq(S)
          BY <4>1
        <5>. HIDE <3>4
        <5>. QED
          BY <3>5, <5>1, ConcatElem
      <4>. QED
        BY <4>1, <4>2
    <3>7. ASSUME NEW i \in 1..(Len(s) - 1) PROVE Front(s)[i] = y[i]
      <4>1. i \in 1..Len(y) /\ i \in 1..Len(s) /\ (~ (i <= Len(v)) => i - Len(v) \in 1..(Len(r) - 1))
        BY <3>1, <3>2, <3>6
      <4>2. ~ (i <= Len(v)) => w[i - Len(v)] = r[i - Len(v)]
        BY <3>1, <3>4, <4>1
      <4>. QED
        BY <3>2, <3>3, <3>6, <4>1, <4>2
    <3>8. Len(Front(s)) = Len(y) /\ Front(s) \in Seq(S)
      BY <3>1, <3>2, <3>3, <3>6
    <3>9. PICK a : a = Front(s)
      OBVIOUS
    <3>10. a = y
      <4>1. a \in Seq(S) /\ y \in Seq(S) /\ Len(a) = Len(y) /\ \A i \in 1..Len(a) : a[i] = y[i]
        BY <3>3, <3>6, <3>7, <3>8, <3>9
      <4>. HIDE <3>9, <3>5
      <4>. QED
        BY <4>1, SameSeq
    <3>. QED
      BY <3>4, <3>5, <3>9, <3>10
  <2>. QED
    BY <1>1, <1>3, <1>5, <2>1, <2>2 DEF Chop
<1>. QED
  BY <1>4, <1>5

\* Split and Join of a text, from those of what stands behind its first delimiter.
LEMMA SplitGoodMore ==
  ASSUME NEW S, NEW p \in Seq(S), NEW d \in S, NEW r \in Seq(S), Free(p, d),
         NEW s, Follows(S, p \o <<d>>, r, s), Len(s) < SizeMax, SizeMax \in Nat, SplitGood(S, r, d)
  PROVE  SplitGood(S, s, d)
<1>1. Split(s, d) = <<p>> \o Split(r, d)
  BY SplitFirst
<1>2. PICK ts : ts = Split(r, d)
  OBVIOUS
<1>3. ts \in Seq(Seq(S)) /\ (ts = <<>> <=> r = <<>>) /\ Join(ts, d) = Chop(r, d)
  BY <1>2 DEF SplitGood
<1>4. <<p>> \o ts \in Seq(Seq(S)) /\ <<p>> \o ts # <<>>
  BY <1>3
<1>5. s # <<>>
  BY DEF Follows
<1>6. Join(<<p>> \o ts, d) = IF ts = <<>> THEN p ELSE (p \o <<d>>) \o Join(ts, d)
  <2>1. ts \in Seq(Seq(S))
    BY <1>3
  <2>2. JoinMore(S, p, ts, d)
    BY <2>1, JoinCons
  <2>. QED
    BY <2>2 DEF JoinMore
<1>7. Chop(s, d) = IF r = <<>> THEN p ELSE (p \o <<d>>) \o Chop(r, d)
  BY ChopBehind, SMTT(30)
<1>. QED
  BY <1>1, <1>2, <1>3, <1>4, <1>5, <1>6, <1>7 DEF SplitGood

\* Join puts back what Split took apart, but for a delimiter at the end: for every text.
LEMMA SplitGoodAll ==
  ASSUME NEW S, NEW d \in S, SizeMax \in Nat, NEW s \in Seq(S), Len(s) < SizeMax
  PROVE  SplitGood(S, s, d)
<1>. DEFINE N == {n \in Nat : \A t \in Seq(S) : Len(t) <= n /\ Len(t) < SizeMax => SplitGood(S, t, d)}
<1>1. 0 \in N
  <2>. SUFFICES ASSUME NEW t \in Seq(S), Len(t) <= 0 PROVE SplitGood(S, t, d)
    OBVIOUS
  <2>1. Free(t, d)
    BY DEF Free
  <2>. QED
    BY <2>1, SplitGoodFree
<1>2. ASSUME NEW n \in Nat, n \in N PROVE n + 1 \in N
  <2>. SUFFICES ASSUME NEW t \in Seq(S), Len(t) <= n + 1, Len(t) < SizeMax PROVE SplitGood(S, t, d)
    OBVIOUS
  <2>1. CASE Free(t, d)
    BY <2>1, SplitGoodFree
  <2>2. CASE \E p \in Seq(S), r \in Seq(S) : Free(p, d) /\ Follows(S, p \o <<d>>, r, t)
    <3>1. PICK p \in Seq(S), r \in Seq(S) : Free(p, d) /\ Follows(S, p \o <<d>>, r, t)
      BY <2>2
    <3>2. Len(t) = Len(p) + 1 + Len(r) /\ Len(p) \in Nat /\ Len(r) \in Nat
      BY <3>1 DEF Follows
    <3>3. Len(r) <= n /\ Len(r) < SizeMax
      BY <3>2
    <3>4. SplitGood(S, r, d)
      BY <1>2, <3>3
    <3>. QED
      BY <3>1, <3>4, SplitGoodMore
  <2>. QED
    BY <2>1, <2>2, CutCases
<1>. HIDE DEF N
<1>3. \A n \in Nat : n \in N
  BY <1>1, <1>2, SetInduction
<1>4. Len(s) \in N /\ Len(s) <= Len(s)
  BY <1>3
<1>. QED
  BY <1>4 DEF N

-----------------------------------------------------------------------------
(* The lines of a request.                                                 *)

\* Lines, each with its end.
Ends(ss, d) == [i \in 1..Len(ss) |-> Append(ss[i], d)]
Lined(ss, d) == FlattenSeq(Ends(ss, d))

\* Lines with their ends are texts again.
LEMMA EndsType ==
  ASSUME NEW S, NEW d \in S, NEW ss \in Seq(Seq(S))
  PROVE  Ends(ss, d) \in Seq(Seq(S)) /\ Len(Ends(ss, d)) = Len(ss) /\ Lined(ss, d) \in Seq(S)
<1>1. Ends(ss, d) \in Seq(Seq(S)) /\ Len(Ends(ss, d)) = Len(ss)
  BY DEF Ends
<1>2. FlattenSeq(Ends(ss, d)) \in Seq(S)
  BY <1>1, FlattenCons
<1>. QED
  BY <1>1, <1>2 DEF Lined

\* One line more in front.
LEMMA LinedCons ==
  ASSUME NEW S, NEW d \in S, NEW x \in Seq(S), NEW ss \in Seq(Seq(S)), NEW w, w = <<x>> \o ss
  PROVE  Lined(w, d) = (x \o <<d>>) \o Lined(ss, d)
<1>1. PICK u : u = x \o <<d>>
  OBVIOUS
<1>2. u \in Seq(S) /\ u = Append(x, d)
  BY <1>1
<1>3. PICK e : e = Ends(ss, d)
  OBVIOUS
<1>4. e \in Seq(Seq(S)) /\ Len(e) = Len(ss) /\ Len(ss) \in Nat
  BY <1>3, EndsType
<1>5. PICK a : a = <<u>>
  OBVIOUS
<1>6. a \in Seq(Seq(S)) /\ Len(a) = 1 /\ a[1] = u
  BY <1>2, <1>5
<1>7. PICK y : y = a \o e
  OBVIOUS
<1>8. /\ y \in Seq(Seq(S)) /\ Len(y) = Len(a) + Len(e)
      /\ \A i \in 1..Len(y) : y[i] = IF i <= Len(a) THEN a[i] ELSE e[i - Len(a)]
  <2>1. a \in Seq(Seq(S)) /\ e \in Seq(Seq(S))
    BY <1>4, <1>6
  <2>. HIDE <1>3
  <2>. QED
    BY <1>7, <2>1, ConcatElem
<1>9. /\ w \in Seq(Seq(S)) /\ Len(w) = Len(ss) + 1 /\ w[1] = x
      /\ \A i \in 1..Len(ss) : w[i + 1] = ss[i]
  OBVIOUS
<1>10. PICK v : v = Ends(w, d)
  OBVIOUS
<1>11. v \in Seq(Seq(S)) /\ Len(v) = Len(w)
  BY <1>9, <1>10, EndsType
<1>12. ASSUME NEW i \in 1..Len(v) PROVE v[i] = y[i]
  <2>1. v[i] = Append(w[i], d)
    BY <1>10, <1>11 DEF Ends
  <2>2. i \in 1..(Len(ss) + 1) /\ Len(ss) \in Nat
    BY <1>4, <1>9, <1>11
  <2>3. y[i] = IF i = 1 THEN u ELSE e[i - 1]
    <3>1. Len(y) = Len(ss) + 1 /\ Len(a) = 1
      BY <1>4, <1>6, <1>8
    <3>2. i \in 1..Len(y) /\ (i <= Len(a) <=> i = 1)
      BY <2>2, <3>1
    <3>3. y[i] = IF i <= Len(a) THEN a[i] ELSE e[i - Len(a)]
      BY <1>8, <3>2
    <3>. QED
      BY <1>6, <3>1, <3>2, <3>3
  <2>4. CASE i = 1
    BY <1>2, <1>9, <2>1, <2>3, <2>4
  <2>5. CASE i # 1
    <3>1. PICK k : k = i - 1
      OBVIOUS
    <3>2. k \in 1..Len(ss) /\ k + 1 = i
      BY <2>2, <2>5, <3>1
    <3>3. e[k] = Append(ss[k], d)
      BY <1>3, <3>2 DEF Ends
    <3>4. w[i] = ss[k]
      BY <1>9, <3>2
    <3>. QED
      BY <2>1, <2>3, <2>5, <3>1, <3>3, <3>4
  <2>. QED
    BY <2>4, <2>5
<1>13. v = y
  <2>1. v \in Seq(Seq(S)) /\ y \in Seq(Seq(S)) /\ Len(v) = Len(y)
    BY <1>4, <1>6, <1>8, <1>9, <1>11
  <2>. HIDE <1>7, <1>10
  <2>. QED
    BY <1>12, <2>1, SameSeq
<1>14. FlattenSeq(<<u>> \o e) = u \o FlattenSeq(e)
  BY <1>2, <1>4, FlattenCons
<1>. QED
  BY <1>1, <1>3, <1>5, <1>7, <1>10, <1>13, <1>14 DEF Lined

\* The lines, each without the delimiter.
AllFree(ss, d) == \A i \in 1..Len(ss) : Free(ss[i], d)

\* Split takes lines apart again, whatever follows them.
LinesApart(ss, e, d) == Split(Lined(ss, d) \o e, d) = ss \o Split(e, d)

\* One line more.
LEMMA SplitLinedMore ==
  ASSUME NEW S, NEW d \in S, NEW x \in Seq(S), NEW ss \in Seq(Seq(S)), NEW w, w = <<x>> \o ss,
         NEW e \in Seq(S), Free(x, d), LinesApart(ss, e, d),
         Len(Lined(w, d) \o e) < SizeMax, SizeMax \in Nat
  PROVE  LinesApart(w, e, d)
<1>1. PICK l : l = Lined(ss, d)
  OBVIOUS
<1>2. l \in Seq(S)
  BY <1>1, EndsType
<1>3. PICK u : u = x \o <<d>>
  OBVIOUS
<1>4. u \in Seq(S)
  BY <1>3
<1>5. Lined(w, d) = u \o l
  BY <1>1, <1>3, LinedCons
<1>6. (u \o l) \o e = u \o (l \o e)
  <2>. HIDE <1>1, <1>3
  <2>. QED
    BY <1>2, <1>4, Assoc, SMTT(60)
<1>7. PICK r : r = l \o e
  OBVIOUS
<1>8. r \in Seq(S)
  BY <1>2, <1>7
<1>9. PICK s : s = Lined(w, d) \o e
  OBVIOUS
<1>10. Follows(S, x \o <<d>>, r, s) /\ Len(s) < SizeMax
  BY <1>3, <1>4, <1>5, <1>6, <1>7, <1>8, <1>9 DEF Follows
<1>11. Split(s, d) = <<x>> \o Split(r, d)
  <2>. HIDE <1>7, <1>9
  <2>. QED
    BY <1>8, <1>10, SplitFirst, SMTT(30)
<1>12. Split(r, d) = ss \o Split(e, d)
  BY <1>1, <1>7 DEF LinesApart
<1>13. Split(e, d) \in Seq(Seq(S))
  <2>1. Len(e) < SizeMax
    <3>1. Len(u \o (l \o e)) = Len(u) + (Len(l) + Len(e)) /\ Len(u) \in Nat /\ Len(l) \in Nat /\ Len(e) \in Nat
      BY <1>2, <1>4
    <3>2. Len(u \o (l \o e)) < SizeMax
      BY <1>5, <1>6
    <3>. QED
      BY <3>1, <3>2
  <2>2. SplitGood(S, e, d)
    BY <2>1, SplitGoodAll
  <2>. QED
    BY <2>2 DEF SplitGood
<1>14. (<<x>> \o ss) \o Split(e, d) = <<x>> \o (ss \o Split(e, d))
  <2>1. PICK t : t = Split(e, d)
    OBVIOUS
  <2>2. PICK a : a = <<x>>
    OBVIOUS
  <2>3. t \in Seq(Seq(S)) /\ a \in Seq(Seq(S))
    BY <1>13, <2>1, <2>2
  <2>4. (a \o ss) \o t = a \o (ss \o t)
    <3>1. PICK R : R = Seq(S)
      OBVIOUS
    <3>2. t \in Seq(R) /\ a \in Seq(R) /\ ss \in Seq(R)
      BY <2>3, <3>1
    <3>. HIDE <2>1, <2>2, <3>1
    <3>. QED
      BY <3>2, Assoc, SMTT(30)
  <2>. QED
    BY <2>1, <2>2, <2>4
<1>. QED
  BY <1>9, <1>11, <1>12, <1>14 DEF LinesApart

\* Split of lines that end in the delimiter gives the lines: for any number of them.
LEMMA SplitLined ==
  ASSUME NEW S, NEW d \in S, NEW ss \in Seq(Seq(S)), NEW e \in Seq(S), AllFree(ss, d),
         Len(Lined(ss, d) \o e) < SizeMax, SizeMax \in Nat
  PROVE  LinesApart(ss, e, d)
<1>. DEFINE Fits(w) == AllFree(w, d) /\ Len(Lined(w, d) \o e) < SizeMax
            N == {n \in Nat : \A w \in Seq(Seq(S)) : Len(w) = n /\ Fits(w) => LinesApart(w, e, d)}
<1>1. 0 \in N
  <2>. SUFFICES ASSUME NEW w \in Seq(Seq(S)), Len(w) = 0, Fits(w) PROVE LinesApart(w, e, d)
    OBVIOUS
  <2>1. w = <<>>
    OBVIOUS
  <2>2. Ends(<<>>, d) = <<>>
    BY DEF Ends
  <2>3. Lined(w, d) = <<>>
    BY <2>1, <2>2 DEF Lined, FlattenSeq
  <2>4. <<>> \o e = e
    BY ConcatEmptySeq
  <2>5. Split(e, d) \in Seq(Seq(S))
    <3>1. Len(e) < SizeMax
      BY <2>3, <2>4
    <3>2. SplitGood(S, e, d)
      BY <3>1, SplitGoodAll
    <3>. QED
      BY <3>2 DEF SplitGood
  <2>6. <<>> \o Split(e, d) = Split(e, d)
    BY <2>5, ConcatEmptySeq
  <2>. QED
    BY <2>1, <2>3, <2>4, <2>6 DEF LinesApart
<1>2. ASSUME NEW n \in Nat, n \in N PROVE n + 1 \in N
  <2>. SUFFICES ASSUME NEW w \in Seq(Seq(S)), Len(w) = n + 1, Fits(w) PROVE LinesApart(w, e, d)
    OBVIOUS
  <2>1. PICK x \in Seq(S), t \in Seq(Seq(S)) : w = <<x>> \o t /\ Len(t) = n /\ x = w[1]
                                               /\ \A i \in 1..n : t[i] = w[i + 1]
    <3>1. /\ Head(w) \in Seq(S) /\ Tail(w) \in Seq(Seq(S)) /\ Len(Tail(w)) = n /\ Head(w) = w[1]
          /\ \A i \in 1..n : Tail(w)[i] = w[i + 1]
      OBVIOUS
    <3>2. w = <<Head(w)>> \o Tail(w)
      BY <3>1
    <3>. QED
      BY <3>1, <3>2
  <2>2. Free(x, d) /\ AllFree(t, d)
    <3>1. 1 \in 1..Len(w) /\ \A i \in 1..n : i + 1 \in 1..Len(w)
      OBVIOUS
    <3>. QED
      BY <2>1, <3>1 DEF AllFree
  <2>3. Len(Lined(t, d) \o e) < SizeMax
    <3>1. PICK l : l = Lined(t, d)
      OBVIOUS
    <3>2. l \in Seq(S)
      BY <2>1, <3>1, EndsType
    <3>3. Lined(w, d) = (x \o <<d>>) \o l
      BY <2>1, <3>1, LinedCons
    <3>4. Len(((x \o <<d>>) \o l) \o e) = Len(x) + 1 + Len(l) + Len(e) /\ Len(l \o e) = Len(l) + Len(e)
      BY <2>1, <3>2
    <3>5. Len(x) \in Nat /\ Len(l) \in Nat /\ Len(e) \in Nat
      BY <2>1, <3>2
    <3>. QED
      BY <3>1, <3>3, <3>4, <3>5
  <2>4. LinesApart(t, e, d)
    BY <1>2, <2>1, <2>2, <2>3
  <2>5. Len(Lined(w, d) \o e) < SizeMax
    OBVIOUS
  <2>. QED
    BY <2>1, <2>2, <2>4, <2>5, SplitLinedMore
<1>. HIDE DEF N
<1>3. \A n \in Nat : n \in N
  BY <1>1, <1>2, SetInduction
<1>4. Len(ss) \in N
  BY <1>3
<1>. QED
  BY <1>4 DEF N

\* The text of a request is its lines.
LEMMA RequestLines ==
  ASSUME NEW request \in [line : Text, heads : Seq(Text), ended : BOOLEAN], CRLF \in Lexemes
  PROVE  RequestText(request) = Lined(<<request.line>> \o request.heads, CRLF)
                                  \o (IF request.ended THEN <<CRLF>> ELSE <<>>)
<1>1. request.line \in Text /\ request.heads \in Seq(Text)
  OBVIOUS
<1>2. PICK w : w = <<request.line>> \o request.heads
  OBVIOUS
<1>3. Len(w) = Len(request.heads) + 1 /\ Len(request.heads) \in Nat
      /\ \A i \in 1..Len(w) : w[i] = IF i = 1 THEN request.line ELSE request.heads[i - 1]
  BY <1>1, <1>2
<1>4. Ends(w, CRLF) = [i \in 1..(Len(request.heads) + 1) |->
                Append(IF i = 1 THEN request.line ELSE request.heads[i - 1], CRLF)]
  BY <1>3 DEF Ends
<1>. QED
  BY <1>2, <1>4 DEF RequestText, Lined

-----------------------------------------------------------------------------
(* Capitals.                                                               *)

\* Sequences over different sets can be the same, too.
LEMMA SameElems ==
  ASSUME NEW A, NEW B, NEW a \in Seq(A), NEW b \in Seq(B), Len(a) = Len(b), \A i \in 1..Len(a) : a[i] = b[i]
  PROVE  a = b
OBVIOUS

\* ToUpper works lexeme by lexeme.
LEMMA UpperIs ==
  ASSUME NEW s \in Text
  PROVE  ToUpper(s) \in Text /\ Len(ToUpper(s)) = Len(s) /\ \A i \in 1..Len(s) : ToUpper(s)[i] = Upper[s[i]]
<1>1. Upper \in [Lexemes -> Lexemes]
  BY TextAssumption
<1>. QED
  BY <1>1 DEF ToUpper, Text

\* The delimiters are in both cases the same.
Delimiter(d) == d \in {" ", ":", "."}

\* Only a delimiter has that delimiter as its capital.
LEMMA UpperDelimiter ==
  ASSUME NEW d, Delimiter(d), NEW x \in Lexemes
  PROVE  Upper[x] = d <=> x = d
BY TextAssumption, Zenon DEF Delimiter

\* A text whose capitals are x and then y has a part for each.
Reads(s, x, y) == ToUpper(s) = x \o y
Parts(s, x, y, a, b) ==
  /\ a \in Text /\ b \in Text /\ s = a \o b /\ ToUpper(a) = x /\ ToUpper(b) = y
  /\ Len(a) = Len(x) /\ Len(b) = Len(y) /\ b = SubSeq(s, Len(x) + 1, Len(s))

\* A text whose capitals are put together from two parts has these two parts.
LEMMA UpperParts ==
  ASSUME NEW s \in Text, NEW A, NEW x \in Seq(A), NEW y \in Seq(A), Reads(s, x, y)
  PROVE  \E a, b : Parts(s, x, y, a, b)
<1>. ToUpper(s) = x \o y
  BY DEF Reads
<1>1. s \in Seq(Lexemes) /\ Len(s) \in Nat /\ Len(x) \in Nat /\ Len(y) \in Nat
  BY DEF Text
<1>2. Len(ToUpper(s)) = Len(s) /\ \A i \in 1..Len(s) : ToUpper(s)[i] = Upper[s[i]]
  BY UpperIs
<1>3. PICK u : u = x \o y
  OBVIOUS
<1>4. Len(u) = Len(x) + Len(y) /\ \A i \in 1..Len(u) : u[i] = IF i <= Len(x) THEN x[i] ELSE y[i - Len(x)]
  BY <1>3, ConcatElem
<1>5. Len(s) = Len(x) + Len(y) /\ \A i \in 1..Len(s) : u[i] = Upper[s[i]]
  BY <1>2, <1>3, <1>4
<1>6. PICK a : a = SubSeq(s, 1, Len(x))
  OBVIOUS
<1>7. PICK b : b = SubSeq(s, Len(x) + 1, Len(s))
  OBVIOUS
<1>8. a \in Text /\ Len(a) = Len(x) /\ \A i \in 1..Len(x) : a[i] = s[i]
  BY <1>1, <1>5, <1>6 DEF Text
<1>9. b \in Text /\ Len(b) = Len(y) /\ \A i \in 1..Len(y) : b[i] = s[i + Len(x)]
  BY <1>1, <1>5, <1>7 DEF Text
<1>10. ToUpper(a) = x
  <2>1. ToUpper(a) \in Seq(Lexemes) /\ Len(ToUpper(a)) = Len(x) /\ \A i \in 1..Len(x) : ToUpper(a)[i] = Upper[a[i]]
    BY <1>8, UpperIs DEF Text
  <2>2. ASSUME NEW i \in 1..Len(x) PROVE ToUpper(a)[i] = x[i]
    <3>1. i \in 1..Len(s) /\ i \in 1..Len(u) /\ i <= Len(x)
      BY <1>1, <1>4, <1>5
    <3>2. ToUpper(a)[i] = Upper[s[i]]
      BY <1>8, <2>1
    <3>. QED
      BY <1>4, <1>5, <3>1, <3>2
  <2>3. PICK c : c = ToUpper(a)
    OBVIOUS
  <2>4. c \in Seq(Lexemes) /\ Len(c) = Len(x) /\ \A i \in 1..Len(c) : c[i] = x[i]
    BY <2>1, <2>2, <2>3
  <2>5. c = x
    <3>. HIDE <2>3
    <3>. QED
      BY <2>4, SameElems
  <2>. QED
    BY <2>3, <2>5
<1>11. ToUpper(b) = y
  <2>1. ToUpper(b) \in Seq(Lexemes) /\ Len(ToUpper(b)) = Len(y) /\ \A i \in 1..Len(y) : ToUpper(b)[i] = Upper[b[i]]
    BY <1>9, UpperIs DEF Text
  <2>2. ASSUME NEW i \in 1..Len(y) PROVE ToUpper(b)[i] = y[i]
    <3>0. PICK k : k = i + Len(x)
      OBVIOUS
    <3>1. k \in 1..Len(s) /\ k \in 1..Len(u) /\ ~ (k <= Len(x)) /\ k - Len(x) = i
      BY <1>1, <1>4, <1>5, <3>0
    <3>2. ToUpper(b)[i] = Upper[s[k]]
      BY <1>9, <2>1, <3>0
    <3>3. u[k] = y[i]
      BY <1>4, <3>1
    <3>. QED
      BY <1>5, <3>1, <3>2, <3>3
  <2>3. PICK c : c = ToUpper(b)
    OBVIOUS
  <2>4. c \in Seq(Lexemes) /\ Len(c) = Len(y) /\ \A i \in 1..Len(c) : c[i] = y[i]
    BY <2>1, <2>2, <2>3
  <2>5. c = y
    <3>. HIDE <2>3
    <3>. QED
      BY <2>4, SameElems
  <2>. QED
    BY <2>3, <2>5
<1>12. s = a \o b
  <2>1. PICK z : z = a \o b
    OBVIOUS
  <2>2. a \in Seq(Lexemes) /\ b \in Seq(Lexemes)
    BY <1>8, <1>9 DEF Text
  <2>3. /\ z \in Seq(Lexemes) /\ Len(z) = Len(a) + Len(b)
        /\ \A i \in 1..Len(z) : z[i] = IF i <= Len(a) THEN a[i] ELSE b[i - Len(a)]
    <3>. HIDE <1>6, <1>7
    <3>. QED
      BY <2>1, <2>2, ConcatElem
  <2>4. Len(z) = Len(s) /\ Len(a) = Len(x)
    BY <1>5, <1>8, <1>9, <2>3
  <2>5. ASSUME NEW i \in 1..Len(z) PROVE z[i] = s[i]
    <3>1. CASE i <= Len(x)
      <4>1. i \in 1..Len(x)
        BY <1>1, <3>1
      <4>. QED
        BY <1>8, <2>3, <2>4, <3>1, <4>1
    <3>2. CASE ~ (i <= Len(x))
      <4>0. PICK k : k = i - Len(x)
        OBVIOUS
      <4>1. k \in 1..Len(y) /\ k + Len(x) = i
        BY <1>1, <1>5, <2>4, <3>2, <4>0
      <4>2. z[i] = b[k]
        BY <2>3, <2>4, <3>2, <4>0
      <4>. QED
        BY <1>9, <4>1, <4>2
    <3>. QED
      BY <3>1, <3>2
  <2>6. z = s
    <3>. HIDE <2>1
    <3>. QED
      BY <1>1, <2>3, <2>4, <2>5, SameElems
  <2>. QED
    BY <2>1, <2>6
<1>. QED
  BY <1>7, <1>8, <1>9, <1>10, <1>11, <1>12 DEF Parts

\* The capitals of two parts are the capitals of each.
LEMMA UpperTogether ==
  ASSUME NEW a \in Text, NEW b \in Text, NEW s, s = a \o b
  PROVE  s \in Text /\ ToUpper(s) = ToUpper(a) \o ToUpper(b)
<1>0. a \in Seq(Lexemes) /\ b \in Seq(Lexemes)
  BY DEF Text
<1>1. /\ s \in Seq(Lexemes) /\ Len(s) = Len(a) + Len(b) /\ Len(a) \in Nat /\ Len(b) \in Nat
      /\ \A i \in 1..Len(s) : s[i] = IF i <= Len(a) THEN a[i] ELSE b[i - Len(a)]
  BY <1>0, ConcatElem
<1>2. PICK x : x = ToUpper(a)
  OBVIOUS
<1>3. PICK y : y = ToUpper(b)
  OBVIOUS
<1>4. x \in Seq(Lexemes) /\ Len(x) = Len(a) /\ \A i \in 1..Len(a) : x[i] = Upper[a[i]]
  BY <1>2, UpperIs DEF Text
<1>5. y \in Seq(Lexemes) /\ Len(y) = Len(b) /\ \A i \in 1..Len(b) : y[i] = Upper[b[i]]
  BY <1>3, UpperIs DEF Text
<1>6. PICK u : u = ToUpper(s)
  OBVIOUS
<1>7. u \in Seq(Lexemes) /\ Len(u) = Len(s) /\ \A i \in 1..Len(s) : u[i] = Upper[s[i]]
  BY <1>1, <1>6, UpperIs DEF Text
<1>8. PICK v : v = x \o y
  OBVIOUS
<1>9. /\ v \in Seq(Lexemes) /\ Len(v) = Len(x) + Len(y)
      /\ \A i \in 1..Len(v) : v[i] = IF i <= Len(x) THEN x[i] ELSE y[i - Len(x)]
  <2>1. x \in Seq(Lexemes) /\ y \in Seq(Lexemes)
    BY <1>4, <1>5
  <2>. HIDE <1>2, <1>3
  <2>. QED
    BY <1>8, <2>1, ConcatElem
<1>10. ASSUME NEW i \in 1..Len(u) PROVE u[i] = v[i]
  <2>1. i \in 1..Len(s) /\ i \in 1..Len(v) /\ (i <= Len(x) <=> i <= Len(a))
    BY <1>1, <1>4, <1>5, <1>7, <1>9
  <2>2. CASE i <= Len(a)
    <3>1. i \in 1..Len(a)
      BY <1>1, <2>2
    <3>. QED
      <4>1. v[i] = x[i] /\ s[i] = a[i]
        BY <1>1, <1>9, <2>1, <2>2
      <4>. QED
        BY <1>4, <1>7, <2>1, <3>1, <4>1
  <2>3. CASE ~ (i <= Len(a))
    <3>1. PICK k : k = i - Len(a)
      OBVIOUS
    <3>2. k \in 1..Len(b)
      BY <1>1, <2>1, <2>3, <3>1
    <3>3. v[i] = y[k] /\ s[i] = b[k]
      BY <1>1, <1>4, <1>9, <2>1, <2>3, <3>1
    <3>4. y[k] = Upper[b[k]]
      BY <1>5, <3>2
    <3>5. u[i] = Upper[s[i]]
      BY <1>7, <2>1
    <3>. QED
      BY <3>3, <3>4, <3>5
  <2>. QED
    BY <2>2, <2>3
<1>11. u = v
  <2>1. u \in Seq(Lexemes) /\ v \in Seq(Lexemes) /\ Len(u) = Len(v)
    BY <1>1, <1>4, <1>5, <1>7, <1>9
  <2>. HIDE <1>6, <1>8
  <2>. QED
    BY <1>10, <2>1, SameSeq
<1>. QED
  BY <1>1, <1>2, <1>3, <1>6, <1>8, <1>11 DEF Text

\* One lexeme, and none.
LEMMA UpperOne ==
  ASSUME NEW x \in Lexemes
  PROVE  <<x>> \in Text /\ ToUpper(<<x>>) = <<Upper[x]>>
<1>1. <<x>> \in Seq(Lexemes) /\ Len(<<x>>) = 1 /\ <<x>>[1] = x
  OBVIOUS
<1>2. PICK w : w = <<x>>
  OBVIOUS
<1>3. w \in Text /\ Len(w) = 1 /\ w[1] = x
  BY <1>1, <1>2 DEF Text
<1>4. ToUpper(w) \in Seq(Lexemes) /\ Len(ToUpper(w)) = 1 /\ ToUpper(w)[1] = Upper[x]
  <2>. HIDE <1>2
  <2>. QED
    BY <1>3, UpperIs DEF Text
<1>5. ToUpper(w) = <<Upper[x]>>
  BY <1>4
<1>. QED
  BY <1>2, <1>3, <1>5

\* ToUpper of the empty text.
LEMMA UpperNone ==
  <<>> \in Text /\ ToUpper(<<>>) = <<>>
<1>1. <<>> \in Seq(Lexemes) /\ Len(<<>>) = 0
  OBVIOUS
<1>2. ToUpper(<<>>) \in Seq(Lexemes) /\ Len(ToUpper(<<>>)) = 0
  BY <1>1, UpperIs DEF Text
<1>. QED
  BY <1>1, <1>2 DEF Text

\* A text in capitals that is a delimiter, or nothing, is that already.
LEMMA UpperIsDelimiter ==
  ASSUME NEW s \in Text, NEW d, Delimiter(d)
  PROVE  (ToUpper(s) = <<d>> <=> s = <<d>>) /\ (ToUpper(s) = <<>> <=> s = <<>>)
<1>1. ToUpper(s) \in Seq(Lexemes) /\ s \in Seq(Lexemes) /\ Len(ToUpper(s)) = Len(s) /\ Len(s) \in Nat
      /\ \A i \in 1..Len(s) : ToUpper(s)[i] = Upper[s[i]]
  BY UpperIs DEF Text
<1>2. ToUpper(s) = <<>> <=> s = <<>>
  BY <1>1
<1>3. CASE Len(s) = 1
  <2>1. s = <<s[1]>> /\ s[1] \in Lexemes /\ ToUpper(s) = <<Upper[s[1]]>>
    BY <1>1, <1>3
  <2>2. Upper[s[1]] = d <=> s[1] = d
    BY <2>1, UpperDelimiter
  <2>3. ToUpper(s) = <<d>> <=> Upper[s[1]] = d
    BY <2>1
  <2>4. s = <<d>> <=> s[1] = d
    BY <2>1
  <2>. QED
    BY <1>2, <2>2, <2>3, <2>4
<1>4. CASE Len(s) # 1
  <2>1. Len(<<d>>) = 1
    OBVIOUS
  <2>. QED
    BY <1>1, <1>2, <1>4, <2>1
<1>. QED
  BY <1>3, <1>4

\* Capitals do not bring in a delimiter, nor take one away.
LEMMA UpperFree ==
  ASSUME NEW s \in Text, NEW d, Delimiter(d)
  PROVE  Free(ToUpper(s), d) <=> Free(s, d)
<1>1. s \in Seq(Lexemes) /\ Len(ToUpper(s)) = Len(s) /\ \A i \in 1..Len(s) : ToUpper(s)[i] = Upper[s[i]]
  BY UpperIs DEF Text
<1>2. \A i \in 1..Len(s) : s[i] \in Lexemes
  BY <1>1
<1>3. \A i \in 1..Len(s) : Upper[s[i]] = d <=> s[i] = d
  BY <1>2, UpperDelimiter
<1>. QED
  BY <1>1, <1>3 DEF Free

-----------------------------------------------------------------------------
(* Trim and Format.                                                        *)

\* The blank.  The provers are given its name: the SMT backend does not take
\* the string itself.
SP == " "

\* The first m lexemes are blanks and the next is not.
Lead(s, m) ==
  m \in 0..Len(s) /\ (\A i \in 1..m : s[i] = SP) /\ (m < Len(s) => s[m + 1] # SP)

\* Trim takes the blanks off the front.
LEMMA TrimIs ==
  ASSUME NEW S, NEW s \in Seq(S)
  PROVE  \E m : Lead(s, m) /\ Trim(s, SP) = SubSeq(s, m + 1, Len(s))
<1>. DEFINE T == {i \in 0..(Len(s) - 1) : s[i + 1] # SP} \cup {Len(s)}
<1>0. Len(s) \in Nat
  OBVIOUS
<1>1. T \in SUBSET Nat /\ T # {} /\ Len(s) \in T
  BY <1>0
<1>2. Trim(s, SP) = substr(s, Least(T), Len(s))
  BY DEF Trim
<1>3. \A i \in T : i \in 0..Len(s) /\ (i < Len(s) => s[i + 1] # SP)
  BY <1>0
<1>4. \A i \in 0..(Len(s) - 1) : s[i + 1] # SP => i \in T
  OBVIOUS
<1>. HIDE DEF T
<1>5. PICK m \in T : \A n \in T : m <= n
  BY <1>1, LeastNat
<1>6. Least(T) = m
  <2>1. \A x \in T : (\A y \in T : x <= y) => x = m
    BY <1>1, <1>5
  <2>2. Min(T) = m
    BY <1>5, <2>1 DEF Min
  <2>. QED
    BY <1>1, <2>2 DEF Least
<1>7. m \in 0..Len(s) /\ m \in Nat /\ (m < Len(s) => s[m + 1] # SP)
  BY <1>0, <1>3, <1>5
<1>8. ASSUME NEW i \in 1..m PROVE s[i] = SP
  <2>1. PICK k : k = i - 1
    OBVIOUS
  <2>2. k \in 0..(Len(s) - 1) /\ k < m /\ k + 1 = i
    BY <1>0, <1>7, <2>1
  <2>3. k \notin T
    BY <1>1, <1>5, <1>7, <2>2
  <2>. QED
    BY <1>4, <2>2, <2>3
<1>9. Lead(s, m)
  BY <1>7, <1>8 DEF Lead
<1>10. substr(s, m, Len(s)) = SubSeq(s, m + 1, Len(s))
  <2>1. m + Len(s) \in Nat
    BY <1>0, <1>7
  <2>2. Min({m + Len(s), Len(s)}) = IF m + Len(s) <= Len(s) THEN m + Len(s) ELSE Len(s)
    BY <1>0, <2>1, MinOfTwo
  <2>3. Min({m + Len(s), Len(s)}) = Len(s)
    BY <1>0, <1>7, <2>2
  <2>. QED
    BY <2>3 DEF substr
<1>. QED
  BY <1>2, <1>6, <1>9, <1>10

\* There is one such m.
LEMMA LeadUnique ==
  ASSUME NEW S, NEW s \in Seq(S), NEW m, NEW k, Lead(s, m), Lead(s, k)
  PROVE  m = k
<1>1. m \in Nat /\ k \in Nat /\ m <= Len(s) /\ k <= Len(s) /\ Len(s) \in Nat
  BY DEF Lead
<1>2. ASSUME m < k PROVE FALSE
  <2>1. m + 1 \in 1..k /\ m < Len(s)
    BY <1>1, <1>2
  <2>. QED
    BY <2>1 DEF Lead
<1>3. ASSUME k < m PROVE FALSE
  <2>1. k + 1 \in 1..m /\ k < Len(s)
    BY <1>1, <1>3
  <2>. QED
    BY <2>1 DEF Lead
<1>. QED
  BY <1>1, <1>2, <1>3

\* Format, from the number of blanks in front.
LEMMA FormatIs ==
  ASSUME NEW s \in Text, NEW m, Lead(s, m)
  PROVE  Format(s) = ToUpper(SubSeq(s, m + 1, Len(s)))
<1>1. s \in Seq(Lexemes)
  BY DEF Text
<1>2. PICK k : Lead(s, k) /\ Trim(s, SP) = SubSeq(s, k + 1, Len(s))
  BY <1>1, TrimIs
<1>3. m = k
  BY <1>1, <1>2, LeadUnique
<1>4. Format(s) = ToUpper(Trim(s, SP))
  BY Zenon DEF Format, SP
<1>. QED
  BY <1>2, <1>3, <1>4

\* Nothing is taken off a text without blanks.
LEMMA FormatFree ==
  ASSUME NEW s \in Text, Free(s, SP)
  PROVE  Format(s) = ToUpper(s)
<1>0. s \in Seq(Lexemes) /\ Len(s) \in Nat
  BY DEF Text
<1>1. PICK z : z = 0
  OBVIOUS
<1>2. Lead(s, z)
  <2>1. z < Len(s) => s[z + 1] # SP
    <3>1. z < Len(s) => z + 1 \in 1..Len(s)
      BY <1>0, <1>1
    <3>. QED
      BY <3>1 DEF Free
  <2>2. z \in 0..Len(s) /\ 1..z = {}
    BY <1>0, <1>1
  <2>. QED
    BY <2>1, <2>2 DEF Lead
<1>3. Format(s) = ToUpper(SubSeq(s, z + 1, Len(s)))
  BY <1>2, FormatIs
<1>4. SubSeq(s, z + 1, Len(s)) = s
  BY <1>0, <1>1
<1>. QED
  BY <1>3, <1>4

\* A sequence of one element.
LEMMA OneElem ==
  ASSUME NEW S, NEW f \in Seq(S), NEW x
  PROVE  f = <<x>> <=> Len(f) = 1 /\ f[1] = x
<1>1. PICK w : w = <<x>>
  OBVIOUS
<1>2. PICK R : R = {x}
  OBVIOUS
<1>3. w \in Seq(R) /\ Len(w) = 1 /\ w[1] = x
  BY <1>1, <1>2
<1>4. ASSUME Len(f) = 1, f[1] = x PROVE f = w
  <2>1. \A i \in 1..Len(f) : f[i] = w[i]
    BY <1>3, <1>4
  <2>. HIDE <1>1, <1>2
  <2>. QED
    BY <1>3, <1>4, <2>1, SameElems
<1>. QED
  BY <1>1, <1>3, <1>4

\* Blanks(n) has n blanks.
LEMMA BlanksIs ==
  ASSUME NEW n \in Nat
  PROVE  Blanks(n) \in Seq({SP}) /\ Len(Blanks(n)) = n /\ \A i \in 1..n : Blanks(n)[i] = SP
<1>1. Blanks(n) = [i \in 1..n |-> SP]
  BY Zenon DEF Blanks, SP
<1>. QED
  BY <1>1

\* The elements of blanks and a word.
WordShape(w, n, x) ==
  w \in Seq({SP} \cup {x}) /\ Len(w) = n + 1 /\ w[n + 1] = x /\ \A i \in 1..n : w[i] = SP

\* Blanks and a word behind them.
LEMMA BlankWord ==
  ASSUME NEW n \in Nat, NEW x
  PROVE  WordShape(Blanks(n) \o <<x>>, n, x)
<1>0. PICK w : w = Blanks(n) \o <<x>>
  OBVIOUS
<1>. DEFINE A == {SP} \cup {x}
<1>1. PICK b : b = Blanks(n)
  OBVIOUS
<1>2. b \in Seq(A) /\ Len(b) = n /\ \A i \in 1..n : b[i] = SP
  <2>1. b \in Seq({SP}) /\ Len(b) = n /\ \A i \in 1..n : b[i] = SP
    BY <1>1, BlanksIs
  <2>2. {SP} \subseteq A
    OBVIOUS
  <2>. HIDE DEF A
  <2>3. b \in Seq(A)
    BY <2>1, <2>2, SeqMonotonic
  <2>. QED
    BY <2>1, <2>3
<1>3. <<x>> \in Seq(A)
  <2>1. x \in A
    OBVIOUS
  <2>. HIDE DEF A
  <2>. QED
    BY <2>1
<1>. HIDE DEF A
<1>4. PICK c : c = <<x>>
  OBVIOUS
<1>5. c \in Seq(A) /\ Len(c) = 1 /\ c[1] = x
  BY <1>3, <1>4
<1>6. w = b \o c
  BY <1>0, <1>1, <1>4
<1>7. /\ w \in Seq(A) /\ Len(w) = Len(b) + Len(c)
      /\ \A i \in 1..Len(w) : w[i] = IF i <= Len(b) THEN b[i] ELSE c[i - Len(b)]
  <2>1. b \in Seq(A) /\ c \in Seq(A)
    BY <1>2, <1>5
  <2>. HIDE <1>0, <1>1, <1>4
  <2>. QED
    BY <1>6, <2>1, ConcatElem
<1>8. Len(w) = n + 1
  BY <1>2, <1>5, <1>7
<1>9. \A i \in 1..n : w[i] = SP
  <2>. SUFFICES ASSUME NEW i \in 1..n PROVE w[i] = SP
    OBVIOUS
  <2>1. i \in 1..Len(w) /\ i <= Len(b)
    BY <1>2, <1>8
  <2>. QED
    BY <1>2, <1>7, <2>1
<1>10. w[n + 1] = x
  <2>1. n + 1 \in 1..Len(w) /\ ~ (n + 1 <= Len(b)) /\ (n + 1) - Len(b) = 1
    BY <1>2, <1>8
  <2>. QED
    BY <1>5, <1>7, <2>1
<1>. QED
  BY <1>0, <1>7, <1>8, <1>9, <1>10 DEF A, WordShape

\* A text is a word after formatting exactly if it is that word in some case,
\* with blanks before it.
IsWord(s, x) == \E k \in 0..Len(s) : ToUpper(s) = Blanks(k) \o <<x>>

\* Format gives a word exactly for the texts with blanks before the word and nothing behind it.
LEMMA FormatWord ==
  ASSUME NEW s \in Text, NEW x, x # SP
  PROVE  Format(s) = <<x>> <=> IsWord(s, x)
<1>0. s \in Seq(Lexemes) /\ Len(s) \in Nat
  BY DEF Text
<1>1. PICK u : u = ToUpper(s)
  OBVIOUS
<1>2. u \in Seq(Lexemes) /\ Len(u) = Len(s) /\ \A i \in 1..Len(s) : u[i] = Upper[s[i]]
  BY <1>1, UpperIs DEF Text
<1>3. \A i \in 1..Len(s) : u[i] = SP <=> s[i] = SP
  <2>1. Delimiter(SP)
    BY Zenon DEF Delimiter, SP
  <2>2. \A i \in 1..Len(s) : s[i] \in Lexemes
    BY <1>0
  <2>3. \A y \in Lexemes : Upper[y] = SP <=> y = SP
    BY <2>1, UpperDelimiter
  <2>. QED
    BY <1>2, <2>2, <2>3
\* The word is the last lexeme, and the others are blanks.
<1>. DEFINE Ended(m) == Len(s) = m + 1 /\ m \in Nat /\ u[m + 1] = x /\ \A i \in 1..m : s[i] = SP
<1>4. ASSUME NEW m, Lead(s, m) PROVE Format(s) = <<x>> <=> Ended(m)
  <2>1. m \in 0..Len(s) /\ m \in Nat /\ \A i \in 1..m : s[i] = SP
    BY <1>4 DEF Lead
  <2>2. PICK t : t = SubSeq(s, m + 1, Len(s))
    OBVIOUS
  <2>3. t \in Text /\ Len(t) = Len(s) - m /\ \A i \in 1..Len(t) : t[i] = s[i + m]
    BY <1>0, <2>1, <2>2 DEF Text
  <2>4. PICK f : f = ToUpper(t)
    OBVIOUS
  <2>5. f \in Seq(Lexemes) /\ Len(f) = Len(t) /\ \A i \in 1..Len(t) : f[i] = Upper[t[i]]
    BY <2>3, <2>4, UpperIs DEF Text
  <2>6. Format(s) = f
    BY <1>4, <2>2, <2>4, FormatIs
  <2>7. f = <<x>> <=> Len(f) = 1 /\ f[1] = x
    BY <2>5, OneElem
  <2>8. Len(f) = 1 <=> Len(s) = m + 1
    BY <1>0, <2>1, <2>3, <2>5
  <2>9. Len(f) = 1 => f[1] = u[m + 1]
    <3>. SUFFICES ASSUME Len(f) = 1 PROVE f[1] = u[m + 1]
      OBVIOUS
    <3>1. 1 \in 1..Len(t) /\ m + 1 \in 1..Len(s) /\ 1 + m = m + 1
      BY <1>0, <2>1, <2>5, <2>8
    <3>2. f[1] = Upper[s[m + 1]]
      BY <2>3, <2>5, <3>1
    <3>. QED
      BY <1>2, <3>1, <3>2
  <2>. QED
    BY <2>1, <2>6, <2>7, <2>8, <2>9
<1>5. ASSUME Format(s) = <<x>> PROVE IsWord(s, x)
  <2>1. PICK m : Lead(s, m)
    BY <1>0, TrimIs
  <2>2. Ended(m)
    BY <1>4, <1>5, <2>1
  <2>3. PICK w : w = Blanks(m) \o <<x>>
    OBVIOUS
  <2>4. /\ w \in Seq({SP} \cup {x}) /\ Len(w) = m + 1
        /\ w[m + 1] = x /\ \A i \in 1..m : w[i] = SP
    <3>1. m \in Nat
      BY <2>2
    <3>2. WordShape(Blanks(m) \o <<x>>, m, x)
      BY <3>1, BlankWord
    <3>. QED
      BY <2>3, <3>2 DEF WordShape
  <2>5. ASSUME NEW i \in 1..Len(u) PROVE u[i] = w[i]
    <3>1. i \in 1..Len(s) /\ (i \in 1..m \/ i = m + 1)
      BY <1>2, <2>2
    <3>2. CASE i \in 1..m
      BY <1>3, <2>2, <2>4, <3>1, <3>2
    <3>3. CASE i = m + 1
      BY <2>2, <2>4, <3>3
    <3>. QED
      BY <3>1, <3>2, <3>3
  <2>6. u = w
    <3>1. PICK B : B = {SP} \cup {x}
      OBVIOUS
    <3>2. w \in Seq(B) /\ Len(u) = Len(w) /\ u \in Seq(Lexemes)
      BY <1>2, <2>2, <2>4, <3>1
    <3>. HIDE <2>3, <1>1
    <3>. QED
      BY <2>5, <3>2, SameElems
  <2>7. m \in 0..Len(s)
    BY <2>2
  <2>. QED
    BY <1>1, <2>3, <2>6, <2>7 DEF IsWord
<1>6. ASSUME IsWord(s, x) PROVE Format(s) = <<x>>
  <2>1. PICK k \in 0..Len(s) : u = Blanks(k) \o <<x>>
    BY <1>1, <1>6 DEF IsWord
  <2>2. k \in Nat
    BY <1>0
  <2>3. Len(u) = k + 1 /\ u[k + 1] = x /\ \A i \in 1..k : u[i] = SP
    <3>1. WordShape(Blanks(k) \o <<x>>, k, x)
      BY <2>2, BlankWord
    <3>. QED
      BY <2>1, <3>1 DEF WordShape
  <2>4. Len(s) = k + 1 /\ k + 1 \in 1..Len(s) /\ \A i \in 1..k : i \in 1..Len(s)
    BY <1>2, <2>2, <2>3
  <2>5. (\A i \in 1..k : s[i] = SP) /\ s[k + 1] # SP
    BY <1>3, <2>3, <2>4
  <2>6. Lead(s, k)
    BY <2>1, <2>5 DEF Lead
  <2>7. Ended(k)
    BY <2>2, <2>3, <2>4, <2>5
  <2>. QED
    BY <1>4, <2>6, <2>7
<1>. QED
  BY <1>5, <1>6

-----------------------------------------------------------------------------
(* Header.                                                                 *)

\* The parts of the assumption, for the SMT backend.
LEMMA TextFacts ==
  /\ SP \in Lexemes /\ ":" \in Lexemes /\ "&" \in Lexemes /\ CRLF \in Lexemes
  /\ "Connection" \in Lexemes /\ "Keep-Alive" \in Lexemes
  /\ Delimiter(SP) /\ Delimiter(":") /\ Delimiter(".")
  /\ Directory \in Text /\ kDefaultRoute \in Text /\ SizeMax \in Nat
BY TextAssumption, Zenon DEF SP, Delimiter

\* A line is a first part, a colon and a second part.
KeyValue(line, key, r) ==
  key \in Text /\ r \in Text /\ Free(key, ":") /\ Follows(Lexemes, key \o <<":">>, r, line)

\* Header of a line, from its first colon.
LEMMA HeaderIs ==
  ASSUME NEW line \in Text, Len(line) < SizeMax, NEW key, NEW r, KeyValue(line, key, r)
  PROVE  /\ r # <<>> => Header(line) = [valid |-> TRUE, key |-> key, value |-> Chop(r, ":")]
         /\ r = <<>> => Header(line) = [valid |-> FALSE]
         /\ GoodHeader(line) <=> r # <<>>
<1>0. key \in Seq(Lexemes) /\ r \in Seq(Lexemes) /\ ":" \in Lexemes /\ SizeMax \in Nat
  BY TextFacts DEF KeyValue, Text
<1>1. Split(line, ":") = <<key>> \o Split(r, ":")
  BY <1>0, SplitFirst DEF KeyValue
<1>2. /\ Len(line) = Len(key) + 1 + Len(r) /\ Len(key) \in Nat /\ Len(r) \in Nat
      /\ line[Len(key) + 1] = ":" /\ \A i \in 1..Len(key) : line[i] = key[i]
  <2>1. PICK v : v = key \o <<":">>
    OBVIOUS
  <2>2. v \in Seq(Lexemes) /\ Len(v) = Len(key) + 1 /\ Len(key) \in Nat /\ v[Len(key) + 1] = ":"
        /\ \A i \in 1..Len(key) : v[i] = key[i]
    BY <1>0, <2>1
  <2>3. line = v \o r /\ v \in Seq(Lexemes)
    BY <2>1, <2>2 DEF KeyValue, Follows
  <2>4. Len(line) = Len(v) + Len(r) /\ Len(r) \in Nat /\ \A i \in 1..Len(v) : line[i] = v[i]
    <3>. HIDE <2>1
    <3>. QED
      BY <1>0, <2>3, ConcatIs
  <2>. QED
    BY <2>2, <2>4
<1>3. SplitGood(Lexemes, r, ":")
  <2>1. Len(r) < SizeMax
    BY <1>0, <1>2
  <2>. QED
    BY <1>0, <2>1, SplitGoodAll
<1>4. PICK ts : ts = Split(r, ":")
  OBVIOUS
<1>5. ts \in Seq(Seq(Lexemes)) /\ (ts = <<>> <=> r = <<>>) /\ Join(ts, ":") = Chop(r, ":")
  BY <1>3, <1>4 DEF SplitGood
<1>6. PICK w : w = <<key>> \o ts
  OBVIOUS
<1>7. w[1] = key /\ Tail(w) = ts /\ Len(w) = Len(ts) + 1 /\ Len(ts) \in Nat /\ (Len(ts) = 0 <=> ts = <<>>)
  <2>1. key \in Seq(Lexemes) /\ ts \in Seq(Seq(Lexemes))
    BY <1>0, <1>5
  <2>. HIDE <1>4
  <2>. QED
    BY <1>6, <2>1
<1>8. Header(line) = IF Len(w) < 2 THEN [valid |-> FALSE]
                     ELSE [valid |-> TRUE, key |-> w[1], value |-> Join(Tail(w), ":")]
  BY <1>1, <1>4, <1>6 DEF Header
<1>9. Len(w) < 2 <=> r = <<>>
  BY <1>5, <1>7
<1>10. GoodHeader(line) <=> r # <<>>
  <2>1. Len(r) = 0 <=> r = <<>>
    BY <1>0
  <2>2. ASSUME r # <<>> PROVE GoodHeader(line)
    <3>1. Len(key) + 1 \in 1..(Len(line) - 1)
      BY <1>2, <2>1, <2>2
    <3>. QED
      BY <1>2, <3>1 DEF GoodHeader
  <2>3. ASSUME r = <<>>, GoodHeader(line) PROVE FALSE
    <3>1. PICK i \in 1..(Len(line) - 1) : line[i] = ":"
      BY <2>3 DEF GoodHeader
    <3>2. i \in 1..Len(key)
      BY <1>2, <2>1, <2>3
    <3>. QED
      BY <1>2, <3>1, <3>2 DEF KeyValue, Free
  <2>. QED
    BY <2>2, <2>3
<1>. QED
  BY <1>5, <1>7, <1>8, <1>9, <1>10

\* Without a colon, there is no header.
LEMMA HeaderFree ==
  ASSUME NEW line \in Text, Free(line, ":")
  PROVE  Header(line) = [valid |-> FALSE] /\ ~ GoodHeader(line)
<1>0. line \in Seq(Lexemes) /\ Len(line) \in Nat
  BY DEF Text
<1>1. Split(line, ":") = IF line = <<>> THEN <<>> ELSE <<line>>
  BY <1>0, SplitFree
<1>2. Len(Split(line, ":")) < 2
  <2>1. PICK a : a = <<>>
    OBVIOUS
  <2>2. PICK b : b = <<line>>
    OBVIOUS
  <2>3. Len(a) < 2 /\ Len(b) < 2
    BY <2>1, <2>2
  <2>4. Split(line, ":") = a \/ Split(line, ":") = b
    BY <1>1, <2>1, <2>2
  <2>. HIDE <2>1, <2>2
  <2>. QED
    BY <2>3, <2>4
<1>3. ~ GoodHeader(line)
  BY <1>0 DEF GoodHeader, Free
<1>. QED
  BY <1>2, <1>3 DEF Header

\* A header line is one or the other.
LEMMA HeaderCases ==
  ASSUME NEW line \in Text
  PROVE  Free(line, ":") \/ \E key, r : KeyValue(line, key, r)
<1>1. line \in Seq(Lexemes)
  BY DEF Text
<1>2. \/ Free(line, ":")
      \/ \E p \in Seq(Lexemes), r \in Seq(Lexemes) : Free(p, ":") /\ Follows(Lexemes, p \o <<":">>, r, line)
  BY <1>1, CutCases
<1>. QED
  BY <1>2 DEF KeyValue, Text

\* Header accepts the lines with a colon before their end, and written out
\* again a header is its line but for one colon at the end.
LEMMA HeaderRead ==
  ASSUME NEW line \in Text, Len(line) < SizeMax
  PROVE  \/ /\ GoodHeader(line) /\ Header(line).valid = TRUE
            /\ Serialize(Header(line)) = Chop(line, ":") \o <<CRLF>>
         \/ ~ GoodHeader(line) /\ Header(line).valid = FALSE
<1>1. CASE Free(line, ":")
  <2>1. Header(line) = [valid |-> FALSE] /\ ~ GoodHeader(line)
    BY <1>1, HeaderFree
  <2>2. Header(line).valid = FALSE
    BY <2>1
  <2>. QED
    BY <2>1, <2>2
<1>2. CASE \E key, r : KeyValue(line, key, r)
  <2>1. PICK key, r : KeyValue(line, key, r)
    BY <1>2
  <2>2. /\ r # <<>> => Header(line) = [valid |-> TRUE, key |-> key, value |-> Chop(r, ":")]
        /\ r = <<>> => Header(line) = [valid |-> FALSE]
        /\ GoodHeader(line) <=> r # <<>>
    BY <2>1, HeaderIs
  <2>3. CASE r = <<>>
    <3>1. Header(line).valid = FALSE
      BY <2>2, <2>3
    <3>. QED
      BY <2>2, <2>3, <3>1
  <2>4. CASE r # <<>>
    <3>0. GoodHeader(line)
      BY <2>2, <2>4
    <3>1. Header(line).valid = TRUE /\ Header(line).key = key /\ Header(line).value = Chop(r, ":") /\ r # <<>>
      BY <2>2, <2>4
    <3>2. Chop(line, ":") = (key \o <<":">>) \o Chop(r, ":")
      <4>1. key \in Seq(Lexemes) /\ r \in Seq(Lexemes) /\ ":" \in Lexemes /\ Follows(Lexemes, key \o <<":">>, r, line)
        BY <2>1, TextFacts DEF KeyValue, Text
      <4>2. Chop(line, ":") = IF r = <<>> THEN key ELSE (key \o <<":">>) \o Chop(r, ":")
        BY <4>1, ChopBehind
      <4>. QED
        BY <3>1, <4>2
    <3>3. Serialize(Header(line)) = Chop(line, ":") \o <<CRLF>>
      BY <3>1, <3>2 DEF Serialize
    <3>. QED
      BY <3>0, <3>1, <3>3
  <2>. QED
    BY <2>3, <2>4
<1>. QED
  BY <1>1, <1>2, HeaderCases

\* What Chop leaves, and what it takes.
LEMMA ChopIs ==
  ASSUME NEW S, NEW r \in Seq(S), NEW d
  PROVE  Chop(r, d) \in Seq(S) /\ (r = Chop(r, d) \/ r = Chop(r, d) \o <<d>>)
<1>1. CASE r # <<>> /\ Last(r) = d
  <2>1. Len(r) \in Nat /\ Len(r) # 0 /\ Front(r) \in Seq(S) /\ r = Append(Front(r), r[Len(r)])
    BY <1>1 DEF Front
  <2>2. Append(Front(r), d) = Front(r) \o <<d>>
    BY <2>1
  <2>. QED
    BY <1>1, <2>1, <2>2 DEF Chop, Last
<1>2. CASE ~ (r # <<>> /\ Last(r) = d)
  BY <1>2 DEF Chop
<1>. QED
  BY <1>1, <1>2

-----------------------------------------------------------------------------
(* ScanHeader.                                                             *)

\* Facts about concatenation as terms of their own: a prover that sees many
\* concatenations at once gets lost in them.
AssocAt(a, b, c) == (a \o b) \o c = a \o (b \o c)

\* Concatenation is associative.
LEMMA AssocIs ==
  ASSUME NEW S, NEW a \in Seq(S), NEW b \in Seq(S), NEW c \in Seq(S)
  PROVE  AssocAt(a, b, c)
BY Assoc DEF AssocAt

UpperPlus(a, b) == a \o b \in Text /\ ToUpper(a \o b) = ToUpper(a) \o ToUpper(b)

\* ToUpper of two texts put together.
LEMMA UpperJoin ==
  ASSUME NEW a \in Text, NEW b \in Text
  PROVE  UpperPlus(a, b)
BY UpperTogether DEF UpperPlus

\* A line ends in the delimiter or not.
Ending(tail, d) == tail = <<>> \/ tail = <<d>>

\* A last delimiter, or none, is the same in capitals.
LEMMA EndingIs ==
  ASSUME NEW d, Delimiter(d), d \in Lexemes, NEW tail, Ending(tail, d)
  PROVE  /\ tail \in Text /\ ToUpper(tail) = tail /\ <<d>> \in Text /\ ToUpper(<<d>>) = <<d>>
         /\ \A t \in Text : ToUpper(t) = tail => t = tail
<1>1. Upper[d] = d
  BY UpperDelimiter
<1>2. PICK c : c = <<d>>
  OBVIOUS
<1>3. c \in Text /\ ToUpper(c) = c
  BY <1>1, <1>2, UpperOne
<1>4. \A t \in Text : (ToUpper(t) = <<d>> => t = <<d>>) /\ (ToUpper(t) = <<>> => t = <<>>)
  BY UpperIsDelimiter
<1>5. tail = <<>> \/ tail = c
  BY <1>2 DEF Ending
<1>6. tail \in Text /\ ToUpper(tail) = tail
  BY <1>3, <1>5, UpperNone
<1>7. \A t \in Text : ToUpper(t) = tail => t = tail
  BY <1>2, <1>4, <1>5
<1>. QED
  BY <1>2, <1>3, <1>6, <1>7

\* A pair as two sequences of one element.
LEMMA PairIs ==
  ASSUME NEW c, NEW d
  PROVE  <<c, d>> = <<c>> \o <<d>>
<1>1. PICK x : x = <<c>>
  OBVIOUS
<1>2. PICK y : y = <<d>>
  OBVIOUS
<1>3. PICK A : A = {c, d}
  OBVIOUS
<1>4. x \in Seq(A) /\ y \in Seq(A) /\ Len(x) = 1 /\ Len(y) = 1 /\ x[1] = c /\ y[1] = d
  BY <1>1, <1>2, <1>3
<1>5. PICK z : z = <<c, d>>
  OBVIOUS
<1>6. z \in Seq(A) /\ Len(z) = 2 /\ z[1] = c /\ z[2] = d
  BY <1>3, <1>5
<1>. HIDE <1>1, <1>2, <1>3, <1>5
<1>7. PICK w : w = x \o y
  OBVIOUS
<1>8. w \in Seq(A) /\ Len(w) = 2 /\ w[1] = c /\ w[2] = d
  <2>1. w \in Seq(A) /\ Len(w) = Len(x) + Len(y) 
        /\ \A i \in 1..Len(w) : w[i] = IF i <= Len(x) THEN x[i] ELSE y[i - Len(x)]
    <3>1. x \in Seq(A) /\ y \in Seq(A)
      BY <1>4
    <3>. QED
      BY <1>7, <3>1, ConcatElem
  <2>. HIDE <1>7
  <2>2. Len(w) = 2
    BY <1>4, <2>1
  <2>3. 1 \in 1..Len(w) /\ 2 \in 1..Len(w) /\ 1 <= Len(x) /\ ~ (2 <= Len(x)) /\ 2 - Len(x) = 1
    BY <1>4, <2>2
  <2>4. w[1] = x[1] /\ w[2] = y[1]
    BY <2>1, <2>3
  <2>. QED
    BY <1>4, <2>1, <2>2, <2>4
<1>9. z = w
  <2>1. Len(z) = Len(w) /\ \A i \in 1..Len(z) : z[i] = w[i]
    BY <1>6, <1>8
  <2>. HIDE <1>7
  <2>. QED
    BY <1>6, <1>8, <2>1, SameSeq
<1>. QED
  BY <1>1, <1>2, <1>5, <1>7, <1>9

\* The two words of the header that keeps a connection.
UC == Upper["Connection"]
UK == Upper["Keep-Alive"]

\* The two words that ScanHeader looks for, as Format writes them.
LEMMA KeepWords ==
  /\ UC \in Lexemes /\ UK \in Lexemes /\ UC # SP /\ UK # SP /\ UC # ":" /\ UK # ":"
  /\ Format(<<"Connection">>) = <<UC>> /\ Format(<<"Keep-Alive">>) = <<UK>>
<1>1. "Connection" # SP /\ "Keep-Alive" # SP /\ SP # ":"
  BY Zenon DEF SP
<1>2. "Connection" # ":" /\ "Keep-Alive" # ":"
  OBVIOUS
<1>3. Upper \in [Lexemes -> Lexemes]
  BY TextAssumption, Zenon
<1>4. ASSUME NEW x \in Lexemes, x # SP, x # ":"
      PROVE  Upper[x] \in Lexemes /\ Upper[x] # SP /\ Upper[x] # ":" /\ Format(<<x>>) = <<Upper[x]>>
  <2>1. Upper[x] \in Lexemes
    BY <1>3
  <2>2. Upper[x] # SP /\ Upper[x] # ":"
    BY <1>4, TextFacts, UpperDelimiter
  <2>3. <<x>> \in Text /\ ToUpper(<<x>>) = <<Upper[x]>>
    BY UpperOne
  <2>4. Free(<<x>>, SP)
    BY <1>4 DEF Free
  <2>5. Format(<<x>>) = ToUpper(<<x>>)
    BY <2>3, <2>4, FormatFree
  <2>. QED
    BY <2>1, <2>2, <2>3, <2>5
<1>5. "Connection" \in Lexemes /\ "Keep-Alive" \in Lexemes
  BY TextFacts
<1>. QED
  BY <1>1, <1>2, <1>4, <1>5 DEF UC, UK

\* The line of such a header, in its parts.
Regrouped(b, c, d, e, k, t) ==
  b \o <<c, d>> \o e \o <<k>> \o t = ((b \o <<c>>) \o <<d>>) \o ((e \o <<k>>) \o t)

\* The parts of KeepAliveLine, grouped at the colon.
LEMMA Regroup ==
  ASSUME NEW A, NEW b \in Seq(A), NEW c \in A, NEW d \in A, NEW e \in Seq(A), NEW k \in A, NEW t \in Seq(A)
  PROVE  Regrouped(b, c, d, e, k, t)
<1>1. <<c, d>> = <<c>> \o <<d>>
  BY PairIs
<1>2. PICK x : x = <<c>>
  OBVIOUS
<1>3. PICK y : y = <<d>>
  OBVIOUS
<1>4. PICK z : z = <<k>>
  OBVIOUS
<1>5. x \in Seq(A) /\ y \in Seq(A) /\ z \in Seq(A)
  BY <1>2, <1>3, <1>4
<1>6. PICK v : v = (b \o x) \o y
  OBVIOUS
<1>7. v \in Seq(A) /\ e \o z \in Seq(A)
  BY <1>5, <1>6
<1>8. PICK w : w = e \o z
  OBVIOUS
<1>9. w \in Seq(A)
  BY <1>7, <1>8
<1>10. AssocAt(b, x, y) /\ AssocAt(v, e, z) /\ AssocAt(v, w, t)
  <2>1. v \in Seq(A)
    BY <1>7
  <2>. HIDE <1>2, <1>3, <1>4, <1>6, <1>8
  <2>. QED
    BY <1>5, <2>1, <1>9, AssocIs
<1>11. b \o (x \o y) \o e \o z \o t = v \o (w \o t)
  BY <1>6, <1>8, <1>10, Zenon DEF AssocAt
<1>. QED
  BY <1>1, <1>2, <1>3, <1>4, <1>6, <1>8, <1>11, Zenon DEF Regrouped

\* Blanks and a word are a text.
LEMMA BlankText ==
  ASSUME NEW n \in Nat, NEW x \in Lexemes
  PROVE  Blanks(n) \in Text /\ Blanks(n) \o <<x>> \in Text
<1>1. Blanks(n) \in Seq({SP})
  BY BlanksIs
<1>2. {SP} \subseteq Lexemes
  BY TextFacts
<1>3. Blanks(n) \in Seq(Lexemes)
  BY <1>1, <1>2, SeqMonotonic
<1>. QED
  BY <1>3 DEF Text

\* How a keep-alive line is written, in two halves.
KeepShape(line, n, k, tail) ==
  ToUpper(line) = ((Blanks(n) \o <<UC>>) \o <<":">>) \o ((Blanks(k) \o <<UK>>) \o tail)

\* KeepAliveLine, with its parts so grouped.
LEMMA KeepAliveShape ==
  ASSUME NEW line \in Text
  PROVE  KeepAliveLine(line) <=>
           \E n, k \in 0..Len(line) : \E tail : Ending(tail, ":") /\ KeepShape(line, n, k, tail)
<1>0. Len(line) \in Nat
  BY DEF Text
<1>1. ASSUME NEW n \in 0..Len(line), NEW k \in 0..Len(line), NEW tail, Ending(tail, ":")
      PROVE  Blanks(n) \o <<UC, ":">> \o Blanks(k) \o <<UK>> \o tail
               = ((Blanks(n) \o <<UC>>) \o <<":">>) \o ((Blanks(k) \o <<UK>>) \o tail)
  <2>1. n \in Nat /\ k \in Nat
    BY <1>0
  <2>2. UC \in Lexemes /\ UK \in Lexemes /\ ":" \in Lexemes
    BY KeepWords, TextFacts
  <2>3. tail \in Seq(Lexemes)
    BY <1>1, <2>2, TextFacts, EndingIs DEF Text
  <2>4. PICK b : b = Blanks(n)
    OBVIOUS
  <2>5. PICK e : e = Blanks(k)
    OBVIOUS
  <2>6. b \in Seq(Lexemes) /\ e \in Seq(Lexemes)
    BY <2>1, <2>2, <2>4, <2>5, BlankText DEF Text
  <2>7. Regrouped(b, UC, ":", e, UK, tail)
    <3>. HIDE <2>4, <2>5
    <3>. QED
      BY <2>2, <2>3, <2>6, Regroup
  <2>. QED
    BY <2>4, <2>5, <2>7, Zenon DEF Regrouped
<1>2. KeepAliveLine(line) <=>
        \E n, k \in 0..Len(line) : \E tail :
           /\ Ending(tail, ":")
           /\ ToUpper(line) = Blanks(n) \o <<UC, ":">> \o Blanks(k) \o <<UK>> \o tail
  BY Zenon DEF KeepAliveLine, Ending, UC, UK
<1>3. ASSUME NEW n \in 0..Len(line), NEW k \in 0..Len(line), NEW tail, Ending(tail, ":")
      PROVE  ToUpper(line) = Blanks(n) \o <<UC, ":">> \o Blanks(k) \o <<UK>> \o tail <=> KeepShape(line, n, k, tail)
  BY <1>1, <1>3, ZenonT(60) DEF KeepShape
<1>. QED
  BY <1>2, <1>3, Zenon

\* A header with these words is written so.
LEMMA KeepWritten ==
  ASSUME NEW line \in Text, NEW key, NEW r, KeyValue(line, key, r), NEW v \in Text, NEW tail, Ending(tail, ":"),
         Follows(Lexemes, v, tail, r), IsWord(key, UC), IsWord(v, UK)
  PROVE  \E n, k \in 0..Len(line) : KeepShape(line, n, k, tail)
<1>1. key \in Text /\ r \in Text /\ line = (key \o <<":">>) \o r
  BY DEF KeyValue, Follows
<1>2. PICK n \in 0..Len(key) : ToUpper(key) = Blanks(n) \o <<UC>>
  BY DEF IsWord
<1>3. PICK k \in 0..Len(v) : ToUpper(v) = Blanks(k) \o <<UK>>
  BY DEF IsWord
<1>4. PICK c : c = <<":">>
  OBVIOUS
<1>5. c \in Text /\ ToUpper(c) = c /\ tail \in Text /\ ToUpper(tail) = tail
  BY <1>4, TextFacts, EndingIs
<1>6. r = v \o tail
  BY DEF Follows
<1>7. ToUpper(r) = ToUpper(v) \o tail
  <2>1. UpperPlus(v, tail)
    BY <1>5, UpperJoin
  <2>. QED
    BY <1>5, <1>6, <2>1, Zenon DEF UpperPlus
<1>8. PICK a : a = key \o c
  OBVIOUS
<1>9. a \in Text /\ ToUpper(a) = ToUpper(key) \o c
  <2>1. UpperPlus(key, c)
    BY <1>1, <1>5, UpperJoin
  <2>. QED
    BY <1>5, <1>8, <2>1, Zenon DEF UpperPlus
<1>10. line = a \o r
  BY <1>1, <1>4, <1>8
<1>11. ToUpper(line) = ToUpper(a) \o ToUpper(r)
  <2>1. UpperPlus(a, r)
    BY <1>1, <1>9, UpperJoin
  <2>. QED
    BY <1>10, <2>1, Zenon DEF UpperPlus
<1>12. KeepShape(line, n, k, tail)
  BY <1>2, <1>3, <1>4, <1>7, <1>9, <1>11, Zenon DEF KeepShape
<1>13. n \in 0..Len(line) /\ k \in 0..Len(line)
  <2>1. key \in Seq(Lexemes) /\ r \in Seq(Lexemes) /\ c \in Seq(Lexemes) /\ a \in Seq(Lexemes)
        /\ v \in Seq(Lexemes) /\ tail \in Seq(Lexemes)
    BY <1>1, <1>5, <1>9 DEF Text
  <2>2. Len(line) = Len(a) + Len(r) /\ Len(a) \in Nat /\ Len(r) \in Nat
    BY <1>10, <2>1, ConcatElem
  <2>3. Len(a) = Len(key) + Len(c) /\ Len(key) \in Nat /\ Len(c) \in Nat
    BY <1>8, <2>1, ConcatElem
  <2>4. Len(r) = Len(v) + Len(tail) /\ Len(v) \in Nat /\ Len(tail) \in Nat
    BY <1>6, <2>1, ConcatElem
  <2>. QED
    BY <2>2, <2>3, <2>4
<1>. QED
  BY <1>12, <1>13

\* What is written so is a header with these words.
LEMMA KeepReadBack ==
  ASSUME NEW line \in Text, NEW n \in Nat, NEW k \in Nat, NEW tail, Ending(tail, ":"),
         KeepShape(line, n, k, tail)
  PROVE  \E key, r : /\ KeyValue(line, key, r) /\ r # <<>>
                     /\ IsWord(key, UC) /\ IsWord(Chop(r, ":"), UK)
<1>0. UC \in Lexemes /\ UK \in Lexemes /\ ":" \in Lexemes /\ UC # ":" /\ UK # ":" /\ SP # ":" /\ Delimiter(":")
  <2>1. SP # ":"
    BY Zenon DEF SP
  <2>. QED
    BY <2>1, KeepWords, TextFacts
<1>1. PICK x : x = Blanks(n) \o <<UC>>
  OBVIOUS
<1>2. PICK y : y = Blanks(k) \o <<UK>>
  OBVIOUS
<1>3. PICK c : c = <<":">>
  OBVIOUS
<1>4. x \in Seq(Lexemes) /\ y \in Seq(Lexemes) /\ c \in Seq(Lexemes) /\ tail \in Seq(Lexemes)
  <2>1. x \in Text /\ y \in Text
    BY <1>0, <1>1, <1>2, BlankText
  <2>2. c \in Text /\ tail \in Text
    BY <1>0, <1>3, EndingIs
  <2>. QED
    BY <2>1, <2>2 DEF Text
<1>5. WordShape(x, n, UC) /\ WordShape(y, k, UK)
  BY <1>1, <1>2, BlankWord
<1>6. ToUpper(line) = (x \o c) \o (y \o tail)
  BY <1>1, <1>2, <1>3 DEF KeepShape
<1>7. x \o c \in Seq(Lexemes) /\ y \o tail \in Seq(Lexemes)
  BY <1>4
<1>8. PICK a, b : Parts(line, x \o c, y \o tail, a, b)
  <2>1. PICK l : l = x \o c
    OBVIOUS
  <2>2. PICK m : m = y \o tail
    OBVIOUS
  <2>3. l \in Seq(Lexemes) /\ m \in Seq(Lexemes) /\ Reads(line, l, m)
    BY <1>6, <1>7, <2>1, <2>2 DEF Reads
  <2>4. \E a, b : Parts(line, l, m, a, b)
    <3>. HIDE <1>1, <1>2, <1>3, <2>1, <2>2
    <3>. QED
      BY <2>3, UpperParts
  <2>. QED
    BY <2>1, <2>2, <2>4
<1>a. a \in Text /\ b \in Text /\ line = a \o b /\ ToUpper(a) = x \o c /\ ToUpper(b) = y \o tail
  BY <1>8 DEF Parts
<1>9. PICK key, co : Parts(a, x, c, key, co)
  <2>1. Reads(a, x, c) /\ a \in Text
    BY <1>a DEF Reads
  <2>. HIDE <1>1, <1>2, <1>3
  <2>. QED
    BY <1>4, <2>1, UpperParts
<1>b. key \in Text /\ co \in Text /\ a = key \o co /\ ToUpper(key) = x /\ ToUpper(co) = c
  BY <1>9 DEF Parts
<1>10. PICK v, t : Parts(b, y, tail, v, t)
  <2>1. Reads(b, y, tail) /\ b \in Text
    BY <1>a DEF Reads
  <2>. HIDE <1>1, <1>2, <1>3
  <2>. QED
    BY <1>4, <2>1, UpperParts
<1>c. v \in Text /\ t \in Text /\ b = v \o t /\ ToUpper(v) = y /\ ToUpper(t) = tail
  BY <1>10 DEF Parts
<1>11. co = <<":">>
  <2>1. Ending(c, ":")
    BY <1>3 DEF Ending
  <2>. QED
    BY <1>0, <1>3, <1>b, <2>1, EndingIs
<1>12. t = tail
  BY <1>0, <1>c, EndingIs
<1>13. Free(key, ":")
  <2>1. Free(x, ":")
    <3>1. Len(x) = n + 1 /\ x[n + 1] = UC /\ \A i \in 1..n : x[i] = SP
      BY <1>5 DEF WordShape
    <3>2. \A i \in 1..(n + 1) : i \in 1..n \/ i = n + 1
      OBVIOUS
    <3>. QED
      BY <1>0, <3>1, <3>2 DEF Free
  <2>. QED
    BY <1>0, <1>b, <2>1, UpperFree
<1>14. KeyValue(line, key, b)
  <2>1. line = (key \o <<":">>) \o b
    BY <1>a, <1>b, <1>11, Zenon
  <2>2. key \o <<":">> \in Seq(Lexemes)
    BY <1>0, <1>b DEF Text
  <2>. QED
    BY <1>a, <1>b, <1>13, <2>1, <2>2 DEF KeyValue, Follows, Text
<1>15. /\ v \in Seq(Lexemes) /\ Len(v) = k + 1 /\ v # <<>> /\ Last(v) # ":"
  <2>1. Len(y) = k + 1 /\ y[k + 1] = UK
    BY <1>5 DEF WordShape
  <2>2. v \in Seq(Lexemes) /\ Len(v) = k + 1 /\ y[k + 1] = Upper[v[k + 1]] /\ v[k + 1] \in Lexemes
    <3>1. Len(y) = Len(v) /\ \A i \in 1..Len(v) : y[i] = Upper[v[i]]
      BY <1>c, UpperIs
    <3>2. k + 1 \in 1..Len(v) /\ v \in Seq(Lexemes)
      BY <1>c, <2>1, <3>1 DEF Text
    <3>. QED
      BY <2>1, <3>1, <3>2
  <2>3. v[k + 1] # ":"
    BY <1>0, <2>1, <2>2, UpperDelimiter
  <2>4. v # <<>>
    BY <2>2
  <2>. QED
    BY <2>2, <2>3, <2>4 DEF Last
<1>16. Chop(b, ":") = v /\ b # <<>>
  <2>1. CASE tail = <<>>
    <3>1. b = v \o <<>>
      BY <1>c, <1>12, <2>1
    <3>2. v \o <<>> = v
      BY <1>15, ConcatEmptySeq
    <3>. QED
      BY <1>15, <3>1, <3>2 DEF Chop
  <2>2. CASE tail = <<":">>
    <3>1. b = v \o <<":">>
      BY <1>c, <1>12, <2>2
    <3>2. b # <<>> /\ Last(b) = ":" /\ Front(b) = v
      BY <1>0, <1>15, <3>1 DEF Last, Front
    <3>. QED
      BY <3>2 DEF Chop
  <2>. QED
    BY <2>1, <2>2 DEF Ending
<1>17. IsWord(key, UC)
  <2>1. n \in 0..Len(key)
    <3>1. Len(x) = Len(key) /\ Len(x) = n + 1
      BY <1>5, <1>b, UpperIs DEF WordShape
    <3>. QED
      BY <3>1
  <2>. QED
    BY <1>1, <1>b, <2>1 DEF IsWord
<1>18. IsWord(v, UK)
  <2>1. k \in 0..Len(v)
    BY <1>15
  <2>. QED
    BY <1>2, <1>c, <2>1 DEF IsWord
<1>. QED
  BY <1>14, <1>16, <1>17, <1>18

\* ScanHeader recognises exactly the keep-alive lines.
LEMMA KeepLine ==
  ASSUME NEW line \in Text, Len(line) < SizeMax, GoodHeader(line)
  PROVE  KeepsAlive(Header(line)) <=> KeepAliveLine(line)
<1>0. Len(line) \in Nat
  BY DEF Text
<1>1. ASSUME NEW key, NEW r, KeyValue(line, key, r)
      PROVE  /\ KeepsAlive(Header(line)) <=> IsWord(key, UC) /\ IsWord(Chop(r, ":"), UK)
             /\ Chop(r, ":") \in Text /\ (r = Chop(r, ":") \/ r = Chop(r, ":") \o <<":">>)
  <2>1. GoodHeader(line) <=> r # <<>>
    BY <1>1, HeaderIs
  <2>2. Header(line) = [valid |-> TRUE, key |-> key, value |-> Chop(r, ":")]
    BY <1>1, <2>1, HeaderIs
  <2>3. Header(line).key = key /\ Header(line).value = Chop(r, ":")
    BY <2>2
  <2>4. key \in Text /\ r \in Text
    BY <1>1 DEF KeyValue
  <2>5. Chop(r, ":") \in Text /\ (r = Chop(r, ":") \/ r = Chop(r, ":") \o <<":">>)
    BY <2>4, ChopIs DEF Text
  <2>6. Format(key) = <<UC>> <=> IsWord(key, UC)
    BY <2>4, KeepWords, FormatWord
  <2>7. Format(Chop(r, ":")) = <<UK>> <=> IsWord(Chop(r, ":"), UK)
    BY <2>5, KeepWords, FormatWord
  <2>. QED
    BY <2>3, <2>5, <2>6, <2>7, KeepWords DEF KeepsAlive
<1>2. ASSUME KeepsAlive(Header(line)) PROVE KeepAliveLine(line)
  <2>1. ~ Free(line, ":")
    BY HeaderFree
  <2>2. PICK key, r : KeyValue(line, key, r)
    BY <2>1, HeaderCases
  <2>3. PICK v \in Text : v = Chop(r, ":")
    BY <1>1, <2>2
  <2>4. IsWord(key, UC) /\ IsWord(v, UK) /\ (r = v \/ r = v \o <<":">>)
    BY <1>1, <1>2, <2>2, <2>3
  <2>5. PICK tail : Ending(tail, ":") /\ Follows(Lexemes, v, tail, r)
    <3>0. v \in Seq(Lexemes)
      BY DEF Text
    <3>1. v \o <<>> = v
      BY <3>0, ConcatEmptySeq
    <3>2. <<>> \in Seq(Lexemes) /\ <<":">> \in Seq(Lexemes)
      BY TextFacts
    <3>3. r = v => Follows(Lexemes, v, <<>>, r)
      BY <3>0, <3>1, <3>2 DEF Follows
    <3>4. r = v \o <<":">> => Follows(Lexemes, v, <<":">>, r)
      BY <3>0, <3>2 DEF Follows
    <3>. QED
      BY <2>4, <3>3, <3>4 DEF Ending
  <2>6. \E n, k \in 0..Len(line) : KeepShape(line, n, k, tail)
    BY <2>2, <2>4, <2>5, KeepWritten
  <2>. QED
    BY <2>5, <2>6, KeepAliveShape
<1>3. ASSUME KeepAliveLine(line) PROVE KeepsAlive(Header(line))
  <2>0. PICK n, k \in 0..Len(line) : \E tail : Ending(tail, ":") /\ KeepShape(line, n, k, tail)
    BY <1>3, KeepAliveShape
  <2>1. PICK tail : Ending(tail, ":") /\ KeepShape(line, n, k, tail)
    BY <2>0
  <2>2. n \in Nat /\ k \in Nat
    BY <1>0, <2>1
  <2>3. PICK key, r : KeyValue(line, key, r) /\ r # <<>> /\ IsWord(key, UC) /\ IsWord(Chop(r, ":"), UK)
    BY <2>1, <2>2, KeepReadBack
  <2>. QED
    BY <1>1, <2>3
<1>. QED
  BY <1>2, <1>3

-----------------------------------------------------------------------------
(* Three words.                                                            *)

\* A token, alone or with a delimiter behind it.
LEMMA OneToken ==
  ASSUME NEW S, NEW d \in S, NEW c \in Seq(S), Free(c, d), c # <<>>, NEW tail, Ending(tail, d),
         NEW r, Follows(S, c, tail, r), Len(r) < SizeMax, SizeMax \in Nat
  PROVE  Split(r, d) = <<c>>
<1>1. r = c \o tail /\ tail \in Seq(S)
  BY DEF Follows
<1>2. CASE tail = <<>>
  <2>1. r = c
    BY <1>1, <1>2, ConcatEmptySeq
  <2>2. Split(c, d) = IF c = <<>> THEN <<>> ELSE <<c>>
    BY SplitFree
  <2>. QED
    BY <2>1, <2>2
<1>3. CASE tail = <<d>>
  <2>1. PICK e : e = <<>>
    OBVIOUS
  <2>2. e \in Seq(S) /\ c \o <<d>> \in Seq(S)
    BY <2>1
  <2>3. (c \o <<d>>) \o e = c \o <<d>>
    BY <2>1, <2>2, ConcatEmptySeq
  <2>4. Follows(S, c \o <<d>>, e, r)
    BY <1>1, <1>3, <2>2, <2>3 DEF Follows
  <2>5. Split(r, d) = <<c>> \o Split(e, d)
    <3>. HIDE <2>1
    <3>. QED
      BY <2>2, <2>4, SplitFirst
  <2>6. Split(e, d) = <<>>
    <3>1. Free(e, d)
      BY <2>1 DEF Free
    <3>2. Split(e, d) = IF e = <<>> THEN <<>> ELSE <<e>>
      BY <2>2, <3>1, SplitFree
    <3>. QED
      BY <2>1, <3>2
  <2>. QED
    BY <2>5, <2>6
<1>. QED
  BY <1>2, <1>3 DEF Ending

\* Conversely.
LEMMA OneTokenRead ==
  ASSUME NEW S, NEW d \in S, NEW r \in Seq(S), Len(r) < SizeMax, SizeMax \in Nat, Len(Split(r, d)) = 1
  PROVE  \E c, tail : /\ c \in Seq(S) /\ Free(c, d) /\ Ending(tail, d)
                      /\ Follows(S, c, tail, r) /\ Split(r, d) = <<c>>
<1>1. CASE Free(r, d)
  <2>1. Split(r, d) = IF r = <<>> THEN <<>> ELSE <<r>>
    BY <1>1, SplitFree
  <2>2. Split(r, d) = <<r>>
    <3>1. PICK e : e = <<>>
      OBVIOUS
    <3>2. Len(e) # 1
      BY <3>1
    <3>. QED
      BY <2>1, <3>1, <3>2
  <2>3. r \o <<>> = r /\ <<>> \in Seq(S)
    BY ConcatEmptySeq
  <2>4. Follows(S, r, <<>>, r) /\ Ending(<<>>, d)
    BY <2>3 DEF Follows, Ending
  <2>. QED
    BY <1>1, <2>2, <2>4
<1>2. CASE \E p \in Seq(S), t \in Seq(S) : Free(p, d) /\ Follows(S, p \o <<d>>, t, r)
  <2>1. PICK p \in Seq(S), t \in Seq(S) : Free(p, d) /\ Follows(S, p \o <<d>>, t, r)
    BY <1>2
  <2>2. Split(r, d) = <<p>> \o Split(t, d)
    BY <2>1, SplitFirst
  <2>3. Len(t) < SizeMax
    <3>1. Len(r) = Len(p) + 1 + Len(t) /\ Len(p) \in Nat /\ Len(t) \in Nat
      BY <2>1 DEF Follows
    <3>. QED
      BY <3>1
  <2>4. SplitGood(S, t, d)
    BY <2>3, SplitGoodAll
  <2>5. PICK ts : ts = Split(t, d)
    OBVIOUS
  <2>6. ts \in Seq(Seq(S)) /\ (ts = <<>> <=> t = <<>>)
    BY <2>4, <2>5 DEF SplitGood
  <2>7. Len(<<p>> \o ts) = 1 + Len(ts) /\ Len(ts) \in Nat
    <3>. HIDE <2>5
    <3>. QED
      BY <2>1, <2>6
  <2>8. ts = <<>>
    <3>1. Len(ts) = 0
      BY <2>2, <2>5, <2>7
    <3>. QED
      BY <2>6, <3>1
  <2>9. Split(r, d) = <<p>>
    BY <2>2, <2>5, <2>8
  <2>10. r = p \o <<d>> /\ <<d>> \in Seq(S)
    <3>1. t = <<>> /\ r = (p \o <<d>>) \o t /\ p \o <<d>> \in Seq(S)
      BY <2>1, <2>6, <2>8 DEF Follows
    <3>. QED
      BY <3>1, ConcatEmptySeq
  <2>11. Follows(S, p, <<d>>, r) /\ Ending(<<d>>, d)
    BY <2>1, <2>10 DEF Follows, Ending
  <2>. QED
    BY <2>1, <2>9, <2>11
<1>. QED
  BY <1>1, <1>2, CutCases

\* Three words and what separates them.
Words(line, a, b, c, tail) ==
  /\ a \in Text /\ b \in Text /\ c \in Text /\ tail \in Text /\ Ending(tail, SP)
  /\ Free(a, SP) /\ Free(b, SP) /\ Free(c, SP)
  /\ line = (a \o <<SP>>) \o ((b \o <<SP>>) \o (c \o tail))

\* What is behind the first word, and behind the second.
Apart(line, a, b, c, tail, r, e) ==
  /\ Follows(Lexemes, a \o <<SP>>, r, line) /\ Follows(Lexemes, b \o <<SP>>, e, r)
  /\ Follows(Lexemes, c, tail, e)
  /\ Len(line) = Len(a) + 1 + Len(r) /\ Len(r) = Len(b) + 1 + Len(e) /\ Len(e) = Len(c) + Len(tail)
  /\ Len(a) \in Nat /\ Len(b) \in Nat /\ Len(c) \in Nat /\ Len(tail) \in Nat

\* A line of three words, cut behind the first and behind the second.
LEMMA WordsApart ==
  ASSUME NEW line, NEW a, NEW b, NEW c, NEW tail, Words(line, a, b, c, tail)
  PROVE  \E r, e : Apart(line, a, b, c, tail, r, e)
<1>1. /\ a \in Seq(Lexemes) /\ b \in Seq(Lexemes) /\ c \in Seq(Lexemes) /\ tail \in Seq(Lexemes)
      /\ line = (a \o <<SP>>) \o ((b \o <<SP>>) \o (c \o tail))
  BY DEF Words, Text
<1>2. PICK e : e = c \o tail
  OBVIOUS
<1>3. PICK y : y = b \o <<SP>>
  OBVIOUS
<1>4. PICK r : r = y \o e
  OBVIOUS
<1>5. PICK x : x = a \o <<SP>>
  OBVIOUS
<1>6. line = x \o r
  BY <1>1, <1>2, <1>3, <1>4, <1>5
<1>7. e \in Seq(Lexemes) /\ Len(e) = Len(c) + Len(tail) /\ Len(c) \in Nat /\ Len(tail) \in Nat
  BY <1>1, <1>2, ConcatElem
<1>8. x \in Seq(Lexemes) /\ y \in Seq(Lexemes) /\ Len(x) = Len(a) + 1 /\ Len(y) = Len(b) + 1
      /\ Len(a) \in Nat /\ Len(b) \in Nat
  BY <1>1, <1>3, <1>5, TextFacts
<1>9. r \in Seq(Lexemes) /\ Len(r) = Len(y) + Len(e)
  <2>1. y \in Seq(Lexemes) /\ e \in Seq(Lexemes)
    BY <1>7, <1>8
  <2>. HIDE <1>2, <1>3, <1>5
  <2>. QED
    BY <1>4, <2>1, ConcatElem
<1>10. Len(line) = Len(x) + Len(r)
  <2>1. x \in Seq(Lexemes) /\ r \in Seq(Lexemes)
    BY <1>8, <1>9
  <2>. HIDE <1>2, <1>3, <1>4, <1>5
  <2>. QED
    BY <1>6, <2>1, ConcatElem
<1>11. Follows(Lexemes, x, r, line) /\ Follows(Lexemes, y, e, r)
  BY <1>4, <1>6, <1>7, <1>8, <1>9, Zenon DEF Follows
<1>12. Follows(Lexemes, c, tail, e)
  BY <1>1, <1>2 DEF Follows
<1>. QED
  BY <1>3, <1>5, <1>7, <1>8, <1>9, <1>10, <1>11, <1>12 DEF Apart

SplitsTo(line, a, b, c) == Split(line, SP) = <<a>> \o (<<b>> \o <<c>>)

\* Split gives the three words, if the last is not empty.
LEMMA WordsSplit ==
  ASSUME NEW line, Len(line) < SizeMax, NEW a, NEW b, NEW c, NEW tail, Words(line, a, b, c, tail), Len(c) # 0
  PROVE  SplitsTo(line, a, b, c)
<1>0. SP \in Lexemes /\ SizeMax \in Nat
  BY TextFacts
<1>1. /\ a \in Seq(Lexemes) /\ b \in Seq(Lexemes) /\ c \in Seq(Lexemes)
      /\ Ending(tail, SP) /\ Free(a, SP) /\ Free(b, SP) /\ Free(c, SP)
  BY DEF Words, Text
<1>2. PICK r, e : Apart(line, a, b, c, tail, r, e)
  BY WordsApart
<1>3. r \in Seq(Lexemes) /\ e \in Seq(Lexemes)
  BY <1>2 DEF Apart, Follows
<1>4. Len(r) < SizeMax /\ Len(e) < SizeMax
  BY <1>0, <1>2 DEF Apart
<1>5. /\ Follows(Lexemes, a \o <<SP>>, r, line) /\ Follows(Lexemes, b \o <<SP>>, e, r)
      /\ Follows(Lexemes, c, tail, e)
  BY <1>2 DEF Apart
<1>6. Split(line, SP) = <<a>> \o Split(r, SP)
  BY <1>0, <1>1, <1>3, <1>5, SplitFirst
<1>7. Split(r, SP) = <<b>> \o Split(e, SP)
  BY <1>0, <1>1, <1>3, <1>4, <1>5, SplitFirst
<1>8. Split(e, SP) = <<c>>
  BY <1>0, <1>1, <1>4, <1>5, OneToken
<1>. QED
  BY <1>6, <1>7, <1>8, Zenon DEF SplitsTo

\* The first of several words and what is behind it.
FirstWord(s, p, t) ==
  /\ p \in Seq(Lexemes) /\ t \in Seq(Lexemes) /\ Free(p, SP) /\ s = (p \o <<SP>>) \o t
  /\ Len(t) < SizeMax
  /\ Split(s, SP) = <<p>> \o Split(t, SP)
  /\ Len(Split(s, SP)) = 1 + Len(Split(t, SP)) /\ Len(Split(t, SP)) \in Nat

\* There is one if there is more than one token.
Several(s) == s \in Text /\ Len(s) < SizeMax /\ Len(Split(s, SP)) > 1

\* It exists, and Split gives it first.
LEMMA FirstWordRead ==
  ASSUME NEW s, Several(s)
  PROVE  \E p, t : FirstWord(s, p, t)
<1>0. /\ SP \in Lexemes /\ SizeMax \in Nat
      /\ s \in Seq(Lexemes) /\ Len(s) < SizeMax /\ Len(Split(s, SP)) > 1
  BY TextFacts DEF Several, Text
<1>1. CASE Free(s, SP)
  <2>1. Split(s, SP) = IF s = <<>> THEN <<>> ELSE <<s>>
    BY <1>0, <1>1, SplitFree
  <2>2. PICK a : a = <<>>
    OBVIOUS
  <2>3. PICK b : b = <<s>>
    OBVIOUS
  <2>4. ~ (Len(a) > 1) /\ ~ (Len(b) > 1)
    BY <2>2, <2>3
  <2>5. Split(s, SP) = a \/ Split(s, SP) = b
    BY <2>1, <2>2, <2>3
  <2>. HIDE <2>2, <2>3
  <2>. QED
    BY <1>0, <2>4, <2>5
<1>2. CASE \E p \in Seq(Lexemes), t \in Seq(Lexemes) : Free(p, SP) /\ Follows(Lexemes, p \o <<SP>>, t, s)
  <2>1. PICK p \in Seq(Lexemes), t \in Seq(Lexemes) : Free(p, SP) /\ Follows(Lexemes, p \o <<SP>>, t, s)
    BY <1>2
  <2>2. Split(s, SP) = <<p>> \o Split(t, SP)
    BY <1>0, <2>1, SplitFirst
  <2>3. s = (p \o <<SP>>) \o t
    BY <2>1 DEF Follows
  <2>4. Len(t) < SizeMax
    <3>1. Len(s) = Len(p) + 1 + Len(t) /\ Len(p) \in Nat /\ Len(t) \in Nat
      BY <1>0, <2>1, <2>3
    <3>. QED
      BY <1>0, <3>1
  <2>5. SplitGood(Lexemes, t, SP)
    BY <1>0, <2>1, <2>4, SplitGoodAll
  <2>6. PICK ts : ts = Split(t, SP)
    OBVIOUS
  <2>7. ts \in Seq(Seq(Lexemes))
    BY <2>5, <2>6 DEF SplitGood
  <2>8. Len(<<p>> \o ts) = 1 + Len(ts) /\ Len(ts) \in Nat
    <3>. HIDE <2>6, <2>3
    <3>. QED
      BY <2>1, <2>7
  <2>9. Len(Split(s, SP)) = 1 + Len(Split(t, SP)) /\ Len(Split(t, SP)) \in Nat
    BY <2>2, <2>6, <2>8
  <2>. QED
    BY <2>1, <2>2, <2>3, <2>4, <2>9 DEF FirstWord
<1>. QED
  BY <1>0, <1>1, <1>2, CutCases

\* A line of three tokens is three words.
LEMMA WordsRead ==
  ASSUME NEW line \in Text, Len(line) < SizeMax, Len(Split(line, SP)) = 3
  PROVE  \E a, b, c, tail : Words(line, a, b, c, tail) /\ SplitsTo(line, a, b, c)
<1>0. SP \in Lexemes /\ SizeMax \in Nat /\ Delimiter(SP)
  BY TextFacts
<1>2. Several(line)
  BY DEF Several
<1>3. PICK a, r : FirstWord(line, a, r)
  BY <1>2, FirstWordRead
<1>4. Several(r) /\ Len(Split(r, SP)) = 2
  <2>1. r \in Text /\ Len(r) < SizeMax
    BY <1>3 DEF FirstWord, Text
  <2>2. Len(Split(line, SP)) = 1 + Len(Split(r, SP)) /\ Len(Split(r, SP)) \in Nat
    BY <1>3 DEF FirstWord
  <2>3. Len(Split(r, SP)) = 2 /\ Len(Split(r, SP)) > 1
    <3>1. PICK n : n = Len(Split(r, SP))
      OBVIOUS
    <3>2. PICK m : m = Len(Split(line, SP))
      OBVIOUS
    <3>3. m = 1 + n /\ n \in Nat /\ m = 3
      BY <2>2, <3>1, <3>2
    <3>4. n = 2 /\ n > 1
      <4>. HIDE <3>1, <3>2
      <4>. QED
        BY <3>3
    <3>. QED
      BY <3>1, <3>4
  <2>. QED
    BY <2>1, <2>3 DEF Several
<1>5. PICK b, e : FirstWord(r, b, e)
  BY <1>4, FirstWordRead
<1>6. Len(Split(e, SP)) = 1 /\ e \in Seq(Lexemes) /\ Len(e) < SizeMax
  <2>1. e \in Seq(Lexemes) /\ Len(e) < SizeMax
    BY <1>5 DEF FirstWord
  <2>2. Len(Split(r, SP)) = 1 + Len(Split(e, SP)) /\ Len(Split(e, SP)) \in Nat
    BY <1>5 DEF FirstWord
  <2>3. Len(Split(e, SP)) = 1
    <3>1. PICK n : n = Len(Split(e, SP))
      OBVIOUS
    <3>2. PICK m : m = Len(Split(r, SP))
      OBVIOUS
    <3>3. m = 1 + n /\ n \in Nat /\ m = 2
      BY <1>4, <2>2, <3>1, <3>2
    <3>4. n = 1
      <4>. HIDE <3>1, <3>2
      <4>. QED
        BY <3>3
    <3>. QED
      BY <3>1, <3>4
  <2>. QED
    BY <2>1, <2>3
<1>7. PICK c, tail : /\ c \in Seq(Lexemes) /\ Free(c, SP) /\ Ending(tail, SP)
                     /\ Follows(Lexemes, c, tail, e) /\ Split(e, SP) = <<c>>
  BY <1>0, <1>6, OneTokenRead
<1>8. SplitsTo(line, a, b, c)
  BY <1>3, <1>5, <1>7, Zenon DEF FirstWord, SplitsTo
<1>9. Words(line, a, b, c, tail)
  <2>1. e = c \o tail /\ tail \in Text
    BY <1>7 DEF Follows, Text
  <2>2. line = (a \o <<SP>>) \o ((b \o <<SP>>) \o (c \o tail))
    BY <1>3, <1>5, <2>1, Zenon DEF FirstWord
  <2>. QED
    <3>1. a \in Text /\ b \in Text /\ c \in Text /\ Free(a, SP) /\ Free(b, SP)
      BY <1>3, <1>5, <1>7 DEF FirstWord, Text
    <3>. QED
      BY <1>7, <2>1, <2>2, <3>1, Zenon DEF Words
<1>. QED
  BY <1>8, <1>9

-----------------------------------------------------------------------------
(* The first line.                                                         *)

\* The version, of five lexemes that are no blanks.
Version == kHTTPVersion

\* None of the version's five lexemes is a blank.
LEMMA VersionIs ==
  (\E W : Version \in Seq(W)) /\ Len(Version) = 5 /\ Free(Version, SP)
<1>1. PICK v1 : v1 = "HTTP"
  OBVIOUS
<1>2. PICK v2 : v2 = "/"
  OBVIOUS
<1>3. PICK v3 : v3 = "1"
  OBVIOUS
<1>4. PICK v4 : v4 = "."
  OBVIOUS
<1>5. v1 # SP /\ v2 # SP /\ v3 # SP /\ v4 # SP
  BY <1>1, <1>2, <1>3, <1>4, Zenon DEF SP
<1>7. Version = <<v1, v2, v3, v4, v3>>
  BY <1>1, <1>2, <1>3, <1>4 DEF Version, kHTTPVersion
<1>. HIDE <1>1, <1>2, <1>3, <1>4
<1>8. Version \in Seq({v1, v2, v3, v4}) /\ Len(Version) = 5
  BY <1>7
<1>9. Version[1] = v1 /\ Version[2] = v2 /\ Version[3] = v3 /\ Version[4] = v4 /\ Version[5] = v3
  BY <1>7
<1>10. Free(Version, SP)
  <2>. SUFFICES ASSUME NEW i \in 1..Len(Version) PROVE Version[i] # SP
    BY DEF Free
  <2>1. i = 1 \/ i = 2 \/ i = 3 \/ i = 4 \/ i = 5
    BY <1>8
  <2>. QED
    BY <1>5, <1>9, <2>1
<1>. QED
  BY <1>8, <1>10

\* A sequence over a set is one over any larger set.
LEMMA SeqWider ==
  ASSUME NEW S, NEW T, NEW s \in Seq(S), S \subseteq T
  PROVE  s \in Seq(T)
<1>1. Len(s) \in Nat /\ s \in [1..Len(s) -> T]
  OBVIOUS
<1>. QED
  BY <1>1

\* A method's name is a word, and it is not UNSUPPORTED.
LEMMA MethodIs ==
  ASSUME NEW name \in Methods
  PROVE  name # SP /\ name # "UNSUPPORTED"
<1>1. name = "GET" \/ name = "HEAD"
  BY DEF Methods
<1>2. name # SP
  BY <1>1, Zenon DEF SP
<1>3. name # "UNSUPPORTED"
  BY <1>1
<1>. QED
  BY <1>2, <1>3, Zenon

\* The method and the version are what the table has under the words.
LEMMA NamedWords ==
  ASSUME NEW a \in Text, NEW c \in Text, Free(a, SP), Free(c, SP)
  PROVE  /\ ToMethod(a) # "UNSUPPORTED" <=> \E name \in Methods : ToUpper(a) = <<name>>
         /\ ToVersion(c) # "UNSUPPORTED" <=> ToUpper(c) = Version
<1>1. Format(a) = ToUpper(a) /\ Format(c) = ToUpper(c)
  BY FormatFree
<1>2. ToVersion(c) # "UNSUPPORTED" <=> ToUpper(c) = Version
  BY <1>1 DEF ToVersion, Version
<1>3. ASSUME NEW name \in Methods, ToUpper(a) = <<name>>
      PROVE  ToMethod(a) # "UNSUPPORTED"
  <2>1. ToMethod(a) = Format(a)[1]
    BY <1>1, <1>3 DEF ToMethod, Named
  <2>2. ToMethod(a) = name
    BY <1>1, <1>3, <2>1
  <2>. QED
    BY <2>2, MethodIs
<1>4. ASSUME ~ \E name \in Methods : ToUpper(a) = <<name>>
      PROVE  ToMethod(a) = "UNSUPPORTED"
  BY <1>1, <1>4 DEF ToMethod, Named
<1>. QED
  BY <1>2, <1>3, <1>4

\* A good line, its parts grouped as the words are.
LineShape(line, name, u, tail) == ToUpper(line) = (<<name>> \o <<SP>>) \o ((u \o <<SP>>) \o (Version \o tail))

LineFlat(line, name, u, tail) == ToUpper(line) = <<name, SP>> \o u \o <<SP>> \o Version \o tail

\* The two groupings of a line's parts are the same text.
LEMMA LineRegroup ==
  ASSUME NEW line, NEW name \in Methods, NEW b \in Text, NEW tail, Ending(tail, SP)
  PROVE  LineFlat(line, name, ToUpper(b), tail) <=> LineShape(line, name, ToUpper(b), tail)
<1>1. PICK u : u = ToUpper(b)
  OBVIOUS
<1>2. PICK W : Version \in Seq(W)
  BY VersionIs
<1>3. PICK w : w = Version
  OBVIOUS
<1>4. PICK A : A = (Lexemes \cup W) \cup {name}
  OBVIOUS
<1>5. u \in Seq(A) /\ tail \in Seq(A) /\ w \in Seq(A) /\ SP \in A /\ name \in A
  <2>1. u \in Seq(Lexemes) /\ tail \in Seq(Lexemes) /\ w \in Seq(W) /\ SP \in Lexemes
    BY <1>1, <1>2, <1>3, UpperIs, EndingIs, TextFacts DEF Text
  <2>2. Lexemes \subseteq A /\ W \subseteq A /\ SP \in A /\ name \in A
    BY <1>4, <2>1
  <2>. HIDE <1>1, <1>3, <1>4
  <2>. QED
    BY <2>1, <2>2, SeqWider
<1>6. PICK p : p = <<name, SP>>
  OBVIOUS
<1>7. PICK s : s = <<SP>>
  OBVIOUS
<1>8. p = <<name>> \o <<SP>>
  BY <1>6, PairIs
<1>9. p \in Seq(A) /\ s \in Seq(A)
  BY <1>5, <1>6, <1>7
<1>10. (((p \o u) \o s) \o w) \o tail = p \o ((u \o s) \o (w \o tail))
  <2>. HIDE <1>1, <1>3, <1>4, <1>6, <1>7
  <2>1. p \o u \in Seq(A) /\ u \o s \in Seq(A) /\ w \o tail \in Seq(A)
    BY <1>5, <1>9
  <2>2. (p \o u) \o s \in Seq(A)
    BY <1>9, <2>1
  <2>3. AssocAt((p \o u) \o s, w, tail)
    BY <1>5, <2>2, AssocIs
  <2>4. AssocAt(p, u, s)
    BY <1>5, <1>9, AssocIs
  <2>5. AssocAt(p, u \o s, w \o tail)
    BY <1>9, <2>1, AssocIs
  <2>. QED
    BY <2>3, <2>4, <2>5, Zenon DEF AssocAt
<1>. QED
  BY <1>1, <1>3, <1>6, <1>7, <1>8, <1>10, Zenon DEF LineFlat, LineShape

\* The line has the method name, a blank and a url up to position n.
UrlTo(line, name, tail, n) ==
  /\ Ending(tail, SP) /\ Free(SubSeq(line, 3, n), SP)
  /\ LineShape(line, name, ToUpper(SubSeq(line, 3, n)), tail)

\* GoodLine, with its parts grouped as the words are.
LEMMA GoodLineShape ==
  ASSUME NEW line \in Text
  PROVE  GoodLine(line) <=>
           \E name \in Methods, n \in 2..Len(line) : \E tail : UrlTo(line, name, tail, n)
<1>1. \A s : ~ Contains(s, SP) <=> Free(s, SP)
  BY DEF Contains, Free
<1>2. \A tail : tail \in {<<>>, <<SP>>} <=> Ending(tail, SP)
  BY Zenon DEF Ending
<1>3. GoodLine(line) <=>
        \E name \in Methods, tail \in {<<>>, <<SP>>}, n \in 2..Len(line) :
           /\ ~ Contains(SubSeq(line, 3, n), SP)
           /\ LineFlat(line, name, ToUpper(SubSeq(line, 3, n)), tail)
  BY Zenon DEF GoodLine, LineFlat, SP, Version
<1>4. \A n \in 2..Len(line) : SubSeq(line, 3, n) \in Text
  BY DEF Text
<1>6. ASSUME GoodLine(line)
      PROVE  \E name \in Methods, n \in 2..Len(line) : \E tail : UrlTo(line, name, tail, n)
  <2>1. PICK name \in Methods, tail \in {<<>>, <<SP>>}, n \in 2..Len(line) :
           /\ ~ Contains(SubSeq(line, 3, n), SP)
           /\ LineFlat(line, name, ToUpper(SubSeq(line, 3, n)), tail)
    BY <1>3, <1>6, Zenon
  <2>2. Ending(tail, SP) /\ Free(SubSeq(line, 3, n), SP)
    BY <1>1, <1>2, <2>1, Zenon
  <2>3. LineShape(line, name, ToUpper(SubSeq(line, 3, n)), tail)
    <3>1. SubSeq(line, 3, n) \in Text
      BY <1>4
    <3>2. LineFlat(line, name, ToUpper(SubSeq(line, 3, n)), tail)
      BY <2>1, Zenon
    <3>3. \A b \in Text : LineFlat(line, name, ToUpper(b), tail) <=> LineShape(line, name, ToUpper(b), tail)
      BY <2>2, LineRegroup, Zenon
    <3>. QED
      BY <3>1, <3>2, <3>3, Zenon
  <2>4. UrlTo(line, name, tail, n)
    BY <2>2, <2>3, Zenon DEF UrlTo
  <2>. QED
    BY <2>4
<1>7. ASSUME NEW name \in Methods, NEW n \in 2..Len(line), NEW tail, UrlTo(line, name, tail, n)
      PROVE  GoodLine(line)
  <2>0. /\ Ending(tail, SP) /\ Free(SubSeq(line, 3, n), SP)
        /\ LineShape(line, name, ToUpper(SubSeq(line, 3, n)), tail)
    BY <1>7, Zenon DEF UrlTo
  <2>1. tail \in {<<>>, <<SP>>} /\ ~ Contains(SubSeq(line, 3, n), SP)
    BY <1>1, <1>2, <2>0, Zenon
  <2>2. LineFlat(line, name, ToUpper(SubSeq(line, 3, n)), tail)
    <3>1. SubSeq(line, 3, n) \in Text
      BY <1>4
    <3>2. \A b \in Text : LineFlat(line, name, ToUpper(b), tail) <=> LineShape(line, name, ToUpper(b), tail)
      BY <2>0, LineRegroup, Zenon
    <3>. QED
      BY <2>0, <3>1, <3>2, Zenon
  <2>. QED
    BY <1>3, <2>1, <2>2, Zenon
<1>. QED
  BY <1>6, <1>7, Zenon

\* A line that the words' texts put together is one of three words.
LineWords(line, name, tail, a, p, c) ==
  /\ Words(line, a, p, c, tail) /\ ToUpper(a) = <<name>> /\ ToUpper(c) = Version

\* The words of a good line: the method, a url without a blank, the version.
LEMMA ShapeRead ==
  ASSUME NEW line \in Text, NEW name \in Methods, NEW b \in Text, Free(b, SP), NEW tail, Ending(tail, SP),
         LineShape(line, name, ToUpper(b), tail)
  PROVE  \E a, p, c : LineWords(line, name, tail, a, p, c)
<1>1. PICK u : u = ToUpper(b)
  OBVIOUS
<1>2. PICK W : Version \in Seq(W)
  BY VersionIs
<1>3. PICK w : w = Version
  OBVIOUS
<1>4. PICK A : A = (Lexemes \cup W) \cup {name}
  OBVIOUS
<1>5. PICK s : s = <<SP>>
  OBVIOUS
<1>6. PICK o : o = <<name>>
  OBVIOUS
<1>7. u \in Seq(A) /\ tail \in Seq(A) /\ w \in Seq(A) /\ s \in Seq(A) /\ o \in Seq(A)
  <2>1. u \in Seq(Lexemes) /\ tail \in Seq(Lexemes) /\ w \in Seq(W) /\ SP \in Lexemes
    BY <1>1, <1>2, <1>3, UpperIs, EndingIs, TextFacts DEF Text
  <2>2. Lexemes \subseteq A /\ W \subseteq A /\ SP \in A /\ name \in A
    BY <1>4, <2>1
  <2>3. s \in Seq(A) /\ o \in Seq(A)
    BY <1>5, <1>6, <2>2
  <2>. HIDE <1>1, <1>3, <1>4, <1>5, <1>6
  <2>. QED
    BY <2>1, <2>2, <2>3, SeqWider
<1>8. o \o s \in Seq(A) /\ u \o s \in Seq(A) /\ w \o tail \in Seq(A)
  <2>. HIDE <1>1, <1>3, <1>4, <1>5, <1>6
  <2>. QED
    BY <1>7
<1>9. (u \o s) \o (w \o tail) \in Seq(A)
  <2>. HIDE <1>1, <1>3, <1>4, <1>5, <1>6
  <2>. QED
    BY <1>8
<1>10. Reads(line, o \o s, (u \o s) \o (w \o tail))
  BY <1>1, <1>3, <1>5, <1>6, Zenon DEF Reads, LineShape
<1>. HIDE <1>1, <1>3, <1>4, <1>5, <1>6
<1>11. PICK x, y : Parts(line, o \o s, (u \o s) \o (w \o tail), x, y)
  BY <1>8, <1>9, <1>10, UpperParts
<1>12. Reads(x, o, s) /\ Reads(y, u \o s, w \o tail) /\ x \in Text /\ y \in Text /\ line = x \o y
  BY <1>11, Zenon DEF Parts, Reads
<1>13. PICK a, s1 : Parts(x, o, s, a, s1)
  BY <1>7, <1>12, UpperParts
<1>14. PICK y1, y2 : Parts(y, u \o s, w \o tail, y1, y2)
  BY <1>8, <1>12, UpperParts
<1>15. Reads(y1, u, s) /\ Reads(y2, w, tail) /\ y1 \in Text /\ y2 \in Text /\ y = y1 \o y2
  BY <1>14, Zenon DEF Parts, Reads
<1>16. PICK p, s2 : Parts(y1, u, s, p, s2)
  BY <1>7, <1>15, UpperParts
<1>17. PICK c, t : Parts(y2, w, tail, c, t)
  BY <1>7, <1>15, UpperParts
<1>18. /\ a \in Text /\ p \in Text /\ c \in Text /\ t \in Text /\ s1 \in Text /\ s2 \in Text
       /\ x = a \o s1 /\ y1 = p \o s2 /\ y2 = c \o t
       /\ ToUpper(a) = o /\ ToUpper(s1) = s /\ ToUpper(p) = u /\ ToUpper(s2) = s
       /\ ToUpper(c) = w /\ ToUpper(t) = tail
  BY <1>13, <1>16, <1>17, Zenon DEF Parts
<1>19. s1 = <<SP>> /\ s2 = <<SP>> /\ t = tail
  <2>1. ToUpper(s1) = <<SP>> /\ ToUpper(s2) = <<SP>>
    BY <1>5, <1>18
  <2>2. s1 = <<SP>> /\ s2 = <<SP>>
    BY <1>18, <2>1, UpperIsDelimiter, TextFacts
  <2>3. t = tail
    BY <1>18, EndingIs, TextFacts
  <2>. QED
    BY <2>2, <2>3
<1>20. line = (a \o <<SP>>) \o ((p \o <<SP>>) \o (c \o tail))
  BY <1>12, <1>15, <1>18, <1>19, Zenon
<1>21. Free(a, SP) /\ Free(p, SP) /\ Free(c, SP)
  <2>1. Free(o, SP)
    <3>1. name # SP
      BY MethodIs
    <3>. QED
      BY <1>6, <3>1 DEF Free
  <2>2. Free(a, SP)
    BY <1>18, <2>1, UpperFree, TextFacts
  <2>3. Free(p, SP)
    <3>1. Free(u, SP)
      BY <1>1, UpperFree, TextFacts
    <3>. QED
      BY <1>18, <3>1, UpperFree, TextFacts
  <2>4. Free(c, SP)
    <3>1. Free(w, SP)
      BY <1>3, VersionIs
    <3>. QED
      BY <1>18, <3>1, UpperFree, TextFacts
  <2>. QED
    BY <2>2, <2>3, <2>4
<1>22. Words(line, a, p, c, tail)
  BY <1>18, <1>19, <1>20, <1>21, Zenon DEF Words
<1>23. ToUpper(a) = <<name>> /\ ToUpper(c) = Version
  BY <1>3, <1>6, <1>18, Zenon
<1>. QED
  BY <1>22, <1>23 DEF LineWords

\* What ParseRequestLine tests.
TokensGood(tokens) ==
  Len(tokens) = 3 /\ ToMethod(tokens[1]) # "UNSUPPORTED" /\ ToVersion(tokens[3]) # "UNSUPPORTED"

\* The three tokens, by their positions.
LEMMA ThreeIs ==
  ASSUME NEW a, NEW b, NEW c
  PROVE  \A ts : ts = <<a>> \o (<<b>> \o <<c>>) => Len(ts) = 3 /\ ts[1] = a /\ ts[2] = b /\ ts[3] = c
<1>1. PICK S : S = {a, b, c}
  OBVIOUS
<1>2. <<a>> \in Seq(S) /\ <<b>> \in Seq(S) /\ <<c>> \in Seq(S)
  BY <1>1
<1>3. PICK p : p = <<a>>
  OBVIOUS
<1>4. PICK q : q = <<b>>
  OBVIOUS
<1>5. PICK r : r = <<c>>
  OBVIOUS
<1>6. /\ Len(p) = 1 /\ p[1] = a /\ Len(q) = 1 /\ q[1] = b /\ Len(r) = 1 /\ r[1] = c
      /\ p \in Seq(S) /\ q \in Seq(S) /\ r \in Seq(S)
  BY <1>2, <1>3, <1>4, <1>5
<1>7. ASSUME NEW ts, ts = p \o (q \o r)
      PROVE  Len(ts) = 3 /\ ts[1] = a /\ ts[2] = b /\ ts[3] = c
  <2>. HIDE <1>1, <1>3, <1>4, <1>5
  <2>1. PICK y : y = q \o r
    OBVIOUS
  <2>a. /\ y \in Seq(S) /\ Len(y) = Len(q) + Len(r)
        /\ \A i \in 1..Len(y) : y[i] = IF i <= Len(q) THEN q[i] ELSE r[i - Len(q)]
    <3>1. q \in Seq(S) /\ r \in Seq(S)
      BY <1>6
    <3>. HIDE <1>7
    <3>. QED
      BY <2>1, <3>1, ConcatElem
  <2>2. y \in Seq(S) /\ Len(y) = 2 /\ y[1] = b /\ y[2] = c
    BY <1>6, <2>a
  <2>3. ts = p \o y
    BY <1>7, <2>1
  <2>. HIDE <2>1
  <2>b. /\ Len(ts) = Len(p) + Len(y)
        /\ \A i \in 1..Len(ts) : ts[i] = IF i <= Len(p) THEN p[i] ELSE y[i - Len(p)]
    <3>1. p \in Seq(S) /\ y \in Seq(S)
      BY <1>6, <2>2
    <3>. HIDE <1>7
    <3>. QED
      BY <2>3, <3>1, ConcatElem
  <2>. HIDE <1>7
  <2>. QED
    BY <1>6, <2>2, <2>b
<1>. QED
  BY <1>3, <1>4, <1>5, <1>7, Zenon

\* A good line has three good tokens.
LEMMA GoodTokens ==
  ASSUME NEW line \in Text, Len(line) < SizeMax, GoodLine(line)
  PROVE  TokensGood(Split(line, SP))
<1>1. PICK name \in Methods, n \in 2..Len(line) : \E tail : UrlTo(line, name, tail, n)
  BY GoodLineShape
<1>2. PICK tail : UrlTo(line, name, tail, n)
  BY <1>1
<1>3. PICK b : b = SubSeq(line, 3, n)
  OBVIOUS
<1>4. b \in Text /\ Free(b, SP) /\ Ending(tail, SP) /\ LineShape(line, name, ToUpper(b), tail)
  <2>1. b \in Text
    BY <1>3 DEF Text
  <2>. QED
    BY <1>2, <1>3, <2>1, Zenon DEF UrlTo
<1>. HIDE <1>3
<1>5. PICK a, p, c : LineWords(line, name, tail, a, p, c)
  BY <1>4, ShapeRead
<1>6. Words(line, a, p, c, tail) /\ ToUpper(a) = <<name>> /\ ToUpper(c) = Version
  BY <1>5 DEF LineWords
<1>7. a \in Text /\ c \in Text /\ Free(a, SP) /\ Free(c, SP)
  BY <1>6 DEF Words
<1>8. Len(c) # 0
  <2>1. Len(c) = 5
    BY <1>6, <1>7, UpperIs, VersionIs
  <2>. QED
    BY <2>1
<1>9. Split(line, SP) = <<a>> \o (<<p>> \o <<c>>)
  <2>1. SplitsTo(line, a, p, c)
    BY <1>6, <1>8, WordsSplit
  <2>. QED
    BY <2>1, Zenon DEF SplitsTo
<1>10. PICK ts : ts = Split(line, SP)
  OBVIOUS
<1>11. Len(ts) = 3 /\ ts[1] = a /\ ts[3] = c
  BY <1>9, <1>10, ThreeIs
<1>12. ToMethod(a) # "UNSUPPORTED" /\ ToVersion(c) # "UNSUPPORTED"
  BY <1>6, <1>7, NamedWords
<1>. QED
  BY <1>10, <1>11, <1>12 DEF TokensGood

\* Three words, put together, in capitals.
UpperWords(line, a, b, c, tail) ==
  ToUpper(line) = (ToUpper(a) \o <<SP>>) \o ((ToUpper(b) \o <<SP>>) \o (ToUpper(c) \o tail))

\* ToUpper of a line of three words.
LEMMA WordsUpper ==
  ASSUME NEW line, NEW a, NEW b, NEW c, NEW tail, Words(line, a, b, c, tail)
  PROVE  UpperWords(line, a, b, c, tail)
<1>1. /\ a \in Text /\ b \in Text /\ c \in Text /\ tail \in Text /\ Ending(tail, SP)
      /\ line = (a \o <<SP>>) \o ((b \o <<SP>>) \o (c \o tail))
  BY DEF Words
<1>2. <<SP>> \in Text /\ ToUpper(<<SP>>) = <<SP>> /\ ToUpper(tail) = tail
  BY <1>1, EndingIs, TextFacts
<1>3. UpperPlus(c, tail) /\ UpperPlus(a, <<SP>>) /\ UpperPlus(b, <<SP>>)
  <2>1. a \in Text /\ b \in Text /\ c \in Text /\ tail \in Text /\ <<SP>> \in Text
    BY <1>1, <1>2
  <2>. QED
    BY <2>1, UpperJoin
<1>4. a \o <<SP>> \in Text /\ b \o <<SP>> \in Text /\ c \o tail \in Text
  BY <1>3 DEF UpperPlus
<1>5. UpperPlus(b \o <<SP>>, c \o tail)
  BY <1>4, UpperJoin
<1>6. (b \o <<SP>>) \o (c \o tail) \in Text
  BY <1>5 DEF UpperPlus
<1>7. UpperPlus(a \o <<SP>>, (b \o <<SP>>) \o (c \o tail))
  BY <1>4, <1>6, UpperJoin
<1>. QED
  BY <1>1, <1>2, <1>3, <1>5, <1>7, Zenon DEF UpperPlus, UpperWords

\* A text and one more lexeme.
Longer(S, a, d) ==
  a \o <<d>> \in Seq(S) /\ Len(a \o <<d>>) = Len(a) + 1 /\ \A i \in 1..Len(a) : (a \o <<d>>)[i] = a[i]

\* Its length and its lexemes.
LEMMA LongerIs ==
  ASSUME NEW S, NEW a \in Seq(S), NEW d \in S
  PROVE  Longer(S, a, d)
BY DEF Longer

\* The second word is where GoodLine looks for the url.
LEMMA SecondWord ==
  ASSUME NEW line \in Text, NEW a, NEW b, NEW c, NEW tail, Words(line, a, b, c, tail), Len(a) = 1
  PROVE  2 + Len(b) \in 2..Len(line) /\ SubSeq(line, 3, 2 + Len(b)) = b
<1>1. a \in Seq(Lexemes) /\ b \in Seq(Lexemes) /\ line \in Seq(Lexemes) /\ SP \in Lexemes
  BY TextFacts DEF Words, Text
<1>2. PICK r, e : Apart(line, a, b, c, tail, r, e)
  BY WordsApart
<1>3. /\ Len(line) = Len(a) + 1 + Len(r) /\ Len(r) = Len(b) + 1 + Len(e) /\ Len(e) = Len(c) + Len(tail)
      /\ Len(a) \in Nat /\ Len(b) \in Nat /\ Len(c) \in Nat /\ Len(tail) \in Nat
  BY <1>2 DEF Apart
<1>4. PICK x : x = a \o <<SP>>
  OBVIOUS
<1>5. PICK y : y = b \o <<SP>>
  OBVIOUS
<1>6. x \in Seq(Lexemes) /\ y \in Seq(Lexemes) /\ Len(x) = Len(a) + 1 /\ Len(y) = Len(b) + 1
  <2>1. Longer(Lexemes, a, SP) /\ Longer(Lexemes, b, SP)
    BY <1>1, LongerIs
  <2>. QED
    BY <1>4, <1>5, <2>1 DEF Longer
<1>7. \A i \in 1..Len(b) : y[i] = b[i]
  <2>1. Longer(Lexemes, b, SP)
    BY <1>1, LongerIs
  <2>. QED
    BY <1>5, <2>1 DEF Longer
<1>8. line = x \o r /\ r = y \o e /\ r \in Seq(Lexemes) /\ e \in Seq(Lexemes)
  BY <1>2, <1>4, <1>5 DEF Apart, Follows
<1>. HIDE <1>2, <1>4, <1>5
<1>9. \A i \in 1..Len(line) : line[i] = IF i <= Len(x) THEN x[i] ELSE r[i - Len(x)]
  <2>1. x \in Seq(Lexemes) /\ r \in Seq(Lexemes) /\ line = x \o r
    BY <1>6, <1>8
  <2>. QED
    BY <2>1, ConcatElem
<1>10. \A i \in 1..Len(r) : r[i] = IF i <= Len(y) THEN y[i] ELSE e[i - Len(y)]
  <2>1. y \in Seq(Lexemes) /\ e \in Seq(Lexemes) /\ r = y \o e
    BY <1>6, <1>8
  <2>. QED
    BY <2>1, ConcatElem
<1>11. PICK n : n = 2 + Len(b)
  OBVIOUS
<1>12. n \in 2..Len(line) /\ n \in Nat /\ n - 2 = Len(b)
  BY <1>3, <1>11
<1>13. \A i \in 1..Len(b) : line[2 + i] = b[i]
  <2>. SUFFICES ASSUME NEW i \in 1..Len(b) PROVE line[2 + i] = b[i]
    OBVIOUS
  <2>1. 2 + i \in 1..Len(line) /\ ~ (2 + i <= Len(x)) /\ (2 + i) - Len(x) = i /\ i \in 1..Len(r) /\ i <= Len(y)
    BY <1>3, <1>6
  <2>2. line[2 + i] = r[i]
    BY <1>9, <2>1
  <2>3. r[i] = y[i] /\ y[i] = b[i]
    BY <1>7, <1>10, <2>1
  <2>. QED
    BY <2>2, <2>3
<1>14. PICK z : z = SubSeq(line, 3, n)
  OBVIOUS
<1>15. z \in Seq(Lexemes) /\ Len(z) = Len(b) /\ \A i \in 1..Len(z) : z[i] = line[2 + i]
  <2>. HIDE <1>8, <1>11
  <2>. QED
    BY <1>1, <1>3, <1>12, <1>14
<1>16. z = b
  <2>1. \A i \in 1..Len(z) : z[i] = b[i]
    BY <1>13, <1>15
  <2>. HIDE <1>8, <1>14, <1>11
  <2>. QED
    BY <1>1, <1>15, <2>1, SameSeq
<1>. QED
  BY <1>11, <1>12, <1>14, <1>16

\* Three good tokens come from a good line.
LEMMA TokensGoodLine ==
  ASSUME NEW line \in Text, Len(line) < SizeMax, TokensGood(Split(line, SP))
  PROVE  GoodLine(line)
<1>1. Len(Split(line, SP)) = 3
  BY DEF TokensGood
<1>2. PICK a, b, c, tail : Words(line, a, b, c, tail) /\ SplitsTo(line, a, b, c)
  BY <1>1, WordsRead
<1>3. PICK ts : ts = Split(line, SP)
  OBVIOUS
<1>4. ts[1] = a /\ ts[3] = c
  <2>1. ts = <<a>> \o (<<b>> \o <<c>>)
    BY <1>2, <1>3 DEF SplitsTo
  <2>. QED
    BY <2>1, ThreeIs
<1>5. ToMethod(a) # "UNSUPPORTED" /\ ToVersion(c) # "UNSUPPORTED"
  BY <1>3, <1>4 DEF TokensGood
<1>6. a \in Text /\ b \in Text /\ c \in Text /\ Free(a, SP) /\ Free(b, SP) /\ Free(c, SP) /\ Ending(tail, SP)
  BY <1>2 DEF Words
<1>7. PICK name \in Methods : ToUpper(a) = <<name>>
  BY <1>5, <1>6, NamedWords
<1>8. ToUpper(c) = Version
  BY <1>5, <1>6, NamedWords
<1>9. LineShape(line, name, ToUpper(b), tail)
  <2>1. UpperWords(line, a, b, c, tail)
    BY <1>2, WordsUpper
  <2>. QED
    BY <1>7, <1>8, <2>1, Zenon DEF LineShape, UpperWords
<1>10. Len(a) = 1
  BY <1>6, <1>7, UpperIs
<1>11. 2 + Len(b) \in 2..Len(line) /\ SubSeq(line, 3, 2 + Len(b)) = b
  BY <1>2, <1>10, SecondWord
<1>12. UrlTo(line, name, tail, 2 + Len(b))
  BY <1>6, <1>9, <1>11, Zenon DEF UrlTo
<1>. QED
  BY <1>11, <1>12, GoodLineShape

\* ParseRequestLine goes on exactly for the good lines: for every line.
LEMMA LineRead ==
  ASSUME NEW line \in Text, Len(line) < SizeMax
  PROVE  GoodLine(line) <=> TokensGood(Split(line, SP))
BY GoodTokens, TokensGoodLine

\* The url is part of the line.
LEMMA LineUrl ==
  ASSUME NEW line \in Text, Len(line) < SizeMax, Len(Split(line, SP)) = 3
  PROVE  Split(line, SP)[2] \in Text /\ Len(Split(line, SP)[2]) <= Len(line)
<1>2. PICK a, b, c, tail : Words(line, a, b, c, tail) /\ SplitsTo(line, a, b, c)
  BY WordsRead
<1>3. PICK ts : ts = Split(line, SP)
  OBVIOUS
<1>4. ts[2] = b
  <2>1. ts = <<a>> \o (<<b>> \o <<c>>)
    BY <1>2, <1>3 DEF SplitsTo
  <2>. QED
    BY <2>1, ThreeIs
<1>5. PICK r, e : Apart(line, a, b, c, tail, r, e)
  BY <1>2, WordsApart
<1>6. /\ Len(line) = Len(a) + 1 + Len(r) /\ Len(r) = Len(b) + 1 + Len(e) /\ Len(e) = Len(c) + Len(tail)
      /\ Len(a) \in Nat /\ Len(b) \in Nat /\ Len(c) \in Nat /\ Len(tail) \in Nat
  BY <1>5 DEF Apart
<1>7. b \in Text /\ Len(b) <= Len(line)
  <2>1. b \in Text
    BY <1>2 DEF Words
  <2>. QED
    BY <1>6, <2>1
<1>. QED
  BY <1>3, <1>4, <1>7

-----------------------------------------------------------------------------
(* The extension.                                                          *)

\* The last dot, if there is one.
LastAt(s, q) == q \in 0..(Len(s) - 1) /\ s[q + 1] = "." /\ \A i \in (q + 1)..(Len(s) - 1) : s[i + 1] # "."

\* A set of numbers with a bound has a greatest one.
LEMMA GreatestNat ==
  ASSUME NEW b \in Nat, NEW T, T \subseteq 0..b, T # {}
  PROVE  \E m \in T : \A n \in T : m >= n
<1>1. PICK U : U = {m \in Nat : b - m \in T}
  OBVIOUS
<1>2. ASSUME NEW n \in T PROVE b - n \in U
  <2>1. n \in 0..b /\ b - n \in Nat /\ b - (b - n) = n
    OBVIOUS
  <2>. QED
    BY <1>1, <2>1
<1>3. U \in SUBSET Nat /\ U # {}
  BY <1>1, <1>2
<1>4. PICK u \in U : \A n \in U : u <= n
  BY <1>3, LeastNat
<1>5. b - u \in T /\ u \in Nat
  BY <1>1
<1>6. ASSUME NEW n \in T PROVE b - u >= n
  <2>1. u <= b - n /\ n \in Nat
    BY <1>2, <1>4
  <2>. QED
    BY <1>5, <2>1
<1>. QED
  BY <1>5, <1>6

\* There is at most one last dot.
LEMMA LastAtUnique ==
  ASSUME NEW s, Len(s) \in Nat, NEW p, NEW q, LastAt(s, p), LastAt(s, q)
  PROVE  p = q
<1>1. /\ p \in 0..(Len(s) - 1) /\ s[p + 1] = "." /\ \A i \in (p + 1)..(Len(s) - 1) : s[i + 1] # "."
      /\ q \in 0..(Len(s) - 1) /\ s[q + 1] = "." /\ \A i \in (q + 1)..(Len(s) - 1) : s[i + 1] # "."
  BY DEF LastAt
<1>2. ~ (p < q)
  BY <1>1
<1>3. ~ (q < p)
  BY <1>1
<1>. QED
  BY <1>1, <1>2, <1>3

\* LastDot finds it.
LEMMA LastDotIs ==
  ASSUME NEW s \in Text
  PROVE  \/ LastDot(s) = npos /\ Free(s, ".")
         \/ LastAt(s, LastDot(s))
<1>1. PICK dots : dots = {i \in 0..(Len(s) - 1) : s[i + 1] = "."}
  OBVIOUS
<1>2. LastDot(s) = IF dots = {} THEN npos ELSE Max(dots)
  BY <1>1 DEF LastDot
<1>3. Len(s) \in Nat
  BY DEF Text
<1>4. CASE dots = {}
  <2>1. Free(s, ".")
    <3>. SUFFICES ASSUME NEW i \in 1..Len(s), s[i] = "." PROVE FALSE
      BY DEF Free
    <3>1. i - 1 \in 0..(Len(s) - 1) /\ (i - 1) + 1 = i
      BY <1>3
    <3>. QED
      BY <1>1, <1>4, <3>1
  <2>. QED
    BY <1>2, <1>4, <2>1
<1>5. CASE dots # {}
  <2>1. dots \subseteq 0..Len(s)
    BY <1>1, <1>3
  <2>2. \E m \in dots : \A n \in dots : m >= n
    BY <1>3, <1>5, <2>1, GreatestNat
  <2>3. PICK q : q = Max(dots)
    OBVIOUS
  <2>4. q \in dots /\ \A n \in dots : q >= n
    BY <2>2, <2>3 DEF Max
  <2>5. LastAt(s, q)
    <3>1. q \in 0..(Len(s) - 1) /\ s[q + 1] = "."
      BY <1>1, <2>4
    <3>2. ASSUME NEW i \in (q + 1)..(Len(s) - 1), s[i + 1] = "." PROVE FALSE
      <4>1. i \in 0..(Len(s) - 1)
        BY <1>3, <3>1
      <4>2. i \in dots
        BY <1>1, <3>2, <4>1
      <4>. QED
        BY <1>3, <2>4, <3>1, <4>2
    <3>. QED
      BY <3>1, <3>2 DEF LastAt
  <2>. QED
    BY <1>2, <1>5, <2>3, <2>5
<1>. QED
  BY <1>4, <1>5

\* What is behind the last dot.
LEMMA Behind ==
  ASSUME NEW s \in Text, Len(s) < SizeMax, NEW q, LastAt(s, q)
  PROVE  /\ substr(s, q + 1, npos) = SubSeq(s, q + 2, Len(s)) /\ q # npos
         /\ SubSeq(s, q + 2, Len(s)) \in Text /\ Len(SubSeq(s, q + 2, Len(s))) <= Len(s)
<1>1. q \in 0..(Len(s) - 1) /\ s \in Seq(Lexemes) /\ Len(s) \in Nat /\ SizeMax \in Nat
  BY TextFacts DEF LastAt, Text
<1>2. Min({q + 1 + SizeMax, Len(s)}) = Len(s)
  <2>1. q + 1 + SizeMax \in Nat /\ ~ (q + 1 + SizeMax <= Len(s))
    BY <1>1
  <2>. QED
    BY <1>1, <2>1, MinOfTwo
<1>3. substr(s, q + 1, npos) = SubSeq(s, (q + 1) + 1, Len(s))
  BY <1>2 DEF substr, npos
<1>4. (q + 1) + 1 = q + 2 /\ q # npos
  BY <1>1 DEF npos
<1>5. SubSeq(s, q + 2, Len(s)) \in Seq(Lexemes) /\ Len(SubSeq(s, q + 2, Len(s))) <= Len(s)
  BY <1>1
<1>. QED
  BY <1>3, <1>4, <1>5 DEF Text

\* The end of the text from the dot on.
LEMMA DotAndBehind ==
  ASSUME NEW s \in Text, NEW q, LastAt(s, q)
  PROVE  /\ "." \in Lexemes
         /\ SubSeq(s, q + 1, Len(s)) = <<".">> \o SubSeq(s, q + 2, Len(s))
<1>1. q \in 0..(Len(s) - 1) /\ s \in Seq(Lexemes) /\ Len(s) \in Nat /\ s[q + 1] = "."
  BY DEF LastAt, Text
<1>2. PICK w : w = SubSeq(s, q + 1, Len(s))
  OBVIOUS
<1>3. PICK e : e = SubSeq(s, q + 2, Len(s))
  OBVIOUS
<1>4. PICK d : d = <<".">>
  OBVIOUS
<1>5. "." \in Lexemes
  BY <1>1
<1>6. w \in Seq(Lexemes) /\ Len(w) = Len(s) - q /\ \A i \in 1..Len(w) : w[i] = s[q + i]
  BY <1>1, <1>2
<1>7. e \in Seq(Lexemes) /\ Len(e) = (Len(s) - q) - 1 /\ \A i \in 1..Len(e) : e[i] = s[(q + 1) + i]
  BY <1>1, <1>3
<1>8. d \in Seq(Lexemes) /\ Len(d) = 1 /\ d[1] = "."
  BY <1>4, <1>5
<1>. HIDE <1>2, <1>3, <1>4
<1>9. PICK y : y = d \o e
  OBVIOUS
<1>10. y \in Seq(Lexemes) /\ Len(y) = Len(d) + Len(e)
       /\ \A i \in 1..Len(y) : y[i] = IF i <= Len(d) THEN d[i] ELSE e[i - Len(d)]
  <2>1. d \in Seq(Lexemes) /\ e \in Seq(Lexemes)
    BY <1>7, <1>8
  <2>. QED
    BY <1>9, <2>1, ConcatElem
<1>. HIDE <1>9
<1>11. \A i \in 1..Len(w) : w[i] = y[i]
  <2>. SUFFICES ASSUME NEW i \in 1..Len(w) PROVE w[i] = y[i]
    OBVIOUS
  <2>1. i \in 1..Len(y) /\ w[i] = s[q + i]
    BY <1>1, <1>6, <1>7, <1>8, <1>10
  <2>2. CASE i = 1
    BY <1>1, <1>8, <1>10, <2>1, <2>2
  <2>3. CASE i # 1
    <3>1. ~ (i <= Len(d)) /\ i - Len(d) = i - 1 /\ i - 1 \in 1..Len(e) /\ (q + 1) + (i - 1) = q + i
      BY <1>1, <1>6, <1>7, <1>8, <2>3
    <3>2. y[i] = e[i - 1]
      BY <1>10, <2>1, <3>1
    <3>3. e[i - 1] = s[q + i]
      BY <1>7, <3>1
    <3>. QED
      BY <2>1, <3>2, <3>3
  <2>. QED
    BY <2>2, <2>3
<1>12. Len(w) = Len(y)
  BY <1>1, <1>6, <1>7, <1>8, <1>10
<1>13. w = y
  BY <1>6, <1>10, <1>11, <1>12, SameSeq
<1>. QED
  BY <1>2, <1>3, <1>4, <1>5, <1>9, <1>13

\* The name of an extension is neither a blank, nor a dot, nor another outcome of ContentType.
LEMMA ExtensionIs ==
  ASSUME NEW name \in Extensions
  PROVE  name # SP /\ name # "." /\ name # "OCTET" /\ name # "none"
<1>1. \/ name = "HTML" \/ name = "CSS" \/ name = "PNG" \/ name = "JPG" \/ name = "JPEG" \/ name = "GIF"
  BY DEF Extensions
<1>2. name # SP
  BY <1>1, Zenon DEF SP
<1>3. name # "." /\ name # "OCTET" /\ name # "none"
  BY <1>1
<1>. QED
  BY <1>2, <1>3, Zenon

\* The type that ContentType gives to a file.
MimeOf(s) == IF LastDot(s) = npos THEN "none" ELSE ToExtension(substr(s, LastDot(s) + 1, npos))

DotWord(s, name, n, k) == ToUpper(SubSeq(s, n, Len(s))) = <<".">> \o Blanks(k) \o <<name>>

\* ToExtension names an extension exactly for the texts that Format makes that word.
LEMMA ToExtensionIs ==
  ASSUME NEW e
  PROVE  /\ ToExtension(e) # "none"
         /\ \A name \in Extensions : ToExtension(e) = name <=> Format(e) = <<name>>
<1>1. CASE \E x \in Extensions : Format(e) = <<x>>
  <2>1. PICK x \in Extensions : Format(e) = <<x>>
    BY <1>1
  <2>2. ToExtension(e) = Format(e)[1]
    BY <1>1 DEF ToExtension, Named
  <2>3. ToExtension(e) = x
    BY <2>1, <2>2
  <2>4. \A name : <<x>> = <<name>> <=> x = name
    OBVIOUS
  <2>. QED
    BY <2>1, <2>3, <2>4, ExtensionIs
<1>2. CASE ~ \E x \in Extensions : Format(e) = <<x>>
  <2>1. ToExtension(e) = "OCTET"
    BY <1>2 DEF ToExtension, Named
  <2>2. \A name \in Extensions : name # "OCTET"
    BY ExtensionIs
  <2>. QED
    BY <1>2, <2>1, <2>2
<1>. QED
  BY <1>1, <1>2

\* A dot, blanks and a word, in two parts.
DotParts(k, name) == <<".">> \o Blanks(k) \o <<name>> = <<".">> \o (Blanks(k) \o <<name>>)

\* The two groupings of a dot and a word are the same text.
LEMMA DotGroup ==
  ASSUME NEW k \in Nat, NEW name, NEW A, A = ({SP} \cup {name}) \cup {"."}
  PROVE  /\ DotParts(k, name) /\ <<".">> \in Seq(A) /\ Blanks(k) \o <<name>> \in Seq(A)
<1>1. PICK x : x = Blanks(k)
  OBVIOUS
<1>2. x \in Seq({SP})
  BY <1>1, BlanksIs
<1>3. {SP} \subseteq A /\ name \in A /\ "." \in A
  OBVIOUS
<1>4. PICK d : d = <<".">>
  OBVIOUS
<1>5. PICK w : w = <<name>>
  OBVIOUS
<1>6. d \in Seq(A) /\ w \in Seq(A)
  BY <1>3, <1>4, <1>5
<1>7. x \in Seq(A)
  BY <1>2, <1>3, SeqWider
<1>8. AssocAt(d, x, w) /\ x \o w \in Seq(A)
  <2>. HIDE <1>1, <1>4, <1>5
  <2>. QED
    BY <1>6, <1>7, AssocIs
<1>. QED
  BY <1>1, <1>4, <1>5, <1>6, <1>8, Zenon DEF AssocAt, DotParts

\* A text that ends in a dot and a word has its last dot there.
LEMMA DotWordRead ==
  ASSUME NEW s \in Text, NEW name \in Extensions, NEW n \in 1..Len(s), NEW k \in Nat, DotWord(s, name, n, k)
  PROVE  LastAt(s, n - 1) /\ IsWord(SubSeq(s, n + 1, Len(s)), name)
<1>1. PICK A : A = ({SP} \cup {name}) \cup {"."}
  OBVIOUS
<1>2. DotParts(k, name) /\ <<".">> \in Seq(A) /\ Blanks(k) \o <<name>> \in Seq(A)
  BY <1>1, DotGroup
<1>3. PICK w : w = SubSeq(s, n, Len(s))
  OBVIOUS
<1>4. s \in Seq(Lexemes) /\ Len(s) \in Nat
  BY DEF Text
<1>5. w \in Seq(Lexemes) /\ Len(w) = (Len(s) - n) + 1 /\ \A i \in 1..Len(w) : w[i] = s[(n - 1) + i]
  BY <1>3, <1>4
<1>6. Reads(w, <<".">>, Blanks(k) \o <<name>>) /\ w \in Text
  <2>1. w \in Text
    BY <1>5 DEF Text
  <2>. QED
    BY <1>2, <1>3, <2>1, Zenon DEF Reads, DotWord, DotParts
<1>7. PICK a, b : Parts(w, <<".">>, Blanks(k) \o <<name>>, a, b)
  BY <1>2, <1>6, UpperParts
<1>8. /\ a \in Text /\ b \in Text /\ w = a \o b /\ ToUpper(a) = <<".">>
      /\ ToUpper(b) = Blanks(k) \o <<name>>
      /\ b = SubSeq(w, Len(<<".">>) + 1, Len(w)) /\ Len(b) = Len(Blanks(k) \o <<name>>)
  BY <1>7, Zenon DEF Parts
<1>9. a = <<".">>
  BY <1>8, UpperIsDelimiter, TextFacts
<1>10. w[1] = "." /\ Len(w) \in Nat
  BY <1>8, <1>9 DEF Text
<1>11. Len(b) = k + 1 /\ Free(b, ".")
  <2>1. WordShape(Blanks(k) \o <<name>>, k, name)
    BY BlankWord
  <2>2. PICK v : v = Blanks(k) \o <<name>>
    OBVIOUS
  <2>3. Len(v) = k + 1 /\ v[k + 1] = name /\ \A i \in 1..k : v[i] = SP
    BY <2>1, <2>2 DEF WordShape
  <2>4. SP # "." /\ name # "."
    <3>1. SP # "."
      BY Zenon DEF SP
    <3>. QED
      BY <3>1, ExtensionIs
  <2>5. Free(v, ".")
    BY <2>3, <2>4 DEF Free
  <2>6. ToUpper(b) = v /\ Len(b) = Len(v)
    BY <1>8, <2>2
  <2>7. Free(b, ".")
    BY <1>8, <2>5, <2>6, UpperFree, TextFacts
  <2>. QED
    BY <2>3, <2>6, <2>7
<1>12. b = SubSeq(w, 2, Len(w))
  <2>1. PICK d : d = <<".">>
    OBVIOUS
  <2>2. Len(d) + 1 = 2
    BY <2>1
  <2>. QED
    BY <1>8, <2>1, <2>2
<1>13. Len(b) = Len(w) - 1 /\ \A i \in 1..Len(b) : b[i] = w[i + 1]
  <2>1. Len(w) >= 1
    BY <1>4, <1>5
  <2>. HIDE <1>3, <1>8
  <2>. QED
    BY <1>5, <1>12, <2>1
<1>14. LastAt(s, n - 1)
  <2>1. n - 1 \in 0..(Len(s) - 1) /\ s[(n - 1) + 1] = "."
    BY <1>4, <1>5, <1>10
  <2>2. ASSUME NEW i \in ((n - 1) + 1)..(Len(s) - 1) PROVE s[i + 1] # "."
    <3>1. PICK j : j = (i - n) + 1
      OBVIOUS
    <3>2. j \in 1..Len(b) /\ j + 1 \in 1..Len(w) /\ (n - 1) + (j + 1) = i + 1
      BY <1>4, <1>5, <1>13, <3>1
    <3>3. b[j] = w[j + 1] /\ w[j + 1] = s[i + 1]
      <4>. HIDE <1>3, <1>8, <1>12, <3>1
      <4>1. b[j] = w[j + 1]
        BY <1>13, <3>2
      <4>2. w[j + 1] = s[(n - 1) + (j + 1)]
        BY <1>5, <3>2
      <4>. QED
        BY <3>2, <4>1, <4>2
    <3>4. b[j] # "."
      BY <1>11, <3>2 DEF Free
    <3>. QED
      BY <3>3, <3>4
  <2>. QED
    BY <2>1, <2>2 DEF LastAt
<1>15. b = SubSeq(s, n + 1, Len(s))
  <2>1. PICK e : e = SubSeq(s, n + 1, Len(s))
    OBVIOUS
  <2>2. e \in Seq(Lexemes) /\ Len(e) = Len(s) - n /\ \A i \in 1..Len(e) : e[i] = s[n + i]
    BY <1>4, <2>1
  <2>3. b \in Seq(Lexemes) /\ Len(b) = Len(e)
    BY <1>4, <1>5, <1>8, <1>13, <2>2, SMTT(30) DEF Text
  <2>4. \A i \in 1..Len(b) : b[i] = e[i]
    <3>. SUFFICES ASSUME NEW i \in 1..Len(b) PROVE b[i] = e[i]
      OBVIOUS
    <3>1. i \in 1..Len(e) /\ i + 1 \in 1..Len(w) /\ (n - 1) + (i + 1) = n + i
      BY <1>4, <1>5, <2>2, <2>3
    <3>. QED
      BY <1>5, <1>13, <2>2, <3>1
  <2>. HIDE <2>1, <1>12, <1>8
  <2>5. b = e
    BY <2>2, <2>3, <2>4, SameSeq
  <2>. QED
    BY <2>1, <2>5
<1>16. IsWord(b, name)
  <2>1. k \in 0..Len(b)
    BY <1>11
  <2>. QED
    BY <1>8, <2>1, Zenon DEF IsWord
<1>. QED
  BY <1>14, <1>15, <1>16

\* The type is named by what is behind the last dot.
LEMMA MimeRead ==
  ASSUME NEW s \in Text, Len(s) < SizeMax
  PROVE  /\ MimeOf(s) = "none" <=> Free(s, ".")
         /\ \A name \in Extensions :
              MimeOf(s) = name <=> \E n \in 1..Len(s), k \in 0..Len(s) : DotWord(s, name, n, k)
<1>0. Len(s) \in Nat
  BY DEF Text
<1>1. CASE LastDot(s) = npos /\ Free(s, ".")
  <2>1. MimeOf(s) = "none"
    BY <1>1 DEF MimeOf
  <2>2. ASSUME NEW name \in Extensions, NEW n \in 1..Len(s), NEW k \in 0..Len(s), DotWord(s, name, n, k)
        PROVE  FALSE
    <3>1. LastAt(s, n - 1)
      BY <1>0, <2>2, DotWordRead
    <3>2. n - 1 + 1 \in 1..Len(s) /\ s[n - 1 + 1] = "."
      BY <1>0, <3>1 DEF LastAt
    <3>. QED
      BY <1>1, <3>2 DEF Free
  <2>3. \A name \in Extensions : name # "none"
    BY ExtensionIs
  <2>. QED
    BY <1>1, <2>1, <2>2, <2>3
<1>2. CASE LastAt(s, LastDot(s))
  <2>1. PICK q : q = LastDot(s)
    OBVIOUS
  <2>2. PICK e : e = SubSeq(s, q + 2, Len(s))
    OBVIOUS
  <2>3. LastAt(s, q)
    BY <1>2, <2>1
  <2>4. q \in 0..(Len(s) - 1) /\ s[q + 1] = "."
    BY <2>3 DEF LastAt
  <2>5. substr(s, q + 1, npos) = e /\ q # npos /\ e \in Text /\ Len(e) <= Len(s) /\ Len(e) \in Nat
    BY <2>2, <2>3, Behind DEF Text
  <2>6. MimeOf(s) = ToExtension(e)
    BY <2>1, <2>5 DEF MimeOf
  <2>7. ~ Free(s, ".")
    BY <1>0, <2>4 DEF Free
  <2>. HIDE <2>1, <2>2
  <2>8. ASSUME NEW name \in Extensions
        PROVE  MimeOf(s) = name <=> IsWord(e, name)
    <3>1. name # SP
      BY ExtensionIs
    <3>2. Format(e) = <<name>> <=> IsWord(e, name)
      BY <2>5, <3>1, FormatWord
    <3>. QED
      BY <2>6, <3>2, ToExtensionIs
  <2>9. ASSUME NEW name \in Extensions, NEW n \in 1..Len(s), NEW k \in 0..Len(s), DotWord(s, name, n, k)
        PROVE  IsWord(e, name)
    <3>1. LastAt(s, n - 1) /\ IsWord(SubSeq(s, n + 1, Len(s)), name)
      BY <1>0, <2>9, DotWordRead
    <3>2. n - 1 = q
      BY <1>0, <2>3, <3>1, LastAtUnique
    <3>3. n + 1 = q + 2
      BY <1>0, <2>4, <3>2
    <3>. QED
      BY <2>2, <3>1, <3>3
  <2>10. ASSUME NEW name \in Extensions, IsWord(e, name)
         PROVE  \E n \in 1..Len(s), k \in 0..Len(s) : DotWord(s, name, n, k)
    <3>1. PICK k \in 0..Len(e) : ToUpper(e) = Blanks(k) \o <<name>>
      BY <2>10, Zenon DEF IsWord
    <3>2. k \in 0..Len(s) /\ k \in Nat
      BY <1>0, <2>5
    <3>3. SubSeq(s, q + 1, Len(s)) = <<".">> \o e /\ "." \in Lexemes
      BY <2>2, <2>3, DotAndBehind
    <3>4. <<".">> \in Text /\ ToUpper(<<".">>) = <<".">>
      <4>1. <<".">> \in Text
        BY <3>3, UpperOne
      <4>. QED
        BY <4>1, UpperIsDelimiter, TextFacts
    <3>5. UpperPlus(<<".">>, e)
      BY <2>5, <3>4, UpperJoin
    <3>6. DotParts(k, name)
      BY <3>2, DotGroup
    <3>7. DotWord(s, name, q + 1, k)
      BY <3>1, <3>3, <3>4, <3>5, <3>6, Zenon DEF UpperPlus, DotParts, DotWord
    <3>8. q + 1 \in 1..Len(s)
      BY <1>0, <2>4
    <3>. QED
      BY <3>2, <3>7, <3>8
  <2>11. MimeOf(s) # "none"
    BY <2>6, ToExtensionIs
  <2>. QED
    BY <2>7, <2>8, <2>9, <2>10, <2>11
<1>. QED
  BY <1>1, <1>2, LastDotIs

-----------------------------------------------------------------------------
(* The command line.                                                       *)

\* size_t arithmetic around its largest value.
LEMMA SizeWraps ==
  ASSUME NEW m \in Nat
  PROVE  (m + 1) % (m + 1) = 0 /\ \A n \in 0..m : n % (m + 1) = n
<1>1. (m + 1) % (m + 1) = 0
  OBVIOUS
<1>2. \A n \in 0..m : n % (m + 1) = n
  OBVIOUS
<1>. QED
  BY <1>1, <1>2

\* What substr takes if more is asked for than there is.
LEMMA SubstrToEnd ==
  ASSUME NEW s \in Text, Len(s) < SizeMax, NEW p \in 0..Len(s)
  PROVE  substr(s, p, npos) = SubSeq(s, p + 1, Len(s))
<1>1. Len(s) \in Nat /\ SizeMax \in Nat
  BY TextFacts DEF Text
<1>2. p + SizeMax \in Nat /\ (p + SizeMax <= Len(s) => p + SizeMax = Len(s))
  BY <1>1
<1>3. Min({p + SizeMax, Len(s)}) = Len(s)
  BY <1>1, <1>2, MinOfTwo
<1>. QED
  BY <1>3 DEF substr, npos

\* A command line of a path, arguments and the null pointer.
ArgvIs(v, path, args) ==
  /\ v # <<>> /\ Head(v) = path /\ SubSeq(v, 2, Len(v) - 1) = args /\ Last(v) = "nullptr"

\* The path, the arguments and the null pointer are where exec looks for them.
LEMMA BuildArgvIs ==
  ASSUME NEW path \in Text, NEW args \in Seq(Text)
  PROVE  ArgvIs(BuildArgv(path, args), path, args)
<1>1. PICK z : z = "nullptr"
  OBVIOUS
<1>2. PICK A : A = Text \cup {z}
  OBVIOUS
<1>3. PICK p : p = <<path>>
  OBVIOUS
<1>4. PICK o : o = <<z>>
  OBVIOUS
<1>5. PICK x : x = p \o args
  OBVIOUS
<1>6. PICK v : v = x \o o
  OBVIOUS
<1>7. BuildArgv(path, args) = v
  BY <1>1, <1>3, <1>4, <1>5, <1>6 DEF BuildArgv
<1>8. Text \subseteq A /\ path \in A /\ z \in A
  BY <1>2
<1>9. p \in Seq(A) /\ o \in Seq(A) /\ Len(p) = 1 /\ p[1] = path /\ Len(o) = 1 /\ o[1] = z
  BY <1>3, <1>4, <1>8
<1>10. args \in Seq(A)
  BY <1>8, SeqWider
<1>. HIDE <1>1, <1>2, <1>3, <1>4
<1>11. x \in Seq(A) /\ Len(x) = Len(p) + Len(args) /\ Len(args) \in Nat
       /\ \A i \in 1..Len(x) : x[i] = IF i <= Len(p) THEN p[i] ELSE args[i - Len(p)]
  <2>1. p \in Seq(A) /\ args \in Seq(A)
    BY <1>9, <1>10
  <2>. HIDE <1>6, <1>7
  <2>. QED
    BY <1>5, <2>1, ConcatElem
<1>12. v \in Seq(A) /\ Len(v) = Len(x) + Len(o)
       /\ \A i \in 1..Len(v) : v[i] = IF i <= Len(x) THEN x[i] ELSE o[i - Len(x)]
  <2>1. x \in Seq(A) /\ o \in Seq(A)
    BY <1>9, <1>11
  <2>. HIDE <1>5, <1>7
  <2>. QED
    BY <1>6, <2>1, ConcatElem
<1>. HIDE <1>5, <1>6, <1>7
<1>13. Len(v) = Len(args) + 2 /\ v[1] = path /\ v[Len(v)] = z
  BY <1>9, <1>11, <1>12
<1>14. \A i \in 1..Len(args) : v[i + 1] = args[i]
  BY <1>9, <1>11, <1>12
<1>15. v # <<>> /\ Head(v) = path /\ Last(v) = z
  BY <1>11, <1>12, <1>13 DEF Last
<1>16. PICK w : w = SubSeq(v, 2, Len(v) - 1)
  OBVIOUS
<1>17. w \in Seq(A) /\ Len(w) = Len(args) /\ \A i \in 1..Len(w) : w[i] = v[i + 1]
  BY <1>11, <1>12, <1>13, <1>16
<1>18. w = args
  <2>1. \A i \in 1..Len(w) : w[i] = args[i]
    BY <1>14, <1>17
  <2>. HIDE <1>16
  <2>. QED
    BY <1>10, <1>17, <2>1, SameSeq
<1>. QED
  BY <1>1, <1>7, <1>15, <1>16, <1>18 DEF ArgvIs

\* The command line that ParseCGIRunner builds for a path.
PathOf(full) == substr(full, 0, CgiSeparator(full))
BehindOf(full) == substr(full, (CgiSeparator(full) + 1) % (SizeMax + 1), npos)
ArgvOf(full) == BuildArgv(PathOf(full), Split(BehindOf(full), "&"))

\* The folder and the separator that CgiSeparator finds, or none.
Folder(full, q) == FirstAt(full, "cgi-bin", 0, q)

\* CgiSeparator searches from the first cgi-bin on.
LEMMA FolderIs ==
  ASSUME NEW full \in Text, IsCGIRequest(full)
  PROVE  \E q : Folder(full, q) /\ CgiSeparator(full) = find(full, "&", q)
<1>1. full \in Seq(Lexemes) /\ 0 \in Nat
  BY DEF Text
<1>2. PICK z \in Nat : z = 0
  BY <1>1
<1>3. FirstAt(full, "cgi-bin", z, find(full, "cgi-bin", z))
  BY <1>1, <1>2, FindCases DEF IsCGIRequest
<1>. QED
  BY <1>2, <1>3 DEF Folder, CgiSeparator

\* Behind the folder's name no separator stands in the path.
NoneBehind(path) == \A i, j \in DOMAIN path : i < j /\ path[i] = "cgi-bin" => path[j] # "&"

\* The path is the text up to the separator, or all of it.
PathTo(full, path, sep) ==
  path \in Seq(Lexemes) /\ Len(path) = sep /\ \A i \in 1..sep : path[i] = full[i]

\* A path that ends before the first separator behind the folder has the folder and no separator behind it.
LEMMA PathGood ==
  ASSUME NEW full \in Seq(Lexemes), NEW q, Folder(full, q), NEW sep \in Nat, sep <= Len(full), sep > q,
         \A i \in q..(sep - 1) : full[i + 1] # "&", NEW path, PathTo(full, path, sep)
  PROVE  Contains(path, "cgi-bin") /\ NoneBehind(path)
<1>1. /\ path \in Seq(Lexemes) /\ Len(path) = sep /\ \A i \in 1..sep : path[i] = full[i]
  BY DEF PathTo
<1>2. q \in 0..(Len(full) - 1) /\ full[q + 1] = "cgi-bin" /\ \A i \in 0..(q - 1) : full[i + 1] # "cgi-bin"
  BY DEF Folder, FirstAt
<1>3. Len(full) \in Nat /\ q \in Nat
  BY <1>2
<1>4. Contains(path, "cgi-bin")
  <2>1. q + 1 \in 1..Len(path) /\ path[q + 1] = "cgi-bin"
    BY <1>1, <1>2, <1>3
  <2>. QED
    BY <2>1 DEF Contains
<1>5. NoneBehind(path)
  <2>. SUFFICES ASSUME NEW i \in DOMAIN path, NEW j \in DOMAIN path, i < j, path[i] = "cgi-bin"
                PROVE  path[j] # "&"
    BY DEF NoneBehind
  <2>1. i \in 1..sep /\ j \in 1..sep
    BY <1>1
  <2>2. full[i] = "cgi-bin" /\ path[j] = full[j]
    BY <1>1, <2>1
  <2>3. i - 1 \in Nat /\ (i - 1) + 1 = i /\ j - 1 \in Nat /\ (j - 1) + 1 = j
    BY <2>1
  <2>4. ~ (i - 1 < q)
    <3>1. ASSUME i - 1 < q PROVE FALSE
      <4>1. i - 1 \in 0..(q - 1)
        BY <1>3, <2>3, <3>1
      <4>. QED
        BY <1>2, <2>2, <2>3, <4>1
    <3>. QED
      BY <3>1
  <2>5. j - 1 \in q..(sep - 1)
    BY <1>3, <2>1, <2>3, <2>4
  <2>6. full[j] # "&"
    BY <2>3, <2>5
  <2>. QED
    BY <2>2, <2>6
<1>. QED
  BY <1>4, <1>5

\* What the property says of the path and the arguments.
CommandGood(full, path, arguments) ==
  /\ Contains(path, "cgi-bin") /\ NoneBehind(path)
  /\ path = full => arguments = full
  /\ path # full => \/ Chop(full, "&") = path /\ arguments = <<>>
                    \/ Chop(full, "&") = (path \o <<"&">>) \o arguments

\* Without a separator.
LEMMA CommandAlone ==
  ASSUME NEW full \in Text, Len(full) < SizeMax, NEW q, Folder(full, q), NoneFrom(full, "&", q),
         CgiSeparator(full) = npos
  PROVE  /\ PathOf(full) \in Text /\ BehindOf(full) \in Text /\ Len(BehindOf(full)) < SizeMax
         /\ CommandGood(full, PathOf(full), Join(Split(BehindOf(full), "&"), "&"))
<1>1. full \in Seq(Lexemes) /\ SizeMax \in Nat /\ Len(full) \in Nat
  BY TextFacts DEF Text
<1>2. q \in 0..(Len(full) - 1) /\ full[q + 1] = "cgi-bin"
  BY DEF Folder, FirstAt
<1>3. PICK z \in 0..Len(full) : z = 0
  BY <1>1
<1>4. substr(full, z, npos) = SubSeq(full, z + 1, Len(full))
  BY SubstrToEnd
<1>5. SubSeq(full, z + 1, Len(full)) = full
  <2>1. SubSeq(full, 1, Len(full)) = full
    <3>1. PICK w : w = SubSeq(full, 1, Len(full))
      OBVIOUS
    <3>2. w \in Seq(Lexemes) /\ Len(w) = Len(full) /\ \A i \in 1..Len(w) : w[i] = full[i]
      BY <1>1, <3>1
    <3>. HIDE <3>1
    <3>3. w = full
      BY <1>1, <3>2, SameSeq
    <3>. QED
      BY <3>1, <3>3
  <2>. QED
    BY <1>3, <2>1
<1>6. PathOf(full) = full
  BY <1>3, <1>4, <1>5 DEF PathOf
<1>7. BehindOf(full) = full
  <2>1. (SizeMax + 1) % (SizeMax + 1) = z
    BY <1>1, <1>3, SizeWraps
  <2>2. BehindOf(full) = substr(full, z, npos)
    BY <2>1 DEF BehindOf, npos
  <2>. QED
    BY <1>4, <1>5, <2>2
<1>8. \A i \in q..(Len(full) - 1) : full[i + 1] # "&"
  BY DEF NoneFrom
<1>9. Contains(full, "cgi-bin") /\ NoneBehind(full)
  <2>1. PICK n : n = Len(full)
    OBVIOUS
  <2>2. n \in Nat /\ n <= Len(full) /\ n > q /\ PathTo(full, full, n) /\ \A i \in q..(n - 1) : full[i + 1] # "&"
    BY <1>1, <1>2, <1>8, <2>1 DEF PathTo
  <2>. HIDE <2>1
  <2>. QED
    BY <1>1, <2>2, PathGood
<1>10. Join(Split(full, "&"), "&") = full
  <2>1. SplitGood(Lexemes, full, "&")
    BY <1>1, SplitGoodAll, TextFacts
  <2>2. Chop(full, "&") = full
    <3>1. Len(full) - 1 \in q..(Len(full) - 1) /\ (Len(full) - 1) + 1 = Len(full)
      BY <1>1, <1>2
    <3>2. full[Len(full)] # "&"
      BY <1>8, <3>1
    <3>. QED
      BY <3>2 DEF Chop, Last
  <2>. QED
    BY <2>1, <2>2 DEF SplitGood
<1>. QED
  BY <1>6, <1>7, <1>9, <1>10 DEF CommandGood

\* The end of a text is the end of what stands behind its delimiter.
ChopsTo(s, p, r, d) == Chop(s, d) = IF r = <<>> THEN p ELSE (p \o <<d>>) \o Chop(r, d)

\* Chop of such a text.
LEMMA ChopPlus ==
  ASSUME NEW p \in Seq(Lexemes), NEW d \in Lexemes, NEW r \in Seq(Lexemes), NEW s, Follows(Lexemes, p \o <<d>>, r, s)
  PROVE  ChopsTo(s, p, r, d)
<1>1. Chop(s, d) = IF r = <<>> THEN p ELSE (p \o <<d>>) \o Chop(r, d)
  BY ChopBehind
<1>. QED
  BY <1>1 DEF ChopsTo

\* With one.
LEMMA CommandApart ==
  ASSUME NEW full \in Text, Len(full) < SizeMax, NEW q, Folder(full, q),
         NEW sep, FirstAt(full, "&", q, sep), CgiSeparator(full) = sep
  PROVE  /\ PathOf(full) \in Text /\ BehindOf(full) \in Text /\ Len(BehindOf(full)) < SizeMax
         /\ CommandGood(full, PathOf(full), Join(Split(BehindOf(full), "&"), "&"))
<1>1. full \in Seq(Lexemes) /\ SizeMax \in Nat /\ Len(full) \in Nat /\ "&" \in Lexemes
  BY TextFacts DEF Text
<1>2. q \in 0..(Len(full) - 1) /\ full[q + 1] = "cgi-bin"
  BY DEF Folder, FirstAt
<1>3. sep \in q..(Len(full) - 1) /\ full[sep + 1] = "&" /\ \A i \in q..(sep - 1) : full[i + 1] # "&"
  BY DEF FirstAt
<1>4. sep # q
  BY <1>2, <1>3
<1>5. sep \in Nat /\ sep > q /\ sep < Len(full)
  BY <1>1, <1>2, <1>3, <1>4
<1>6. PICK path : path = SubSeq(full, 1, sep)
  OBVIOUS
<1>7. PathOf(full) = path
  <2>1. PICK z \in 0..Len(full) : z = 0
    BY <1>1
  <2>2. z + sep = sep /\ z + 1 = 1 /\ sep \in 0..(Len(full) - z)
    BY <1>1, <1>5, <2>1
  <2>3. substr(full, z, sep) = SubSeq(full, z + 1, z + sep)
    BY <1>1, <2>2, SubstrIs
  <2>. QED
    BY <1>6, <2>1, <2>2, <2>3 DEF PathOf
<1>8. PathTo(full, path, sep)
  BY <1>1, <1>5, <1>6 DEF PathTo
<1>9. PICK x : x = SubSeq(full, sep + 2, Len(full))
  OBVIOUS
<1>10. BehindOf(full) = x
  <2>1. sep + 1 \in 0..SizeMax /\ sep + 1 \in 0..Len(full) /\ (sep + 1) + 1 = sep + 2
    BY <1>1, <1>5
  <2>2. (sep + 1) % (SizeMax + 1) = sep + 1
    BY <1>1, <2>1, SizeWraps
  <2>3. substr(full, sep + 1, npos) = SubSeq(full, (sep + 1) + 1, Len(full))
    BY <2>1, SubstrToEnd
  <2>. QED
    BY <1>9, <2>1, <2>2, <2>3 DEF BehindOf
<1>11. /\ x \in Seq(Lexemes) /\ Len(x) = (Len(full) - sep) - 1
       /\ \A i \in 1..Len(x) : x[i] = full[(sep + 1) + i]
  BY <1>1, <1>5, <1>9
<1>12. path \in Seq(Lexemes) /\ Len(path) = sep /\ \A i \in 1..sep : path[i] = full[i]
  BY <1>8 DEF PathTo
<1>. HIDE <1>6, <1>9
<1>13. Contains(path, "cgi-bin") /\ NoneBehind(path)
  <2>1. sep <= Len(full)
    BY <1>1, <1>5
  <2>. QED
    BY <1>1, <1>3, <1>5, <1>8, <2>1, PathGood
<1>14. path # full
  BY <1>1, <1>5, <1>12
<1>15. Follows(Lexemes, path \o <<"&">>, x, full)
  <2>1. PICK p : p = path \o <<"&">>
    OBVIOUS
  <2>2. p \in Seq(Lexemes) /\ Len(p) = sep + 1 /\ \A i \in 1..sep : p[i] = path[i]
    <3>1. Longer(Lexemes, path, "&")
      BY <1>1, <1>12, LongerIs
    <3>. QED
      BY <1>12, <2>1, <3>1 DEF Longer
  <2>3. p[sep + 1] = "&"
    BY <1>1, <1>5, <1>12, <2>1
  <2>4. PICK y : y = p \o x
    OBVIOUS
  <2>5. y \in Seq(Lexemes) /\ Len(y) = Len(p) + Len(x)
        /\ \A i \in 1..Len(y) : y[i] = IF i <= Len(p) THEN p[i] ELSE x[i - Len(p)]
    <3>1. p \in Seq(Lexemes) /\ x \in Seq(Lexemes)
      BY <1>11, <2>2
    <3>. HIDE <2>1
    <3>. QED
      BY <2>4, <3>1, ConcatElem
  <2>. HIDE <2>1, <2>4
  <2>6. Len(y) = Len(full)
    BY <1>1, <1>5, <1>11, <2>2, <2>5
  <2>7. \A i \in 1..Len(full) : full[i] = y[i]
    <3>. SUFFICES ASSUME NEW i \in 1..Len(full) PROVE full[i] = y[i]
      OBVIOUS
    <3>0. i \in 1..Len(y)
      BY <2>6
    <3>1. CASE i <= sep
      <4>1. i \in 1..sep /\ i <= Len(p)
        BY <1>1, <1>5, <2>2, <3>1
      <4>2. y[i] = p[i]
        BY <2>5, <3>0, <4>1
      <4>. QED
        BY <1>12, <2>2, <4>1, <4>2
    <3>2. CASE i = sep + 1
      <4>1. i <= Len(p)
        BY <1>5, <2>2, <3>2
      <4>2. y[i] = p[i]
        BY <2>5, <3>0, <4>1
      <4>. QED
        BY <1>3, <2>3, <3>2, <4>2
    <3>3. CASE i > sep + 1
      <4>1. ~ (i <= Len(p)) /\ i - Len(p) \in 1..Len(x) /\ (sep + 1) + (i - Len(p)) = i
        BY <1>1, <1>5, <1>11, <2>2, <3>3
      <4>2. y[i] = x[i - Len(p)]
        BY <2>5, <3>0, <4>1
      <4>3. x[i - Len(p)] = full[(sep + 1) + (i - Len(p))]
        BY <1>11, <4>1
      <4>. QED
        BY <4>1, <4>2, <4>3
    <3>. QED
      BY <1>1, <1>5, <3>1, <3>2, <3>3
  <2>8. full = y
    BY <1>1, <2>5, <2>6, <2>7, SameSeq
  <2>. QED
    BY <1>11, <2>1, <2>2, <2>4, <2>8 DEF Follows
<1>16. Len(x) < SizeMax
  BY <1>1, <1>5, <1>11
<1>17. SplitGood(Lexemes, x, "&")
  BY <1>1, <1>11, <1>16, SplitGoodAll
<1>18. Chop(full, "&") = IF x = <<>> THEN path ELSE (path \o <<"&">>) \o Chop(x, "&")
  <2>1. path \in Seq(Lexemes) /\ x \in Seq(Lexemes) /\ "&" \in Lexemes
    BY <1>1, <1>11, <1>12
  <2>2. ChopsTo(full, path, x, "&")
    BY <1>15, <2>1, ChopPlus
  <2>. QED
    BY <2>2, Zenon DEF ChopsTo
<1>19. Join(Split(x, "&"), "&") = Chop(x, "&")
  BY <1>17 DEF SplitGood
<1>20. CASE x = <<>>
  <2>1. Chop(x, "&") = <<>>
    BY <1>20 DEF Chop
  <2>2. Chop(full, "&") = path
    BY <1>18, <1>20
  <2>3. CommandGood(full, path, Join(Split(x, "&"), "&"))
    BY <1>13, <1>14, <1>19, <2>1, <2>2, Zenon DEF CommandGood
  <2>. QED
    BY <1>7, <1>10, <1>11, <1>12, <1>16, <2>3 DEF Text
<1>21. CASE x # <<>>
  <2>1. Chop(full, "&") = (path \o <<"&">>) \o Chop(x, "&")
    BY <1>18, <1>21
  <2>2. CommandGood(full, path, Join(Split(x, "&"), "&"))
    BY <1>13, <1>14, <1>19, <2>1, Zenon DEF CommandGood
  <2>. QED
    BY <1>7, <1>10, <1>11, <1>12, <1>16, <2>2 DEF Text
<1>. QED
  BY <1>20, <1>21

-----------------------------------------------------------------------------
(* The text of a request.                                                  *)

\* No line is longer than all of them.
NoLonger(w, d) == \A i \in 1..Len(w) : Len(w[i]) <= Len(Lined(w, d))

\* So it is for any number of lines.
LEMMA LinedLength ==
  ASSUME NEW S, NEW d \in S, NEW ss \in Seq(Seq(S))
  PROVE  NoLonger(ss, d)
<1>. DEFINE N == {n \in Nat : \A w \in Seq(Seq(S)) : Len(w) = n => NoLonger(w, d)}
<1>1. 0 \in N
  BY DEF NoLonger
<1>2. ASSUME NEW n \in Nat, n \in N PROVE n + 1 \in N
  <2>. SUFFICES ASSUME NEW w \in Seq(Seq(S)), Len(w) = n + 1 PROVE NoLonger(w, d)
    OBVIOUS
  <2>1. PICK x \in Seq(S), t \in Seq(Seq(S)) : w = <<x>> \o t /\ Len(t) = n /\ x = w[1]
                                               /\ \A i \in 1..n : t[i] = w[i + 1]
    <3>1. /\ Head(w) \in Seq(S) /\ Tail(w) \in Seq(Seq(S)) /\ Len(Tail(w)) = n /\ Head(w) = w[1]
          /\ \A i \in 1..n : Tail(w)[i] = w[i + 1]
      OBVIOUS
    <3>2. w = <<Head(w)>> \o Tail(w)
      BY <3>1
    <3>. QED
      BY <3>1, <3>2
  <2>2. NoLonger(t, d)
    BY <1>2, <2>1
  <2>3. PICK l : l = Lined(t, d)
    OBVIOUS
  <2>4. l \in Seq(S)
    BY <2>1, <2>3, EndsType
  <2>5. Lined(w, d) = (x \o <<d>>) \o l
    BY <2>1, <2>3, LinedCons
  <2>6. Len((x \o <<d>>) \o l) = Len(x) + 1 + Len(l) /\ Len(x) \in Nat /\ Len(l) \in Nat
    BY <2>1, <2>4
  <2>7. Len(Lined(w, d)) = Len(x) + 1 + Len(l)
    BY <2>5, <2>6
  <2>8. \A i \in 1..n : Len(t[i]) <= Len(l) /\ Len(t[i]) \in Nat
    BY <2>1, <2>2, <2>3 DEF NoLonger
  <2>9. ASSUME NEW i \in 1..Len(w) PROVE Len(w[i]) <= Len(Lined(w, d))
    <3>1. CASE i = 1
      BY <2>1, <2>6, <2>7, <3>1
    <3>2. CASE i # 1
      <4>1. i - 1 \in 1..n /\ (i - 1) + 1 = i
        BY <3>2
      <4>2. t[i - 1] = w[i]
        BY <2>1, <4>1
      <4>. QED
        BY <2>6, <2>7, <2>8, <4>1, <4>2
    <3>. QED
      BY <3>1, <3>2
  <2>. QED
    BY <2>9 DEF NoLonger
<1>. HIDE DEF N
<1>3. \A n \in Nat : n \in N
  BY <1>1, <1>2, SetInduction
<1>4. Len(ss) \in N
  BY <1>3
<1>. QED
  BY <1>4 DEF N

\* What is known of a request that is received.
Received(request) ==
  /\ request.line \in Text /\ request.heads \in Seq(Text) /\ request.ended \in BOOLEAN
  /\ Len(request.line) < SizeMax /\ Len(Directory) + Len(request.line) + Len(kDefaultRoute) < SizeMax
  /\ \A i \in 1..Len(request.heads) : request.heads[i] # <<>> /\ Len(request.heads[i]) < SizeMax

\* Its lines, as Split gives them.
LinesOf(request) == <<request.line>> \o request.heads
SplitInput(request) ==
  Split(RequestText(request), CRLF) =
    IF request.ended THEN LinesOf(request) \o << <<>> >> ELSE LinesOf(request)

\* What TextAssumption says of one request.
LEMMA InputFacts ==
  ASSUME NEW request \in Inputs
  PROVE  /\ request \in [line : Text, heads : Seq(Text), ended : BOOLEAN]
         /\ Free(request.line, CRLF) /\ AllFree(request.heads, CRLF)
         /\ \A i \in 1..Len(request.heads) : request.heads[i] # <<>>
         /\ Len(RequestText(request)) < SizeMax
         /\ Len(Directory) + Len(request.line) + Len(kDefaultRoute) < SizeMax
<1>1. /\ request \in [line : Text, heads : Seq(Text), ended : BOOLEAN]
      /\ ~ Contains(request.line, CRLF)
      /\ \A k \in DOMAIN request.heads : request.heads[k] # <<>> /\ ~ Contains(request.heads[k], CRLF)
      /\ Len(RequestText(request)) < SizeMax
      /\ Len(Directory) + Len(request.line) + Len(kDefaultRoute) < SizeMax
  BY TextAssumption, Zenon
<1>2. request.heads \in Seq(Text) /\ DOMAIN request.heads = 1..Len(request.heads)
  BY <1>1
<1>3. Free(request.line, CRLF)
  BY <1>1 DEF Free, Contains
<1>4. AllFree(request.heads, CRLF)
  BY <1>1, <1>2 DEF AllFree, Free, Contains
<1>. QED
  BY <1>1, <1>2, <1>3, <1>4

\* Split of the blank line at the end, and of nothing.
LEMMA SplitEnd ==
  ASSUME SizeMax > 1
  PROVE  Split(<<CRLF>>, CRLF) = << <<>> >> /\ Split(<<>>, CRLF) = <<>>
<1>1. PICK e : e = <<>>
  OBVIOUS
<1>2. PICK d : d = CRLF
  OBVIOUS
<1>3. d \in Lexemes /\ SizeMax \in Nat
  BY <1>2, TextFacts
<1>4. e \in Seq(Lexemes) /\ Free(e, d)
  BY <1>1 DEF Free
<1>5. Split(e, d) = e
  BY <1>1, <1>4, SplitFree
<1>6. PICK c : c = <<d>>
  OBVIOUS
<1>7. c \in Seq(Lexemes) /\ Len(c) < SizeMax
  BY <1>3, <1>6
<1>8. (e \o <<d>>) \o e = c /\ e \o <<d>> \in Seq(Lexemes)
  <2>1. e \o <<d>> = c
    BY <1>1, <1>3, <1>6, ConcatEmptySeq
  <2>2. c \o e = c
    BY <1>1, <1>7, ConcatEmptySeq
  <2>. QED
    BY <1>7, <2>1, <2>2
<1>9. Follows(Lexemes, e \o <<d>>, e, c)
  BY <1>4, <1>8 DEF Follows
<1>10. Split(c, d) = <<e>> \o Split(e, d)
  <2>. HIDE <1>1, <1>2, <1>6
  <2>. QED
    BY <1>3, <1>4, <1>7, <1>9, SplitFirst
<1>11. <<e>> \o e = <<e>>
  <2>1. PICK o : o = <<e>>
    OBVIOUS
  <2>2. o \in Seq({e})
    BY <2>1
  <2>3. o \o <<>> = o
    BY <2>2, ConcatEmptySeq
  <2>. QED
    BY <1>1, <2>1, <2>3
<1>. QED
  BY <1>1, <1>2, <1>5, <1>6, <1>10, <1>11, Zenon

\* Split of the text of a request gives its lines, and one more if it ends in a blank line.
LEMMA InputLines ==
  ASSUME NEW request \in Inputs
  PROVE  Received(request) /\ SplitInput(request)
<1>1. /\ request \in [line : Text, heads : Seq(Text), ended : BOOLEAN]
      /\ Free(request.line, CRLF) /\ AllFree(request.heads, CRLF)
      /\ \A i \in 1..Len(request.heads) : request.heads[i] # <<>>
      /\ Len(RequestText(request)) < SizeMax
      /\ Len(Directory) + Len(request.line) + Len(kDefaultRoute) < SizeMax
  BY InputFacts
<1>2. CRLF \in Lexemes /\ SizeMax \in Nat /\ Directory \in Seq(Lexemes) /\ kDefaultRoute \in Seq(Lexemes)
  BY TextFacts DEF Text
<1>3. PICK l : l = request.line
  OBVIOUS
<1>4. PICK h : h = request.heads
  OBVIOUS
<1>5. PICK b : b = request.ended
  OBVIOUS
<1>6. l \in Seq(Lexemes) /\ h \in Seq(Seq(Lexemes)) /\ b \in BOOLEAN
  BY <1>1, <1>3, <1>4, <1>5 DEF Text
<1>7. Free(l, CRLF) /\ AllFree(h, CRLF) /\ (\A i \in 1..Len(h) : h[i] # <<>>)
      /\ Len(Directory) + Len(l) + Len(kDefaultRoute) < SizeMax
  BY <1>1, <1>3, <1>4
<1>8. PICK w : w = <<l>> \o h
  OBVIOUS
<1>9. PICK e : e = IF b THEN <<CRLF>> ELSE <<>>
  OBVIOUS
<1>10. RequestText(request) = Lined(w, CRLF) \o e
  BY <1>1, <1>2, <1>3, <1>4, <1>5, <1>8, <1>9, RequestLines
<1>11. Len(Lined(w, CRLF) \o e) < SizeMax
  BY <1>1, <1>10
<1>12. e \in Seq(Lexemes)
  BY <1>2, <1>9
<1>13. /\ w \in Seq(Seq(Lexemes)) /\ Len(w) = Len(h) + 1 /\ Len(h) \in Nat
       /\ w[1] = l /\ \A i \in 1..Len(h) : w[i + 1] = h[i]
  <2>. HIDE <1>1, <1>3, <1>4, <1>5, <1>9, <1>10
  <2>. QED
    BY <1>6, <1>8
<1>. HIDE <1>1, <1>3, <1>4, <1>5, <1>8, <1>9, <1>10
<1>14. AllFree(w, CRLF)
  <2>. SUFFICES ASSUME NEW i \in 1..Len(w) PROVE Free(w[i], CRLF)
    BY DEF AllFree
  <2>1. CASE i = 1
    BY <1>7, <1>13, <2>1
  <2>2. CASE i # 1
    <3>1. i - 1 \in 1..Len(h) /\ (i - 1) + 1 = i
      BY <1>13, <2>2
    <3>2. w[i] = h[i - 1]
      BY <1>13, <3>1
    <3>. QED
      BY <1>7, <3>1, <3>2 DEF AllFree
  <2>. QED
    BY <2>1, <2>2
<1>15. LinesApart(w, e, CRLF)
  BY <1>2, <1>11, <1>12, <1>13, <1>14, SplitLined
<1>16. SizeMax > 1 /\ Len(l) < SizeMax
  <2>1. Len(Directory) \in Nat /\ Len(l) \in Nat
    BY <1>2, <1>6
  <2>2. Len(kDefaultRoute) = 3
    BY DEF kDefaultRoute
  <2>. QED
    BY <1>2, <1>7, <2>1, <2>2
<1>17. \A i \in 1..Len(h) : Len(h[i]) < SizeMax
  <2>1. NoLonger(w, CRLF)
    BY <1>2, <1>13, LinedLength
  <2>2. PICK t : t = Lined(w, CRLF)
    OBVIOUS
  <2>3. t \in Seq(Lexemes)
    BY <1>2, <1>13, <2>2, EndsType
  <2>4. Len(t \o e) = Len(t) + Len(e) /\ Len(t) \in Nat /\ Len(e) \in Nat
    <3>. HIDE <2>2
    <3>. QED
      BY <1>12, <2>3
  <2>5. Len(t) < SizeMax
    BY <1>2, <1>11, <2>2, <2>4
  <2>6. ASSUME NEW i \in 1..Len(h) PROVE Len(h[i]) < SizeMax
    <3>1. i + 1 \in 1..Len(w) /\ w[i + 1] = h[i] /\ Len(h[i]) \in Nat
      BY <1>6, <1>13
    <3>2. Len(w[i + 1]) <= Len(t)
      BY <2>1, <2>2, <3>1 DEF NoLonger
    <3>. QED
      BY <1>2, <2>4, <2>5, <3>1, <3>2
  <2>. QED
    BY <2>6
<1>18. Received(request)
  BY <1>3, <1>4, <1>5, <1>6, <1>7, <1>16, <1>17 DEF Received, Text
<1>19. SplitInput(request)
  <2>1. Split(RequestText(request), CRLF) = w \o Split(e, CRLF)
    BY <1>10, <1>15 DEF LinesApart
  <2>2. LinesOf(request) = w
    BY <1>3, <1>4, <1>8 DEF LinesOf
  <2>3. CASE b = TRUE
    <3>1. Split(e, CRLF) = << <<>> >>
      BY <1>9, <1>16, <2>3, SplitEnd
    <3>. QED
      BY <1>5, <2>1, <2>2, <2>3, <3>1 DEF SplitInput
  <2>4. CASE b = FALSE
    <3>1. Split(e, CRLF) = <<>>
      BY <1>9, <1>16, <2>4, SplitEnd
    <3>2. w \o <<>> = w
      BY <1>13, ConcatEmptySeq
    <3>. QED
      BY <1>5, <2>1, <2>2, <2>4, <3>1, <3>2 DEF SplitInput
  <2>. QED
    BY <1>6, <2>3, <2>4
<1>. QED
  BY <1>18, <1>19

-----------------------------------------------------------------------------
(* The steps of the parser.                                                *)

\* What SplitLines tests.
Refusing(lines) == Len(lines) < 2 \/ Last(lines) # <<>>

\* SplitLines refuses exactly the requests without a blank line at their end; it hands on the lines of the others.
LEMMA LinesTested ==
  ASSUME NEW request, Received(request), SplitInput(request)
  PROVE  /\ request.ended = TRUE => /\ ~ Refusing(Split(RequestText(request), CRLF))
                                    /\ Front(Split(RequestText(request), CRLF)) = LinesOf(request)
         /\ request.ended = FALSE => Refusing(Split(RequestText(request), CRLF))
<1>1. PICK lines : lines = Split(RequestText(request), CRLF)
  OBVIOUS
<1>2. PICK w : w = LinesOf(request)
  OBVIOUS
<1>3. PICK l : l = request.line
  OBVIOUS
<1>4. PICK h : h = request.heads
  OBVIOUS
<1>5. l \in Text /\ h \in Seq(Text) /\ \A i \in 1..Len(h) : h[i] # <<>>
  BY <1>3, <1>4 DEF Received
<1>6. w = <<l>> \o h
  BY <1>2, <1>3, <1>4 DEF LinesOf
<1>7. /\ w \in Seq(Text) /\ Len(w) = Len(h) + 1 /\ Len(h) \in Nat
      /\ w[1] = l /\ \A i \in 1..Len(h) : w[i + 1] = h[i]
  <2>. HIDE <1>1, <1>2, <1>3, <1>4
  <2>. QED
    BY <1>5, <1>6
<1>8. CASE request.ended = TRUE
  <2>1. lines = w \o << <<>> >>
    BY <1>1, <1>2, <1>8 DEF SplitInput
  <2>2. PICK e : e = <<>>
    OBVIOUS
  <2>3. e \in Text
    BY <2>2 DEF Text
  <2>4. PICK o : o = <<e>>
    OBVIOUS
  <2>5. o \in Seq(Text) /\ Len(o) = 1 /\ o[1] = e
    BY <2>3, <2>4
  <2>6. lines = w \o o
    BY <2>1, <2>2, <2>4
  <2>. HIDE <1>1, <1>2, <1>6, <2>1, <2>2, <2>4
  <2>7. lines \in Seq(Text) /\ Len(lines) = Len(w) + Len(o)
        /\ \A i \in 1..Len(lines) : lines[i] = IF i <= Len(w) THEN w[i] ELSE o[i - Len(w)]
    <3>1. w \in Seq(Text) /\ o \in Seq(Text)
      BY <1>7, <2>5
    <3>. QED
      BY <2>6, <3>1, ConcatElem
  <2>. HIDE <2>6
  <2>8. Len(lines) = Len(h) + 2
    BY <1>7, <2>5, <2>7
  <2>9. lines[Len(lines)] = e /\ \A i \in 1..(Len(lines) - 1) : lines[i] = w[i]
    BY <1>7, <2>5, <2>7, <2>8
  <2>10. ~ Refusing(lines)
    BY <1>7, <2>2, <2>8, <2>9 DEF Refusing, Last
  <2>11. Front(lines) = w
    <3>1. PICK f : f = Front(lines)
      OBVIOUS
    <3>2. f = SubSeq(lines, 1, Len(lines) - 1)
      BY <3>1 DEF Front
    <3>3. f \in Seq(Text) /\ Len(f) = Len(w) /\ \A i \in 1..Len(f) : f[i] = lines[i]
      <4>. HIDE <3>1
      <4>. QED
        BY <1>7, <2>7, <2>8, <3>2
    <3>4. \A i \in 1..Len(f) : f[i] = w[i]
      BY <1>7, <2>8, <2>9, <3>3
    <3>5. f = w
      <4>. HIDE <3>1, <3>2
      <4>. QED
        BY <1>7, <3>3, <3>4, SameSeq
    <3>. QED
      BY <3>1, <3>5
  <2>. QED
    BY <1>1, <1>2, <1>8, <2>10, <2>11
<1>9. CASE request.ended = FALSE
  <2>1. lines = w
    BY <1>1, <1>2, <1>9 DEF SplitInput
  <2>2. Refusing(w)
    <3>1. CASE Len(h) = 0
      BY <1>7, <3>1 DEF Refusing
    <3>2. CASE Len(h) # 0
      <4>1. Len(h) \in 1..Len(h)
        BY <1>7, <3>2
      <4>2. w[Len(w)] = h[Len(h)] /\ h[Len(h)] # <<>>
        BY <1>5, <1>7, <4>1
      <4>. QED
        BY <4>2 DEF Refusing, Last
    <3>. QED
      BY <3>1, <3>2
  <2>. QED
    BY <1>1, <1>9, <2>1, <2>2
<1>10. request.ended \in BOOLEAN
  BY DEF Received
<1>. QED
  BY <1>8, <1>9, <1>10

\* The first n header lines are read, r are the others, and cl says whether
\* the connection is to be closed.
Read(heads, hs, r, cl, n) ==
  /\ n \in 0..Len(heads)
  /\ hs \in Seq({Header(x) : x \in Text}) /\ Len(hs) = n
  /\ \A i \in 1..n : hs[i] = Header(heads[i]) /\ GoodHeader(heads[i])
  /\ r \in Seq(Text) /\ Len(r) = Len(heads) - n /\ \A i \in 1..Len(r) : r[i] = heads[n + i]
  /\ cl \in BOOLEAN /\ (cl = TRUE <=> \A i \in 1..n : ~ KeepAliveLine(heads[i]))

\* At first none are.
LEMMA ReadNone ==
  ASSUME NEW heads \in Seq(Text)
  PROVE  Read(heads, <<>>, heads, TRUE, 0)
BY DEF Read

\* One iteration reads one more, or finds a header that is not good.
LEMMA ReadOne ==
  ASSUME NEW heads \in Seq(Text), \A i \in 1..Len(heads) : Len(heads[i]) < SizeMax,
         NEW hs, NEW r, NEW cl, NEW n, Read(heads, hs, r, cl, n), r # <<>>
  PROVE  \/ /\ Header(Head(r)).valid = TRUE
            /\ Read(heads, Append(hs, Header(Head(r))), Tail(r), cl /\ ~ KeepsAlive(Header(Head(r))), n + 1)
         \/ /\ Header(Head(r)).valid = FALSE
            /\ \E i \in 1..Len(heads) : ~ GoodHeader(heads[i])
<1>1. /\ n \in 0..Len(heads)
      /\ hs \in Seq({Header(x) : x \in Text}) /\ Len(hs) = n
      /\ \A i \in 1..n : hs[i] = Header(heads[i]) /\ GoodHeader(heads[i])
  BY DEF Read
<1>2. r \in Seq(Text) /\ Len(r) = Len(heads) - n /\ \A i \in 1..Len(r) : r[i] = heads[n + i]
  BY DEF Read
<1>3. cl \in BOOLEAN /\ (cl = TRUE <=> \A i \in 1..n : ~ KeepAliveLine(heads[i]))
  BY DEF Read
<1>4. Len(heads) \in Nat /\ n \in Nat
  BY <1>1
<1>5. /\ n + 1 \in 1..Len(heads) /\ Head(r) = heads[n + 1] /\ Len(Tail(r)) = Len(heads) - (n + 1)
      /\ Tail(r) \in Seq(Text) /\ \A i \in 1..Len(Tail(r)) : Tail(r)[i] = r[i + 1]
  BY <1>2, <1>4
<1>6. PICK x : x = heads[n + 1]
  OBVIOUS
<1>7. x \in Text /\ Len(x) < SizeMax
  BY <1>5, <1>6
<1>8. CASE Header(x).valid = FALSE /\ ~ GoodHeader(x)
  BY <1>5, <1>6, <1>8
<1>9. CASE Header(x).valid = TRUE /\ GoodHeader(x)
  <2>1. KeepsAlive(Header(x)) <=> KeepAliveLine(x)
    BY <1>7, <1>9, KeepLine
  <2>2. PICK g : g = Header(x)
    OBVIOUS
  <2>3. PICK H : H = {Header(y) : y \in Text}
    OBVIOUS
  <2>4. g \in H /\ hs \in Seq(H)
    BY <1>1, <1>7, <2>2, <2>3
  <2>5. PICK hs1 : hs1 = Append(hs, g)
    OBVIOUS
  <2>6. hs1 \in Seq(H) /\ Len(hs1) = n + 1 /\ hs1[n + 1] = g /\ \A i \in 1..n : hs1[i] = hs[i]
    <3>. HIDE <2>2, <2>3, <1>6
    <3>1. Len(hs) = n
      BY <1>1
    <3>. QED
      BY <1>4, <2>4, <2>5, <3>1
  <2>7. \A i \in 1..(n + 1) : hs1[i] = Header(heads[i]) /\ GoodHeader(heads[i])
    <3>. SUFFICES ASSUME NEW i \in 1..(n + 1) PROVE hs1[i] = Header(heads[i]) /\ GoodHeader(heads[i])
      OBVIOUS
    <3>1. CASE i = n + 1
      BY <1>6, <1>9, <2>2, <2>6, <3>1
    <3>2. CASE i \in 1..n
      BY <1>1, <2>6, <3>2
    <3>. QED
      BY <1>4, <3>1, <3>2
  <2>8. \A i \in 1..Len(Tail(r)) : Tail(r)[i] = heads[(n + 1) + i]
    <3>. SUFFICES ASSUME NEW i \in 1..Len(Tail(r)) PROVE Tail(r)[i] = heads[(n + 1) + i]
      OBVIOUS
    <3>1. i + 1 \in 1..Len(r) /\ n + (i + 1) = (n + 1) + i
      BY <1>2, <1>4, <1>5
    <3>2. Tail(r)[i] = r[i + 1] /\ r[i + 1] = heads[n + (i + 1)]
      BY <1>2, <1>5, <3>1
    <3>. QED
      BY <3>1, <3>2
  <2>9. PICK c : c = (cl /\ ~ KeepsAlive(Header(x)))
    OBVIOUS
  <2>10. c \in BOOLEAN /\ (c = TRUE <=> \A i \in 1..(n + 1) : ~ KeepAliveLine(heads[i]))
    <3>1. (\A i \in 1..(n + 1) : ~ KeepAliveLine(heads[i]))
            <=> (\A i \in 1..n : ~ KeepAliveLine(heads[i])) /\ ~ KeepAliveLine(x)
      <4>1. \A i : i \in 1..(n + 1) <=> i \in 1..n \/ i = n + 1
        BY <1>4
      <4>. QED
        BY <1>6, <4>1, Zenon
    <3>2. c \in BOOLEAN /\ (c = TRUE <=> cl = TRUE /\ ~ KeepAliveLine(x))
      BY <1>3, <2>1, <2>9, Zenon
    <3>. QED
      BY <1>3, <3>1, <3>2, Zenon
  <2>11. Read(heads, hs1, Tail(r), c, n + 1)
    <3>1. n + 1 \in 0..Len(heads)
      BY <1>4, <1>5
    <3>. QED
      BY <1>5, <2>3, <2>6, <2>7, <2>8, <2>10, <3>1, Zenon DEF Read
  <2>12. Head(r) = x
    BY <1>5, <1>6
  <2>. QED
    BY <1>9, <2>2, <2>5, <2>9, <2>11, <2>12, Zenon
<1>. QED
  BY <1>7, <1>8, <1>9, HeaderRead

-----------------------------------------------------------------------------
(* The invariant.                                                          *)

\* The members of Request before the first line is read.
Fresh == /\ method = "UNSUPPORTED" /\ version = "UNSUPPORTED" /\ close = TRUE /\ headers = <<>>
         /\ argv = <<>> /\ mime = "none"

\* The first line is read.
LineDone == input.ended = TRUE /\ GoodLine(input.line) /\ url \in Text /\ Len(resource_full_path) < SizeMax

\* All the headers are read.
HeadersDone == Read(input.heads, headers, <<>>, close, Len(input.heads))

\* A request that the parser has to accept.
Acceptable(request) ==
  /\ request.ended = TRUE /\ GoodLine(request.line)
  /\ \A i \in 1..Len(request.heads) : GoodHeader(request.heads[i])

HInv ==
  /\ input \in Inputs
  /\ pc = "lines" => Fresh
  /\ pc = "line" => Fresh /\ input.ended = TRUE /\ rest = LinesOf(input)
  /\ pc = "headers" => LineDone /\ argv = <<>> /\ \E n : Read(input.heads, headers, rest, close, n)
  /\ pc = "cgi" => LineDone /\ HeadersDone /\ IsCGIRequest(resource_full_path)
  /\ pc = "static" => LineDone /\ HeadersDone /\ argv = <<>>
  /\ pc = "done" => /\ LineDone /\ HeadersDone
                    /\ \/ IsCGIRequest(resource_full_path) /\ argv = ArgvOf(resource_full_path)
                       \/ argv = <<>> /\ mime = MimeOf(resource_full_path)
  /\ pc = "refused" => ~ Acceptable(input)

\* A new Request is in the invariant.
LEMMA HInit ==
  Init => HInv
BY DEF Init, HInv, Fresh

\* A url with the default route behind it is at most that much longer.
LEMMA RoutedIs ==
  ASSUME NEW path \in Text, Len(Directory) + Len(path) + Len(kDefaultRoute) < SizeMax
  PROVE  Routed(path) \in Text /\ Len(Directory \o Routed(path)) < SizeMax
<1>1. Directory \in Seq(Lexemes) /\ kDefaultRoute \in Seq(Lexemes) /\ path \in Seq(Lexemes) /\ SizeMax \in Nat
  BY TextFacts DEF Text
<1>2. PICK k : k = kDefaultRoute
  OBVIOUS
<1>3. PICK u : u = Routed(path)
  OBVIOUS
<1>4. u \in Seq(Lexemes) /\ Len(u) <= Len(path) + Len(k)
  <2>1. CASE u = path
    BY <1>1, <1>2, <2>1
  <2>2. CASE u = path \o k
    <3>1. k \in Seq(Lexemes)
      BY <1>1, <1>2
    <3>. HIDE <1>2, <1>3
    <3>2. u \in Seq(Lexemes) /\ Len(u) = Len(path) + Len(k) /\ Len(u) \in Nat
      BY <1>1, <2>2, <3>1
    <3>. QED
      BY <3>2
  <2>. QED
    BY <1>2, <1>3, <2>1, <2>2 DEF Routed
<1>5. Len(Directory \o u) = Len(Directory) + Len(u)
  <2>. HIDE <1>3
  <2>. QED
    BY <1>1, <1>4
<1>6. Len(k) \in Nat /\ Len(path) \in Nat /\ Len(Directory) \in Nat /\ Len(u) \in Nat
  BY <1>1, <1>2, <1>4
<1>7. Len(Directory) + Len(path) + Len(k) < SizeMax
  BY <1>2
<1>8. Len(Directory \o u) < SizeMax
  BY <1>1, <1>4, <1>5, <1>6, <1>7
<1>. QED
  BY <1>3, <1>4, <1>8 DEF Text

\* SplitLines keeps the invariant.
LEMMA SplitLinesKeeps ==
  HInv /\ SplitLines => HInv'
<1>. SUFFICES ASSUME HInv, SplitLines PROVE HInv'
  OBVIOUS
<1>1. pc = "lines" /\ input \in Inputs /\ Fresh
  BY DEF HInv, SplitLines
<1>2. UNCHANGED <<input, method, version, url, close, headers, argv, mime>>
  BY DEF SplitLines
<1>3. Received(input) /\ SplitInput(input) /\ input.ended \in BOOLEAN
  BY <1>1, InputLines DEF Received
<1>4. \/ Refusing(Split(RequestText(input), CRLF)) /\ pc' = "refused"
      \/ /\ ~ Refusing(Split(RequestText(input), CRLF))
         /\ pc' = "line" /\ rest' = Front(Split(RequestText(input), CRLF))
  BY Zenon DEF SplitLines, Refusing
<1>5. CASE input.ended = TRUE
  <2>1. pc' = "line" /\ rest' = LinesOf(input)
    BY <1>3, <1>4, <1>5, LinesTested
  <2>. QED
    BY <1>1, <1>2, <1>5, <2>1 DEF HInv, Fresh, LinesOf
<1>6. CASE input.ended = FALSE
  <2>1. pc' = "refused"
    BY <1>3, <1>4, <1>6, LinesTested
  <2>. QED
    BY <1>1, <1>2, <1>6, <2>1 DEF HInv, Acceptable
<1>. QED
  BY <1>3, <1>5, <1>6

\* ParseRequestLine keeps the invariant: it refuses exactly the lines that are not good.
LEMMA LineKeeps ==
  HInv /\ ParseRequestLine => HInv'
<1>. SUFFICES ASSUME HInv, ParseRequestLine PROVE HInv'
  OBVIOUS
<1>1. pc = "line" /\ input \in Inputs /\ Fresh /\ input.ended = TRUE /\ rest = LinesOf(input)
  BY DEF HInv, ParseRequestLine
<1>2. UNCHANGED <<input, close, headers, argv, mime>> /\ rest' = Tail(rest)
  BY DEF ParseRequestLine
<1>3. Received(input)
  BY <1>1, InputLines
<1>4. /\ input.line \in Text /\ input.heads \in Seq(Text) /\ Len(input.line) < SizeMax
      /\ Len(Directory) + Len(input.line) + Len(kDefaultRoute) < SizeMax
  BY <1>3 DEF Received
<1>5. Head(rest) = input.line /\ Tail(rest) = input.heads
  <2>1. PICK l : l = input.line
    OBVIOUS
  <2>2. PICK h : h = input.heads
    OBVIOUS
  <2>3. rest = <<l>> \o h
    BY <1>1, <2>1, <2>2 DEF LinesOf
  <2>4. l \in Text /\ h \in Seq(Text)
    BY <1>4, <2>1, <2>2
  <2>5. PICK w : w = <<l>> \o h
    OBVIOUS
  <2>6. Head(w) = l /\ Tail(w) = h
    <3>. HIDE <2>1, <2>2, <2>3
    <3>. QED
      BY <2>4, <2>5
  <2>. QED
    BY <2>1, <2>2, <2>3, <2>5, <2>6
<1>6. PICK tokens : tokens = Split(input.line, SP)
  OBVIOUS
<1>7. /\ method' = IF Len(tokens) = 3 THEN ToMethod(tokens[1]) ELSE method
      /\ version' = IF method' # "UNSUPPORTED" THEN ToVersion(tokens[3]) ELSE version
      /\ url' = IF version' # "UNSUPPORTED" THEN Routed(tokens[2]) ELSE url
      /\ pc' = IF version' # "UNSUPPORTED" THEN "headers" ELSE "refused"
  BY <1>5, <1>6, Zenon DEF ParseRequestLine, SP
<1>8. method = "UNSUPPORTED" /\ version = "UNSUPPORTED" /\ close = TRUE /\ headers = <<>> /\ argv = <<>>
  BY <1>1 DEF Fresh
<1>9. CASE TokensGood(tokens)
  <2>1. Len(tokens) = 3 /\ ToMethod(tokens[1]) # "UNSUPPORTED" /\ ToVersion(tokens[3]) # "UNSUPPORTED"
    BY <1>9 DEF TokensGood
  <2>2. pc' = "headers" /\ url' = Routed(tokens[2])
    BY <1>7, <2>1
  <2>3. GoodLine(input.line)
    BY <1>4, <1>6, <1>9, LineRead
  <2>4. tokens[2] \in Text /\ Len(tokens[2]) <= Len(input.line)
    BY <1>4, <1>6, <2>1, LineUrl
  <2>5. url' \in Text /\ Len(Directory \o url') < SizeMax
    <3>1. Len(Directory) + Len(tokens[2]) + Len(kDefaultRoute) < SizeMax
      <4>1. Directory \in Seq(Lexemes) /\ kDefaultRoute \in Seq(Lexemes) /\ SizeMax \in Nat
        BY TextFacts DEF Text
      <4>2. Len(Directory) \in Nat /\ Len(kDefaultRoute) \in Nat
        BY <4>1
      <4>3. Len(tokens[2]) \in Nat /\ Len(input.line) \in Nat
        BY <1>4, <2>4 DEF Text
      <4>. QED
        BY <1>4, <2>4, <4>1, <4>2, <4>3
    <3>. QED
      BY <2>2, <2>4, <3>1, RoutedIs
  <2>6. LineDone'
    BY <1>1, <1>2, <2>3, <2>5 DEF LineDone, resource_full_path
  <2>7. Read(input.heads, headers, input.heads, close, 0)
    BY <1>4, <1>8, ReadNone
  <2>8. (\E n : Read(input.heads, headers, rest, close, n))'
    BY <1>2, <1>5, <2>7
  <2>. QED
    BY <1>1, <1>2, <1>8, <2>2, <2>6, <2>8 DEF HInv
<1>10. CASE ~ TokensGood(tokens)
  <2>1. pc' = "refused"
    BY <1>7, <1>8, <1>10 DEF TokensGood
  <2>2. ~ GoodLine(input.line)
    BY <1>4, <1>6, <1>10, LineRead
  <2>. QED
    BY <1>1, <1>2, <2>1, <2>2 DEF HInv, Acceptable
<1>. QED
  BY <1>9, <1>10

\* One iteration over the header lines keeps the invariant.
LEMMA HeaderKeeps ==
  HInv /\ ReadHeader => HInv'
<1>. SUFFICES ASSUME HInv, ReadHeader PROVE HInv'
  OBVIOUS
<1>1. pc = "headers" /\ input \in Inputs /\ LineDone /\ argv = <<>> /\ rest # <<>>
  BY DEF HInv, ReadHeader
<1>2. PICK n : Read(input.heads, headers, rest, close, n)
  BY <1>1 DEF HInv
<1>3. UNCHANGED <<input, method, version, url, argv, mime>> /\ rest' = Tail(rest)
  BY DEF ReadHeader
<1>4. input.heads \in Seq(Text) /\ \A i \in 1..Len(input.heads) : Len(input.heads[i]) < SizeMax
  BY <1>1, InputLines DEF Received
<1>5. \/ /\ Header(Head(rest)).valid = TRUE
         /\ Read(input.heads, Append(headers, Header(Head(rest))), Tail(rest),
                 close /\ ~ KeepsAlive(Header(Head(rest))), n + 1)
      \/ /\ Header(Head(rest)).valid = FALSE
         /\ \E i \in 1..Len(input.heads) : ~ GoodHeader(input.heads[i])
  BY <1>1, <1>2, <1>4, ReadOne
<1>6. \/ /\ Header(Head(rest)).valid
         /\ headers' = Append(headers, Header(Head(rest)))
         /\ close' = (close /\ ~ KeepsAlive(Header(Head(rest))))
         /\ pc' = pc
      \/ ~ Header(Head(rest)).valid /\ pc' = "refused"
  BY Zenon DEF ReadHeader
<1>7. CASE Header(Head(rest)).valid = TRUE
  <2>1. /\ headers' = Append(headers, Header(Head(rest)))
        /\ close' = (close /\ ~ KeepsAlive(Header(Head(rest))))
        /\ pc' = pc
    BY <1>6, <1>7, Zenon
  <2>2. Read(input.heads, Append(headers, Header(Head(rest))), Tail(rest),
             close /\ ~ KeepsAlive(Header(Head(rest))), n + 1)
    BY <1>5, <1>7
  <2>3. (\E m : Read(input.heads, headers, rest, close, m))'
    BY <1>3, <2>1, <2>2, Zenon
  <2>4. LineDone'
    BY <1>1, <1>3 DEF LineDone, resource_full_path
  <2>. QED
    BY <1>1, <1>3, <2>1, <2>3, <2>4 DEF HInv
<1>8. CASE Header(Head(rest)).valid = FALSE
  <2>1. pc' = "refused"
    BY <1>6, <1>8, Zenon
  <2>2. ~ Acceptable(input)
    BY <1>5, <1>8 DEF Acceptable
  <2>. QED
    BY <1>1, <1>3, <2>1, <2>2 DEF HInv, Acceptable
<1>. QED
  BY <1>5, <1>7, <1>8

\* The choice of the handler keeps the invariant: all the headers are read.
LEMMA ChooseKeeps ==
  HInv /\ ChooseHandler => HInv'
<1>. SUFFICES ASSUME HInv, ChooseHandler PROVE HInv'
  OBVIOUS
<1>1. pc = "headers" /\ input \in Inputs /\ LineDone /\ argv = <<>> /\ rest = <<>>
  BY DEF HInv, ChooseHandler
<1>2. PICK n : Read(input.heads, headers, rest, close, n)
  BY <1>1 DEF HInv
<1>3. UNCHANGED <<input, rest, method, version, url, close, headers, argv, mime>>
      /\ pc' = IF IsCGIRequest(resource_full_path) THEN "cgi" ELSE "static"
  BY DEF ChooseHandler
<1>4. HeadersDone
  <2>1. n \in 0..Len(input.heads) /\ Len(rest) = Len(input.heads) - n /\ Len(rest) = 0
    BY <1>1, <1>2 DEF Read
  <2>2. input.heads \in Seq(Text)
    BY <1>1, InputLines DEF Received
  <2>3. n = Len(input.heads)
    BY <2>1, <2>2
  <2>. QED
    BY <1>1, <1>2, <2>3 DEF HeadersDone
<1>5. LineDone' /\ HeadersDone'
  BY <1>1, <1>3, <1>4 DEF LineDone, HeadersDone, resource_full_path
<1>6. resource_full_path' = resource_full_path
  BY <1>3 DEF resource_full_path
<1>7. CASE IsCGIRequest(resource_full_path)
  <2>1. pc' = "cgi" /\ IsCGIRequest(resource_full_path)'
    BY <1>3, <1>6, <1>7
  <2>. QED
    BY <1>1, <1>3, <1>5, <2>1 DEF HInv
<1>8. CASE ~ IsCGIRequest(resource_full_path)
  <2>1. pc' = "static"
    BY <1>3, <1>8
  <2>. QED
    BY <1>1, <1>3, <1>5, <2>1 DEF HInv
<1>. QED
  BY <1>7, <1>8

\* ParseCGIRunner keeps the invariant.
LEMMA CgiKeeps ==
  HInv /\ ParseCGIRunner => HInv'
<1>. SUFFICES ASSUME HInv, ParseCGIRunner PROVE HInv'
  OBVIOUS
<1>1. pc = "cgi" /\ input \in Inputs /\ LineDone /\ HeadersDone /\ IsCGIRequest(resource_full_path)
  BY DEF HInv, ParseCGIRunner
<1>2. UNCHANGED <<input, rest, method, version, url, close, headers, mime>> /\ pc' = "done"
  BY DEF ParseCGIRunner
<1>3. argv' = ArgvOf(resource_full_path)
  BY Zenon DEF ParseCGIRunner, ArgvOf, PathOf, BehindOf
<1>4. resource_full_path' = resource_full_path
  BY <1>2 DEF resource_full_path
<1>5. LineDone' /\ HeadersDone'
  BY <1>1, <1>2 DEF LineDone, HeadersDone, resource_full_path
<1>6. IsCGIRequest(resource_full_path)' /\ argv' = ArgvOf(resource_full_path)'
  BY <1>1, <1>3, <1>4
<1>. QED
  BY <1>1, <1>2, <1>5, <1>6 DEF HInv

\* ContentType keeps the invariant.
LEMMA TypeKeeps ==
  HInv /\ ContentType => HInv'
<1>. SUFFICES ASSUME HInv, ContentType PROVE HInv'
  OBVIOUS
<1>1. pc = "static" /\ input \in Inputs /\ LineDone /\ HeadersDone /\ argv = <<>>
  BY DEF HInv, ContentType
<1>2. UNCHANGED <<input, rest, method, version, url, close, headers, argv>> /\ pc' = "done"
  BY DEF ContentType
<1>3. mime' = MimeOf(resource_full_path)
  BY Zenon DEF ContentType, MimeOf
<1>4. resource_full_path' = resource_full_path
  BY <1>2 DEF resource_full_path
<1>5. LineDone' /\ HeadersDone'
  BY <1>1, <1>2 DEF LineDone, HeadersDone, resource_full_path
<1>6. argv' = <<>> /\ mime' = MimeOf(resource_full_path)'
  BY <1>1, <1>2, <1>3, <1>4
<1>. QED
  BY <1>1, <1>2, <1>5, <1>6 DEF HInv

\* A step of something else keeps the invariant.
LEMMA StutterKeeps ==
  HInv /\ UNCHANGED vars => HInv'
BY DEF HInv, vars, Fresh, LineDone, HeadersDone, resource_full_path

\* Every state of the parser and of the handlers behind it is in the invariant.
LEMMA TextInv ==
  Spec => []HInv
<1>1. HInv /\ [Next]_vars => HInv'
  BY SplitLinesKeeps, LineKeeps, HeaderKeeps, ChooseKeeps, CgiKeeps, TypeKeeps, StutterKeeps DEF Next
<1>. QED
  BY <1>1, HInit, PTL DEF Spec

\* What is known of a valid request.
LEMMA HeadersKnown ==
  ASSUME HInv, Valid
  PROVE  LineDone /\ HeadersDone /\ Received(input)
<1>1. LineDone /\ HeadersDone /\ input \in Inputs
  BY DEF HInv, Valid
<1>. QED
  BY <1>1, InputLines

\* Valid exactly if acceptable, from the invariant.
LEMMA ValidFromInv ==
  HInv => ValidExactly
<1>. SUFFICES ASSUME HInv, Parsed
              PROVE  Valid <=> /\ input.ended
                               /\ GoodLine(input.line)
                               /\ \A i \in DOMAIN input.heads : GoodHeader(input.heads[i])
  BY DEF ValidExactly
<1>0. input \in Inputs
  BY DEF HInv
<1>1. input.heads \in Seq(Text) /\ input.ended \in BOOLEAN /\ DOMAIN input.heads = 1..Len(input.heads)
  <2>1. input.heads \in Seq(Text) /\ input.ended \in BOOLEAN
    BY <1>0, InputLines DEF Received
  <2>. QED
    BY <2>1
<1>2. Acceptable(input) <=> /\ input.ended
                            /\ GoodLine(input.line)
                            /\ \A i \in DOMAIN input.heads : GoodHeader(input.heads[i])
  BY <1>1, Zenon DEF Acceptable
<1>3. ASSUME Valid PROVE Acceptable(input)
  <2>1. LineDone /\ HeadersDone
    BY <1>3, HeadersKnown
  <2>. QED
    BY <2>1 DEF LineDone, HeadersDone, Read, Acceptable
<1>4. ASSUME ~ Valid PROVE ~ Acceptable(input)
  BY <1>4 DEF Parsed, HInv
<1>. QED
  BY <1>2, <1>3, <1>4

\* The headers written out again, from the invariant and HeaderRead.
LEMMA ReadBackFromInv ==
  HInv => HeadersReadBack
<1>. SUFFICES ASSUME HInv, Valid
              PROVE  /\ Len(headers) = Len(input.heads)
                     /\ \A i \in DOMAIN headers :
                          Serialize(headers[i]) =
                            (IF Last(input.heads[i]) = ":" THEN Front(input.heads[i]) ELSE input.heads[i])
                               \o <<CRLF>>
  BY Zenon DEF HeadersReadBack
<1>1. Received(input) /\ Read(input.heads, headers, <<>>, close, Len(input.heads))
  BY HeadersKnown DEF HeadersDone
<1>2. /\ input.heads \in Seq(Text)
      /\ \A i \in 1..Len(input.heads) : input.heads[i] # <<>> /\ Len(input.heads[i]) < SizeMax
  BY <1>1 DEF Received
<1>3. /\ headers \in Seq({Header(x) : x \in Text}) /\ Len(headers) = Len(input.heads)
      /\ \A i \in 1..Len(input.heads) : headers[i] = Header(input.heads[i]) /\ GoodHeader(input.heads[i])
  BY <1>1 DEF Read
<1>4. DOMAIN headers = 1..Len(input.heads)
  BY <1>3
<1>5. ASSUME NEW i \in 1..Len(input.heads)
      PROVE  Serialize(headers[i]) =
               (IF Last(input.heads[i]) = ":" THEN Front(input.heads[i]) ELSE input.heads[i]) \o <<CRLF>>
  <2>1. PICK x : x = input.heads[i]
    OBVIOUS
  <2>2. x \in Text /\ x # <<>> /\ Len(x) < SizeMax /\ headers[i] = Header(x) /\ GoodHeader(x)
    BY <1>2, <1>3, <2>1
  <2>3. Serialize(Header(x)) = Chop(x, ":") \o <<CRLF>>
    BY <2>2, HeaderRead
  <2>. QED
    BY <2>1, <2>2, <2>3, Zenon DEF Chop
<1>. QED
  BY <1>3, <1>4, <1>5

\* The connection is kept for a KeepAliveLine, from the invariant.
LEMMA KeptFromInv ==
  HInv => KeptExactly
<1>. SUFFICES ASSUME HInv, Valid
              PROVE  ~ close <=> \E i \in DOMAIN input.heads : KeepAliveLine(input.heads[i])
  BY DEF KeptExactly
<1>1. Received(input) /\ Read(input.heads, headers, <<>>, close, Len(input.heads))
  BY HeadersKnown DEF HeadersDone
<1>2. input.heads \in Seq(Text)
  BY <1>1 DEF Received
<1>3. DOMAIN input.heads = 1..Len(input.heads)
  BY <1>2
<1>4. close \in BOOLEAN /\ (close = TRUE <=> \A i \in 1..Len(input.heads) : ~ KeepAliveLine(input.heads[i]))
  BY <1>1 DEF Read
<1>. QED
  BY <1>3, <1>4, Zenon

\* The path of the resource is a text shorter than npos.
LEMMA FullIs ==
  ASSUME LineDone
  PROVE  resource_full_path \in Text /\ Len(resource_full_path) < SizeMax
<1>1. Directory \in Seq(Lexemes) /\ url \in Seq(Lexemes)
  BY TextFacts DEF LineDone, Text
<1>. QED
  BY <1>1 DEF LineDone, resource_full_path, Text

\* The command line that is built says what the property says.
LEMMA CommandRead ==
  ASSUME NEW full \in Text, Len(full) < SizeMax, IsCGIRequest(full)
  PROVE  /\ ArgvIs(ArgvOf(full), PathOf(full), Split(BehindOf(full), "&"))
         /\ CommandGood(full, PathOf(full), Join(Split(BehindOf(full), "&"), "&"))
<1>0. full \in Seq(Lexemes) /\ SizeMax \in Nat /\ Len(full) \in Nat /\ "&" \in Lexemes
  BY TextFacts DEF Text
<1>1. PICK q : Folder(full, q) /\ CgiSeparator(full) = find(full, "&", q)
  BY FolderIs
<1>2. q \in Nat
  BY <1>0, <1>1 DEF Folder, FirstAt
<1>3. /\ PathOf(full) \in Text /\ BehindOf(full) \in Text /\ Len(BehindOf(full)) < SizeMax
      /\ CommandGood(full, PathOf(full), Join(Split(BehindOf(full), "&"), "&"))
  <2>1. CASE find(full, "&", q) = npos /\ NoneFrom(full, "&", q)
    BY <1>1, <2>1, CommandAlone
  <2>2. CASE FirstAt(full, "&", q, find(full, "&", q))
    BY <1>1, <2>2, CommandApart
  <2>. QED
    BY <1>0, <1>2, <2>1, <2>2, FindCases
<1>4. SplitGood(Lexemes, BehindOf(full), "&")
  BY <1>0, <1>3, SplitGoodAll DEF Text
<1>5. Split(BehindOf(full), "&") \in Seq(Text)
  BY <1>4 DEF SplitGood, Text
<1>6. ArgvIs(ArgvOf(full), PathOf(full), Split(BehindOf(full), "&"))
  BY <1>3, <1>5, BuildArgvIs DEF ArgvOf
<1>. QED
  BY <1>3, <1>6

\* The command line, from the invariant and CommandRead.
LEMMA CgiFromInv ==
  HInv => CgiCommandLine
<1>. SUFFICES ASSUME HInv, pc = "done", argv # <<>>
              PROVE  /\ Contains(Head(argv), "cgi-bin") /\ Last(argv) = "nullptr"
                     /\ \A i, j \in DOMAIN Head(argv) :
                          i < j /\ Head(argv)[i] = "cgi-bin" => Head(argv)[j] # "&"
                     /\ LET arguments == Join(SubSeq(argv, 2, Len(argv) - 1), "&")
                            sent == IF Last(resource_full_path) = "&" THEN Front(resource_full_path)
                                    ELSE resource_full_path
                        IN IF Head(argv) = resource_full_path THEN arguments = resource_full_path
                           ELSE \/ sent = Head(argv) /\ arguments = <<>>
                                \/ sent = Head(argv) \o <<"&">> \o arguments
  BY Zenon DEF CgiCommandLine, resource_full_path
<1>1. LineDone /\ IsCGIRequest(resource_full_path) /\ argv = ArgvOf(resource_full_path)
  BY DEF HInv
<1>2. PICK full : full = resource_full_path
  OBVIOUS
<1>3. full \in Text /\ Len(full) < SizeMax /\ IsCGIRequest(full) /\ argv = ArgvOf(full)
  BY <1>1, <1>2, FullIs
<1>4. PICK path : path = PathOf(full)
  OBVIOUS
<1>5. PICK arguments : arguments = Join(Split(BehindOf(full), "&"), "&")
  OBVIOUS
<1>6. ArgvIs(argv, path, Split(BehindOf(full), "&")) /\ CommandGood(full, path, arguments)
  BY <1>3, <1>4, <1>5, CommandRead
<1>7. /\ Head(argv) = path /\ Join(SubSeq(argv, 2, Len(argv) - 1), "&") = arguments /\ Last(argv) = "nullptr"
  BY <1>5, <1>6, Zenon DEF ArgvIs
<1>8. full # <<>>
  <2>1. PICK q : Folder(full, q)
    BY <1>3, FolderIs
  <2>2. q \in 0..(Len(full) - 1)
    BY <2>1 DEF Folder, FirstAt
  <2>. QED
    BY <2>2
<1>9. Chop(full, "&") = IF Last(full) = "&" THEN Front(full) ELSE full
  BY <1>8, Zenon DEF Chop
<1>10. /\ Contains(path, "cgi-bin")
       /\ \A i, j \in DOMAIN path : i < j /\ path[i] = "cgi-bin" => path[j] # "&"
       /\ IF path = full THEN arguments = full
          ELSE \/ Chop(full, "&") = path /\ arguments = <<>>
               \/ Chop(full, "&") = path \o <<"&">> \o arguments
  BY <1>6, Zenon DEF CommandGood, NoneBehind
<1>. QED
  BY <1>2, <1>7, <1>9, <1>10, Zenon

\* The type, from the invariant and MimeRead.
LEMMA TypedFromInv ==
  HInv => TypedByExtension
<1>. SUFFICES ASSUME HInv, pc = "done", argv = <<>>
              PROVE  /\ (mime = "none") <=> ~ Contains(resource_full_path, ".")
                     /\ \A name \in Extensions : mime = name <=>
                          \E n \in 1..Len(resource_full_path), k \in 0..Len(resource_full_path) :
                             DotWord(resource_full_path, name, n, k)
  BY Zenon DEF TypedByExtension, resource_full_path, DotWord
<1>1. LineDone
  BY DEF HInv
<1>2. PICK full : full = resource_full_path
  OBVIOUS
<1>3. full \in Text /\ Len(full) < SizeMax
  BY <1>1, <1>2, FullIs
<1>4. mime = MimeOf(full)
  <2>1. ASSUME IsCGIRequest(full), argv = ArgvOf(full) PROVE FALSE
    <3>1. ArgvIs(argv, PathOf(full), Split(BehindOf(full), "&"))
      BY <1>3, <2>1, CommandRead
    <3>. QED
      BY <3>1 DEF ArgvIs
  <2>. QED
    BY <1>2, <2>1 DEF HInv
<1>5. Contains(full, ".") <=> ~ Free(full, ".")
  BY DEF Contains, Free
<1>. QED
  BY <1>2, <1>3, <1>4, <1>5, MimeRead

\* Request::Request accepts exactly the texts that end in a blank line, begin with a line of three
\* words, the first and the last of them known, and have only headers with a colon before their end:
\* for every set of requests, every set of lexemes and every capital of them.
THEOREM ValidSafety ==
  Spec => []ValidExactly
BY TextInv, ValidFromInv, PTL

\* The headers of a valid request, written out again by Header::Serialize, are the lines it was
\* sent with, but for one colon at the end of a line: for every request and any number of headers.
THEOREM ReadBackSafety ==
  Spec => []HeadersReadBack
BY TextInv, ReadBackFromInv, PTL

\* The connection of a valid request is kept (ScanHeader) exactly if one of its headers is
\* Connection: Keep-Alive, with any blanks before the words, if no name and no value of them has a
\* blank behind it: for every request and any number of headers.
THEOREM KeptSafety ==
  Spec => []KeptExactly
BY TextInv, KeptFromInv, PTL

\* ParseCGIRunner calls the program by the part of the path up to the first separator behind the
\* folder, with the rest as arguments, and with the whole path as arguments if there is none (npos + 1).
THEOREM CgiSafety ==
  Spec => []CgiCommandLine
BY TextInv, CgiFromInv, PTL

\* The Content-Type of a static resource is named by what stands behind the last dot of its path,
\* in any case and behind blanks, and there is none exactly if there is no dot.
THEOREM MimeSafety ==
  Spec => []TypedByExtension
BY TextInv, TypedFromInv, PTL

=============================================================================
