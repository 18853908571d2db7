---------------------------- MODULE ListProofs ----------------------------
(***************************************************************************)
(* What the operations of Lists do, for every list: Retain keeps exactly   *)
(* the wanted elements, in their order and as often as they were there;    *)
(* Total is a number, FlattenSeq takes one sequence after the other.       *)
(* Induction over positions is stated on sets: a set of positions that     *)
(* holds the first one and with each one the next.                         *)
(***************************************************************************)
EXTENDS Lists, FiniteSetTheorems, SequenceTheorems, TLAPS

\* How many kept positions there are up to i.
Rank(s, S, i) == Cardinality({j \in Kept(s, S) : j <= i})

\* The kept positions are finitely many.
LEMMA KeptFinite ==
    ASSUME NEW T, NEW s \in Seq(T), NEW S
    PROVE  /\ Kept(s, S) \subseteq 1..Len(s)
           /\ IsFiniteSet(Kept(s, S))
           /\ Cardinality(Kept(s, S)) \in Nat
<1>1. Kept(s, S) \subseteq 1..Len(s)
  BY DEF Kept
<1>2. Len(s) \in Nat /\ IsFiniteSet(1..Len(s))
  BY FS_Interval
<1>3. IsFiniteSet(Kept(s, S))
  BY <1>1, <1>2, FS_Subset
<1>4. QED
  BY <1>1, <1>3, FS_CardinalityType

\* A kept position's rank is a position of the result.
LEMMA RankBounds ==
    ASSUME NEW T, NEW s \in Seq(T), NEW S, NEW i \in Kept(s, S)
    PROVE  Rank(s, S, i) \in 1..Cardinality(Kept(s, S))
<1> DEFINE L == {j \in Kept(s, S) : j <= i}
<1>1. IsFiniteSet(Kept(s, S)) /\ Cardinality(Kept(s, S)) \in Nat
  BY KeptFinite
<1>2. L \in SUBSET Kept(s, S)
  OBVIOUS
<1>3. IsFiniteSet(L) /\ Cardinality(L) <= Cardinality(Kept(s, S))
  BY <1>1, <1>2, FS_Subset
<1>4. i \in L
  BY KeptFinite
<1>5. Cardinality(L) \in Nat /\ Cardinality(L) # 0
  BY <1>3, <1>4, FS_EmptySet, FS_CardinalityType
<1>6. QED
  BY <1>1, <1>3, <1>5 DEF Rank

\* Ranks grow with positions.
LEMMA RankMonotone ==
    ASSUME NEW T, NEW s \in Seq(T), NEW S,
           NEW i \in Kept(s, S), NEW j \in Kept(s, S), i < j
    PROVE  Rank(s, S, i) < Rank(s, S, j)
<1> DEFINE L(n) == {m \in Kept(s, S) : m <= n}
<1>1. Kept(s, S) \subseteq Int /\ IsFiniteSet(Kept(s, S))
  BY KeptFinite
<1>2. L(j) \in SUBSET Kept(s, S)
  OBVIOUS
<1>3. IsFiniteSet(L(j))
  BY <1>1, <1>2, FS_Subset
<1>4. L(i) \in SUBSET L(j)
  BY <1>1
<1>5. L(i) # L(j)
  BY <1>1
<1>6. Cardinality(L(i)) <= Cardinality(L(j)) /\ Cardinality(L(i)) # Cardinality(L(j))
  BY <1>3, <1>4, <1>5, FS_Subset
<1>7. Cardinality(L(i)) \in Nat /\ Cardinality(L(j)) \in Nat
  BY <1>3, <1>4, FS_Subset, FS_CardinalityType
<1>8. QED
  BY <1>6, <1>7 DEF Rank

\* Every position of the result comes from one kept position.
LEMMA NthExists ==
    ASSUME NEW T, NEW s \in Seq(T), NEW S, NEW k \in 1..Cardinality(Kept(s, S))
    PROVE  /\ Nth(s, S, k) \in Kept(s, S)
           /\ Rank(s, S, Nth(s, S, k)) = k
<1> DEFINE K == Kept(s, S)
           n == Cardinality(K)
           f == [i \in K |-> Rank(s, S, i)]
<1>1. n \in Nat /\ K \subseteq Int /\ IsFiniteSet(K)
  BY KeptFinite
<1>2. f \in [K -> 1..n]
  BY RankBounds
<1>3. \A i, j \in K : f[i] = f[j] => i = j
  <2>1. SUFFICES ASSUME NEW i \in K, NEW j \in K, i < j
                 PROVE  f[i] # f[j]
    BY <1>1
  <2>2. Rank(s, S, i) \in Int /\ Rank(s, S, j) \in Int
    BY RankBounds, <1>1
  <2>3. Rank(s, S, i) < Rank(s, S, j)
    BY <2>1, RankMonotone
  <2>4. QED
    BY <2>2, <2>3
<1>4. f \in Injection(K, 1..n)
  BY <1>2, <1>3 DEF Injection, IsInjective
<1>5. IsFiniteSet(1..n) /\ Cardinality(1..n) = n
  BY <1>1, FS_Interval
<1>6. f \in Surjection(K, 1..n)
  BY <1>4, <1>5, FS_Injection
<1>7. \E i \in K : Rank(s, S, i) = k
  BY <1>6 DEF Surjection
<1>8. QED
  BY <1>7 DEF Nth, Rank

\* The position with a rank is the one the rank leads back to.
LEMMA NthOfRank ==
    ASSUME NEW T, NEW s \in Seq(T), NEW S, NEW i \in Kept(s, S)
    PROVE  Nth(s, S, Rank(s, S, i)) = i
<1>1. Kept(s, S) \subseteq Int
  BY KeptFinite
<1>2. Rank(s, S, i) \in 1..Cardinality(Kept(s, S))
  BY RankBounds
<1> DEFINE j == Nth(s, S, Rank(s, S, i))
<1>3. j \in Kept(s, S) /\ Rank(s, S, j) = Rank(s, S, i)
  BY <1>2, NthExists
<1> HIDE DEF j
<1>4. ASSUME NEW a \in Kept(s, S), NEW b \in Kept(s, S), a < b
      PROVE  Rank(s, S, a) # Rank(s, S, b)
  <2>1. Rank(s, S, a) < Rank(s, S, b)
    BY <1>4, RankMonotone
  <2>2. Rank(s, S, a) \in Int /\ Rank(s, S, b) \in Int
    BY RankBounds
  <2>3. QED
    BY <2>1, <2>2
<1>5. j = i
  BY <1>1, <1>3, <1>4
<1>6. QED
  BY <1>5 DEF j

\* Retain keeps exactly the elements of s that are in S.
THEOREM RetainElements ==
    ASSUME NEW T, NEW s \in Seq(T), NEW S
    PROVE  /\ Retain(s, S) \in Seq(T)
           /\ Len(Retain(s, S)) = Cardinality(Kept(s, S))
           /\ ToSet(Retain(s, S)) = ToSet(s) \intersect S
<1> DEFINE r == Retain(s, S)
           n == Cardinality(Kept(s, S))
<1>1. n \in Nat /\ Kept(s, S) \subseteq 1..Len(s)
  BY KeptFinite
<1>2. \A k \in 1..n : r[k] = s[Nth(s, S, k)] /\ Nth(s, S, k) \in Kept(s, S)
  BY NthExists DEF Retain
<1>3. r \in Seq(T) /\ Len(r) = n /\ DOMAIN r = 1..n
  <2>1. r = [k \in 1..n |-> s[Nth(s, S, k)]]
    BY DEF Retain
  <2>2. \A k \in 1..n : s[Nth(s, S, k)] \in T
    BY <1>1, <1>2
  <2>3. QED
    BY <1>1, <2>1, <2>2
<1>4. ASSUME NEW x \in ToSet(r) PROVE x \in ToSet(s) \intersect S
  <2>1. PICK k \in 1..n : x = r[k]
    BY <1>3 DEF ToSet
  <2>2. QED
    BY <2>1, <1>2 DEF Kept, ToSet
<1>5. ASSUME NEW x \in ToSet(s) \intersect S PROVE x \in ToSet(r)
  <2>1. PICK i \in DOMAIN s : x = s[i]
    BY DEF ToSet
  <2>2. i \in Kept(s, S)
    BY <2>1 DEF Kept
  <2>3. Rank(s, S, i) \in 1..n
    BY <2>2, RankBounds
  <2>4. Nth(s, S, Rank(s, S, i)) = i
    BY <2>2, NthOfRank
  <2>5. QED
    BY <2>1, <2>3, <2>4, <1>2, <1>3 DEF ToSet
<1>6. QED
  BY <1>3, <1>4, <1>5

\* Retain keeps the order, and duplicates nothing.
THEOREM RetainOrder ==
    ASSUME NEW T, NEW s \in Seq(T), NEW S
    PROVE  /\ \A k, l \in DOMAIN Retain(s, S) :
                 k < l => Nth(s, S, k) < Nth(s, S, l)
           /\ Distinct(s) => Distinct(Retain(s, S))
<1> DEFINE r == Retain(s, S)
           n == Cardinality(Kept(s, S))
<1>1. n \in Nat /\ Kept(s, S) \subseteq 1..Len(s) /\ DOMAIN r = 1..n
  BY KeptFinite DEF Retain
<1>2. \A k \in 1..n : /\ r[k] = s[Nth(s, S, k)]
                      /\ Nth(s, S, k) \in Kept(s, S)
                      /\ Rank(s, S, Nth(s, S, k)) = k
  BY NthExists DEF Retain
<1>3. \A k, l \in 1..n : k < l => Nth(s, S, k) < Nth(s, S, l)
  <2>1. SUFFICES ASSUME NEW k \in 1..n, NEW l \in 1..n, k < l,
                        ~(Nth(s, S, k) < Nth(s, S, l))
                 PROVE  FALSE
    OBVIOUS
  <2>2. CASE Nth(s, S, l) = Nth(s, S, k)
    BY <2>1, <2>2, <1>2, <1>1
  <2>3. CASE Nth(s, S, l) < Nth(s, S, k)
    BY <2>1, <2>3, <1>2, <1>1, RankMonotone
  <2>4. QED
    BY <2>1, <2>2, <2>3, <1>1, <1>2
<1>4. ASSUME Distinct(s) PROVE Distinct(r)
  <2>1. SUFFICES ASSUME NEW k \in 1..n, NEW l \in 1..n, r[k] = r[l]
                 PROVE  k = l
    BY <1>1 DEF Distinct
  <2>2. Nth(s, S, k) = Nth(s, S, l)
    BY <1>4, <1>2, <2>1, <1>1 DEF Distinct, Kept
  <2>3. QED
    BY <2>2, <1>2
<1>5. QED
  BY <1>1, <1>3, <1>4

\* An element that is kept occurs in the result as often as before.
THEOREM RetainOccurrences ==
    ASSUME NEW T, NEW s \in Seq(T), NEW S, NEW Q \in SUBSET S
    PROVE  /\ IsFiniteSet(Kept(s, Q))
           /\ IsFiniteSet(Kept(Retain(s, S), Q))
           /\ Cardinality(Kept(Retain(s, S), Q)) = Cardinality(Kept(s, Q))
<1> DEFINE r == Retain(s, S)
           n == Cardinality(Kept(s, S))
           f == [k \in Kept(r, Q) |-> Nth(s, S, k)]
<1>1. n \in Nat /\ Kept(s, S) \subseteq 1..Len(s) /\ DOMAIN r = 1..n
  BY KeptFinite DEF Retain
<1>2. \A k \in 1..n : /\ r[k] = s[Nth(s, S, k)]
                      /\ Nth(s, S, k) \in Kept(s, S)
                      /\ Rank(s, S, Nth(s, S, k)) = k
  BY NthExists DEF Retain
<1>3. Kept(r, Q) \subseteq 1..n
  BY <1>1 DEF Kept
<1>4. f \in [Kept(r, Q) -> Kept(s, Q)]
  BY <1>2, <1>3 DEF Kept
<1>5. \A k, l \in Kept(r, Q) : f[k] = f[l] => k = l
  BY <1>2, <1>3
<1>6. \A i \in Kept(s, Q) : \E k \in Kept(r, Q) : f[k] = i
  <2> SUFFICES ASSUME NEW i \in Kept(s, Q) PROVE \E k \in Kept(r, Q) : f[k] = i
    OBVIOUS
  <2>1. i \in Kept(s, S)
    BY DEF Kept
  <2>2. Rank(s, S, i) \in 1..n
    BY <2>1, RankBounds
  <2>3. Nth(s, S, Rank(s, S, i)) = i
    BY <2>1, NthOfRank
  <2>4. r[Rank(s, S, i)] = s[i]
    BY <2>2, <2>3, <1>2
  <2>5. Rank(s, S, i) \in Kept(r, Q)
    BY <2>2, <2>4, <1>1 DEF Kept
  <2>6. QED
    BY <2>3, <2>5
<1>7. f \in Bijection(Kept(r, Q), Kept(s, Q))
  BY <1>4, <1>5, <1>6 DEF Bijection, Injection, Surjection, IsInjective
<1>8. IsFiniteSet(Kept(s, Q)) /\ IsFiniteSet(Kept(r, Q))
  <2>1. IsFiniteSet(Kept(s, Q))
    BY KeptFinite
  <2>2. IsFiniteSet(1..n)
    BY <1>1, FS_Interval
  <2>3. QED
    BY <2>1, <2>2, <1>3, FS_Subset
<1>9. Cardinality(Kept(r, Q)) = Cardinality(Kept(s, Q))
  <2>1. ExistsBijection(Kept(r, Q), Kept(s, Q))
    BY <1>7 DEF ExistsBijection
  <2>2. QED
    BY <2>1, <1>8, FS_Bijection
<1>10. QED
  BY <1>8, <1>9

\* An appended element occurs once more, the others as often as before.
LEMMA AppendOccurrences ==
    ASSUME NEW T, NEW s \in Seq(T), NEW x \in T, NEW Q
    PROVE  Cardinality(Kept(Append(s, x), Q))
               = Cardinality(Kept(s, Q)) + IF x \in Q THEN 1 ELSE 0
<1>1. Len(s) \in Nat /\ Kept(s, Q) \subseteq 1..Len(s) /\ IsFiniteSet(Kept(s, Q))
      /\ Cardinality(Kept(s, Q)) \in Nat
  BY KeptFinite
<1>2. /\ DOMAIN Append(s, x) = 1..(Len(s) + 1) /\ DOMAIN s = 1..Len(s)
      /\ Append(s, x)[Len(s) + 1] = x
      /\ \A i \in 1..Len(s) : Append(s, x)[i] = s[i]
  OBVIOUS
<1>3. CASE x \in Q
  <2>1. Kept(Append(s, x), Q) = Kept(s, Q) \union {Len(s) + 1} /\ Len(s) + 1 \notin Kept(s, Q)
    BY <1>1, <1>2, <1>3 DEF Kept
  <2>2. QED
    BY <1>1, <1>3, <2>1, FS_AddElement
<1>4. CASE x \notin Q
  <2>1. Kept(Append(s, x), Q) = Kept(s, Q)
    BY <1>1, <1>2, <1>4 DEF Kept
  <2>2. QED
    BY <1>1, <1>4, <2>1
<1>5. QED
  BY <1>3, <1>4

\* Retain takes the elements one by one: an appended one is dropped, or comes
\* at the end.
THEOREM RetainAppend ==
    ASSUME NEW T, NEW s \in Seq(T), NEW x \in T, NEW S
    PROVE  Retain(Append(s, x), S) = IF x \in S THEN Append(Retain(s, S), x) ELSE Retain(s, S)
<1> DEFINE t == Append(s, x)
           n == Cardinality(Kept(s, S))
           m == Cardinality(Kept(t, S))
<1>1. /\ t \in Seq(T) /\ Len(s) \in Nat /\ n \in Nat
      /\ DOMAIN t = 1..(Len(s) + 1) /\ DOMAIN s = 1..Len(s)
      /\ t[Len(s) + 1] = x
      /\ \A i \in 1..Len(s) : t[i] = s[i]
  BY KeptFinite
<1>2. m = n + IF x \in S THEN 1 ELSE 0
  BY AppendOccurrences
<1> HIDE DEF t
<1>3. /\ Kept(s, S) \subseteq 1..Len(s)
      /\ Kept(t, S) = IF x \in S THEN Kept(s, S) \union {Len(s) + 1} ELSE Kept(s, S)
  BY <1>1 DEF Kept
<1>4. ASSUME NEW k \in 1..n PROVE Nth(t, S, k) = Nth(s, S, k) /\ t[Nth(t, S, k)] = s[Nth(s, S, k)]
  <2> DEFINE i == Nth(s, S, k)
  <2>1. i \in Kept(s, S) /\ Rank(s, S, i) = k
    BY NthExists
  <2> HIDE DEF i
  <2>2. {j \in Kept(t, S) : j <= i} = {j \in Kept(s, S) : j <= i}
    BY <1>1, <1>3, <2>1
  <2>3. Rank(t, S, i) = k /\ i \in Kept(t, S)
    BY <1>3, <2>1, <2>2 DEF Rank
  <2>4. Nth(t, S, k) = i
    BY <1>1, <2>3, NthOfRank
  <2>5. QED
    BY <1>1, <1>3, <2>1, <2>4 DEF i
<1> DEFINE u == Retain(t, S)
           r == Retain(s, S)
<1>5. /\ u = [k \in 1..m |-> t[Nth(t, S, k)]]
      /\ r = [k \in 1..n |-> s[Nth(s, S, k)]]
      /\ r \in Seq(T) /\ Len(r) = n
      /\ u \in Seq(T) /\ Len(u) = m
  BY <1>1, RetainElements DEF Retain
<1> HIDE DEF u, r
<1>6. n <= m /\ \A k \in 1..n : u[k] = r[k]
  BY <1>1, <1>2, <1>4, <1>5
<1>7. CASE x \notin S
  <2>1. u \in Seq(T) /\ r \in Seq(T) /\ Len(u) = n /\ Len(r) = n
    BY <1>1, <1>2, <1>5, <1>7
  <2>2. u = r
    BY <1>6, <2>1
  <2>3. QED
    BY <1>7, <2>2 DEF t, u, r
<1>8. CASE x \in S
  <2>1. Len(s) + 1 \in Kept(t, S) /\ {j \in Kept(t, S) : j <= Len(s) + 1} = Kept(t, S)
    BY <1>1, <1>3, <1>8
  <2>2. m = n + 1 /\ Nth(t, S, n + 1) = Len(s) + 1
    BY <1>1, <1>2, <1>8, <2>1, NthOfRank DEF Rank
  <2>3. u[n + 1] = x
    BY <1>1, <1>5, <2>2
  <2> DEFINE b == Append(r, x)
  <2>4. b \in Seq(T) /\ Len(b) = n + 1 /\ b[n + 1] = x /\ \A k \in 1..n : b[k] = r[k]
    BY <1>1, <1>5, AppendProperties
  <2> HIDE DEF b
  <2>5. \A k \in 1..(n + 1) : u[k] = b[k]
    BY <1>1, <1>6, <2>3, <2>4
  <2>6. u = b
    BY <1>5, <2>2, <2>4, <2>5
  <2>7. QED
    BY <1>8, <2>6 DEF b, t, u, r
<1>9. QED
  BY <1>7, <1>8

-----------------------------------------------------------------------------
(* Induction over positions *)

\* A set of positions that holds 0, and with each but the last the next one,
\* holds them all: a first one missing would make it as large as a proper part
\* of it.
THEOREM AllPositions ==
    ASSUME NEW n \in Nat, NEW A, 0 \in A,
           \A k \in 0..n : k \in A /\ k < n => k + 1 \in A
    PROVE  0..n \subseteq A
<1> DEFINE B == {k \in 0..n : 0..k \subseteq A}
           f == [k \in B |-> k + 1]
<1>1. SUFFICES ASSUME n \notin B PROVE FALSE
  OBVIOUS
<1>2. IsFiniteSet(B)
  <2>1. IsFiniteSet(0..n) /\ B \in SUBSET (0..n)
    BY FS_Interval
  <2>2. QED
    BY <2>1, FS_Subset
<1>3. 0 \in B
  OBVIOUS
<1>4. \A k \in B : k + 1 \in B \ {0}
  <2> SUFFICES ASSUME NEW k \in B PROVE k + 1 \in B \ {0}
    OBVIOUS
  <2>1. k \in Nat /\ k < n /\ k \in A /\ 0..k \subseteq A
    BY <1>1
  <2>2. k + 1 \in A
    BY <2>1
  <2>3. 0..(k + 1) = (0..k) \union {k + 1}
    BY <2>1
  <2>4. QED
    BY <2>1, <2>2, <2>3
<1>5. f \in Injection(B, B \ {0})
  <2>1. f \in [B -> B \ {0}]
    BY <1>4
  <2>2. \A k, l \in B : f[k] = f[l] => k = l
    OBVIOUS
  <2>3. QED
    BY <2>1, <2>2 DEF Injection, IsInjective
<1>6. /\ IsFiniteSet(B \ {0})
      /\ Cardinality(B \ {0}) = Cardinality(B) - 1
      /\ Cardinality(B) \in Nat
  BY <1>2, <1>3, FS_RemoveElement, FS_CardinalityType
<1> HIDE DEF B, f
<1>7. Cardinality(B) <= Cardinality(B \ {0})
  BY <1>5, <1>6, FS_Injection
<1>8. QED
  BY <1>6, <1>7

\* Total is defined for every list of natural numbers, and a natural number.
THEOREM TotalType ==
    ASSUME NEW s \in Seq(Nat)
    PROVE  Total(s) \in Nat
<1> DEFINE n == Len(s)
           Sums(g, k) == g = [i \in 0..k |-> IF i = 0 THEN 0 ELSE g[i - 1] + s[i]]
           A == {k \in 0..n : \E g : Sums(g, k) /\ g \in [0..k -> Nat]}
<1>1. n \in Nat /\ \A i \in 1..n : s[i] \in Nat
  OBVIOUS
<1>2. 0 \in A
  <2> DEFINE g == [i \in 0..0 |-> 0]
  <2>1. Sums(g, 0) /\ g \in [0..0 -> Nat]
    OBVIOUS
  <2>2. 0 \in 0..n
    BY <1>1
  <2> HIDE DEF g
  <2>3. QED
    BY <2>1, <2>2
<1>3. ASSUME NEW k \in 0..n, k \in A, k < n PROVE k + 1 \in A
  <2>1. PICK g : Sums(g, k) /\ g \in [0..k -> Nat]
    BY <1>3
  <2> DEFINE h == [i \in 0..(k + 1) |-> IF i = k + 1 THEN g[k] + s[k + 1] ELSE g[i]]
  <2>2. h \in [0..(k + 1) -> Nat]
    <3>1. s[k + 1] \in Nat /\ g[k] \in Nat
      BY <1>1, <1>3, <2>1
    <3>2. \A i \in 0..(k + 1) : i # k + 1 => g[i] \in Nat
      BY <2>1
    <3>3. QED
      BY <3>1, <3>2
  <2>3. \A i \in 0..(k + 1) : h[i] = IF i = 0 THEN 0 ELSE h[i - 1] + s[i]
    <3> SUFFICES ASSUME NEW i \in 0..(k + 1)
                 PROVE  h[i] = IF i = 0 THEN 0 ELSE h[i - 1] + s[i]
      OBVIOUS
    <3>1. CASE i = k + 1
      BY <3>1, <1>3
    <3>2. CASE i # k + 1
      <4>1. i \in 0..k /\ h[i] = g[i] /\ (i # 0 => i - 1 \in 0..k /\ h[i - 1] = g[i - 1])
        BY <3>2, <1>3
      <4>2. g[i] = IF i = 0 THEN 0 ELSE g[i - 1] + s[i]
        BY <2>1, <4>1
      <4>3. QED
        BY <4>1, <4>2
    <3>3. QED
      BY <3>1, <3>2
  <2>4. Sums(h, k + 1)
    BY <2>3
  <2> HIDE DEF h
  <2>5. k + 1 \in 0..n
    BY <1>1, <1>3
  <2>6. QED
    BY <2>2, <2>4, <2>5
<1>4. 0..n \subseteq A
  <2> HIDE DEF A, n
  <2>1. QED
    BY <1>1, <1>2, <1>3, AllPositions
<1>5. PICK g : Sums(g, n) /\ g \in [0..n -> Nat]
  <2>1. n \in 0..n
    BY <1>1
  <2>2. n \in A
    <3> HIDE DEF A
    <3>1. QED
      BY <1>4, <2>1
  <2>3. QED
    BY <2>2
<1> DEFINE sum == CHOOSE g1 : Sums(g1, n)
<1>6. Sums(sum, n)
  BY <1>5
<1>7. sum = [i \in 0..n |-> IF i = 0 THEN 0 ELSE sum[i - 1] + s[i]]
  BY <1>6
<1> DEFINE B == {k \in 0..n : sum[k] \in Nat}
<1> HIDE DEF sum
<1>8. 0 \in B
  BY <1>1, <1>7
<1>9. \A k \in 0..n : k \in B /\ k < n => k + 1 \in B
  BY <1>1, <1>7
<1>10. 0..n \subseteq B
  <2> HIDE DEF B, n
  <2>1. QED
    BY <1>1, <1>8, <1>9, AllPositions
<1>11. Total(s) = sum[n]
  BY DEF Total, sum
<1>12. QED
  BY <1>1, <1>10, <1>11

\* Finitely many numbers, but at least one, have a least and a greatest one.
THEOREM Extremes ==
    ASSUME NEW S \in SUBSET Int, IsFiniteSet(S), S # {}
    PROVE  /\ \E m \in S : \A x \in S : m <= x
           /\ \E m \in S : \A x \in S : m >= x
<1> DEFINE n == Cardinality(S)
           Bounded(R) == /\ \E m \in R : \A x \in R : m <= x
                         /\ \E m \in R : \A x \in R : m >= x
           A == {k \in 0..n : \A R \in SUBSET S : R # {} /\ Cardinality(R) <= k => Bounded(R)}
<1>1. n \in Nat
  BY FS_CardinalityType
<1>2. \A R \in SUBSET S : IsFiniteSet(R) /\ Cardinality(R) \in Nat /\ Cardinality(R) <= n
  BY <1>1, FS_Subset, FS_CardinalityType
<1>3. 0 \in A
  <2>1. \A R \in SUBSET S : R # {} => Cardinality(R) # 0
    BY <1>2, FS_EmptySet
  <2>2. QED
    BY <1>1, <1>2, <2>1
<1>4. ASSUME NEW k \in 0..n, k \in A, k < n PROVE k + 1 \in A
  <2> SUFFICES ASSUME NEW R \in SUBSET S, R # {}, Cardinality(R) <= k + 1 PROVE Bounded(R)
    BY <1>1, <1>4
  <2>1. PICK y \in R : TRUE
    OBVIOUS
  <2> DEFINE Q == R \ {y}
  <2>2. Q \in SUBSET S /\ Cardinality(Q) = Cardinality(R) - 1
    BY <1>2, <2>1, FS_RemoveElement
  <2>3. R \subseteq Int /\ y \in Int /\ R = Q \union {y}
    BY <2>1
  <2>4. CASE Q = {}
    BY <2>3, <2>4
  <2>5. CASE Q # {}
    <3>1. Cardinality(Q) <= k
      BY <1>2, <2>2
    <3>2. Bounded(Q)
      BY <1>4, <2>2, <2>5, <3>1
    <3>3. PICK lo \in Q : \A x \in Q : lo <= x
      BY <3>2
    <3>4. PICK hi \in Q : \A x \in Q : hi >= x
      BY <3>2
    <3>5. /\ lo \in Int /\ hi \in Int /\ \A x \in Q : x \in Int
      BY <2>3
    <3>6. \E m \in R : \A x \in R : m <= x
      BY <2>3, <3>3, <3>5
    <3>7. \E m \in R : \A x \in R : m >= x
      BY <2>3, <3>4, <3>5
    <3>8. QED
      BY <3>6, <3>7
  <2>6. QED
    BY <2>4, <2>5
<1>5. 0..n \subseteq A
  <2> HIDE DEF A, n
  <2>1. QED
    BY <1>1, <1>3, <1>4, AllPositions
<1>6. n \in A
  <2> HIDE DEF A
  <2>1. QED
    BY <1>1, <1>5
<1>7. Bounded(S)
  BY <1>1, <1>6
<1>8. QED
  BY <1>7

-----------------------------------------------------------------------------
(* Sequences of sequences *)

\* The partial results of FlattenSeq.
Flat(ss, k, g) == g = [i \in 1..k |-> IF i = 1 THEN ss[i] ELSE g[i - 1] \o ss[i]]

\* One after the other.
LEMMA FlatAt ==
    ASSUME NEW n \in Nat, NEW ss, NEW g, Flat(ss, n, g), NEW i \in 1..n
    PROVE  g[i] = IF i = 1 THEN ss[i] ELSE g[i - 1] \o ss[i]
<1>1. g = [k \in 1..n |-> IF k = 1 THEN ss[k] ELSE g[k - 1] \o ss[k]]
  BY DEF Flat
<1> DEFINE e(k) == IF k = 1 THEN ss[k] ELSE g[k - 1] \o ss[k]
<1>2. g = [k \in 1..n |-> e(k)]
  BY <1>1
<1> HIDE DEF e
<1>3. g[i] = e(i)
  BY <1>2
<1>4. QED
  BY <1>3 DEF e

\* They exist and are sequences.
LEMMA FlatExists ==
    ASSUME NEW T, NEW ss \in Seq(Seq(T))
    PROVE  \E g \in [1..Len(ss) -> Seq(T)] : Flat(ss, Len(ss), g)
<1> DEFINE n == Len(ss)
           A == {k \in 0..n : \E g \in [1..k -> Seq(T)] : Flat(ss, k, g)}
<1>1. n \in Nat /\ \A i \in 1..n : ss[i] \in Seq(T)
  OBVIOUS
<1>2. 0 \in A
  <2> DEFINE g == [i \in 1..0 |-> <<>>]
  <2>1. g \in [1..0 -> Seq(T)] /\ Flat(ss, 0, g)
    BY DEF Flat
  <2>2. \E f \in [1..0 -> Seq(T)] : Flat(ss, 0, f)
    BY <2>1, Zenon
  <2>3. 0 \in 0..n
    BY <1>1
  <2>4. QED
    BY <2>2, <2>3, Zenon
<1>3. ASSUME NEW k \in 0..n, k \in A, k < n PROVE k + 1 \in A
  <2>1. PICK g \in [1..k -> Seq(T)] : Flat(ss, k, g)
    BY <1>3
  <2> DEFINE h == [i \in 1..(k + 1) |-> IF i = k + 1 THEN IF i = 1 THEN ss[i] ELSE g[k] \o ss[i]
                                        ELSE g[i]]
  <2>2. h \in [1..(k + 1) -> Seq(T)]
    <3>1. ss[k + 1] \in Seq(T) /\ (k # 0 => g[k] \o ss[k + 1] \in Seq(T))
      BY <1>1, <1>3
    <3>2. \A i \in 1..(k + 1) : i # k + 1 => g[i] \in Seq(T)
      OBVIOUS
    <3>3. \A i \in 1..(k + 1) : h[i] \in Seq(T)
      BY <3>1, <3>2
    <3>4. QED
      BY <3>3
  <2>3. \A i \in 1..(k + 1) : h[i] = IF i = 1 THEN ss[i] ELSE h[i - 1] \o ss[i]
    <3> SUFFICES ASSUME NEW i \in 1..(k + 1)
                 PROVE  h[i] = IF i = 1 THEN ss[i] ELSE h[i - 1] \o ss[i]
      OBVIOUS
    <3>1. CASE i = k + 1
      BY <3>1, <1>3
    <3>2. CASE i # k + 1
      <4>1. i \in 1..k /\ h[i] = g[i] /\ (i # 1 => i - 1 \in 1..k /\ h[i - 1] = g[i - 1])
        BY <3>2, <1>3
      <4>2. g[i] = IF i = 1 THEN ss[i] ELSE g[i - 1] \o ss[i]
        BY <2>1, <4>1 DEF Flat
      <4>3. QED
        BY <4>1, <4>2
    <3>3. QED
      BY <3>1, <3>2
  <2> HIDE DEF h
  <2>4. Flat(ss, k + 1, h)
    BY <2>2, <2>3 DEF Flat
  <2>5. k + 1 \in 0..n
    BY <1>1, <1>3
  <2>6. QED
    BY <2>2, <2>4, <2>5
<1>4. 0..n \subseteq A
  <2> HIDE DEF A, n
  <2>1. QED
    BY <1>1, <1>2, <1>3, AllPositions
<1>5. n \in A
  <2> HIDE DEF A
  <2>1. QED
    BY <1>1, <1>4
<1>6. QED
  BY <1>5

\* Two lists agree up to a position.
Agree(s, t, n) == \A i \in 1..n : s[i] = t[i]

\* They are unique.
LEMMA FlatUnique ==
    ASSUME NEW n \in Nat, NEW ss, NEW tt, NEW g, NEW h, NEW m \in Nat, n <= m,
           Flat(ss, n, g), Flat(tt, m, h), Agree(ss, tt, n)
    PROVE  Agree(g, h, n)
<1> DEFINE A == {k \in 0..n : k = 0 \/ g[k] = h[k]}
<1>0. \A i \in 1..n : ss[i] = tt[i]
  BY DEF Agree
<1>1. \A i \in 1..n : /\ g[i] = IF i = 1 THEN ss[i] ELSE g[i - 1] \o ss[i]
                      /\ h[i] = IF i = 1 THEN ss[i] ELSE h[i - 1] \o ss[i]
  BY <1>0, FlatAt
<1>2. 0 \in A
  OBVIOUS
<1>3. ASSUME NEW k \in 0..n, k \in A, k < n PROVE k + 1 \in A
  BY <1>1, <1>3
<1>4. 0..n \subseteq A
  <2> HIDE DEF A
  <2>1. QED
    BY <1>2, <1>3, AllPositions
<1>5. QED
  BY <1>4 DEF Agree

\* What FlattenSeq returns.
LEMMA FlattenIs ==
    ASSUME NEW T, NEW ss \in Seq(Seq(T)), NEW g, Flat(ss, Len(ss), g)
    PROVE  FlattenSeq(ss) = IF Len(ss) = 0 THEN <<>> ELSE g[Len(ss)]
<1>1. CASE Len(ss) = 0
  BY <1>1 DEF FlattenSeq
<1>2. CASE Len(ss) # 0
  <2> DEFINE f == CHOOSE h : Flat(ss, Len(ss), h)
  <2>1. Flat(ss, Len(ss), f)
    OBVIOUS
  <2>2. FlattenSeq(ss) = f[Len(ss)]
    BY <1>2 DEF FlattenSeq, Flat
  <2> HIDE DEF f
  <2>3. Agree(f, g, Len(ss))
    <3>1. Len(ss) \in Nat /\ Agree(ss, ss, Len(ss))
      BY DEF Agree
    <3>2. QED
      BY <2>1, <3>1, FlatUnique
  <2>4. QED
    BY <1>2, <2>2, <2>3 DEF Agree
<1>3. QED
  BY <1>1, <1>2

\* FlattenSeq returns a sequence of the elements, takes one sequence after the
\* other, and begins with nothing.
THEOREM FlattenAppend ==
    ASSUME NEW T, NEW ss \in Seq(Seq(T)), NEW x \in Seq(T)
    PROVE  /\ FlattenSeq(<<>>) = <<>>
           /\ FlattenSeq(ss) \in Seq(T)
           /\ FlattenSeq(Append(ss, x)) = FlattenSeq(ss) \o x
<1>0. PICK n \in Nat, p \in Nat, tt \in Seq(Seq(T)) :
         n = Len(ss) /\ p = n + 1 /\ tt = Append(ss, x)
  <2>1. Len(ss) \in Nat /\ Len(ss) + 1 \in Nat /\ Append(ss, x) \in Seq(Seq(T))
    OBVIOUS
  <2>2. QED
    BY <2>1, Zenon
<1>1. /\ n <= p /\ p \in 1..p
      /\ Len(tt) = p /\ tt[p] = x /\ Len(ss) = n
      /\ \A i \in 1..n : ss[i] = tt[i]
  BY <1>0
<1>2. PICK g : g \in [1..n -> Seq(T)] /\ Flat(ss, n, g)
  BY <1>1, FlatExists
<1>3. PICK h : h \in [1..p -> Seq(T)] /\ Flat(tt, p, h)
  BY <1>1, FlatExists
<1>4. FlattenSeq(<<>>) = <<>>
  BY DEF FlattenSeq
<1>5. FlattenSeq(ss) \in Seq(T) /\ FlattenSeq(ss) = IF n = 0 THEN <<>> ELSE g[n]
  <2>1. FlattenSeq(ss) = IF n = 0 THEN <<>> ELSE g[n]
    BY <1>1, <1>2, FlattenIs
  <2>2. QED
    BY <1>1, <1>2, <2>1
<1>6. FlattenSeq(tt) = h[p]
  BY <1>1, <1>3, FlattenIs
<1>7. h[p] = IF n = 0 THEN x ELSE h[n] \o x
  <2>1. h[p] = IF p = 1 THEN tt[p] ELSE h[p - 1] \o tt[p]
    <3>1. Flat(tt, p, h) /\ p \in 1..p
      BY <1>1, <1>3
    <3>2. \A i \in 1..p : h[i] = IF i = 1 THEN tt[i] ELSE h[i - 1] \o tt[i]
      BY <3>1, FlatAt
    <3>3. QED
      BY <3>1, <3>2
  <2>2. QED
    BY <1>0, <1>1, <2>1
<1>8. n # 0 => h[n] = g[n]
  <2>1. \A i \in 1..n : g[i] = h[i]
    <3>1. Flat(ss, n, g) /\ Flat(tt, p, h) /\ n <= p /\ Agree(ss, tt, n)
      BY <1>1, <1>2, <1>3 DEF Agree
    <3>2. Agree(g, h, n)
      BY <3>1, FlatUnique
    <3>3. QED
      BY <3>2 DEF Agree
  <2>2. QED
    BY <1>0, <2>1
<1>9. FlattenSeq(tt) = FlattenSeq(ss) \o x
  <2>1. CASE n = 0
    BY <1>5, <1>6, <1>7, <2>1, ConcatEmptySeq
  <2>2. CASE n # 0
    BY <1>5, <1>6, <1>7, <1>8, <2>2
  <2>3. QED
    BY <2>1, <2>2
<1>10. QED
  BY <1>0, <1>4, <1>5, <1>9
=============================================================================
