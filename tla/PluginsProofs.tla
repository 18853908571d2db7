--------------------------- MODULE PluginsProofs ---------------------------
(***************************************************************************)
(* Proofs about Plugins, ConfigFile and KeyTable, for any texts, actions,  *)
(* config files, plugins and bounds.  The table lists, in their order, the *)
(* last valid entry for every chord of what was inserted so far; a file    *)
(* that has been read holds what the user, this instance or another one    *)
(* wrote; host, report and entries are those of the files walked so far.   *)
(***************************************************************************)
EXTENDS Plugins, ListProofs, SequenceTheorems

-----------------------------------------------------------------------------
(* Walks *)

\* What is left of a list that is walked from its start to its end, and where
\* the walk is.
At(list, rest) == Len(list) - Len(rest)
Walks(list, rest) ==
    /\ rest \in Seq(ToSet(list)) /\ Len(rest) <= Len(list)
    /\ \A i \in 1..Len(rest) : rest[i] = list[At(list, rest) + i]

\* A walk begins with the whole list, before its first element.
LEMMA WalkBegins ==
    ASSUME NEW T, NEW list \in Seq(T)
    PROVE  Walks(list, list) /\ At(list, list) = 0
<1>1. Len(list) \in Nat /\ \A i \in 1..Len(list) : list[i] \in ToSet(list)
  BY DEF ToSet
<1>2. list \in Seq(ToSet(list))
  BY <1>1, SeqDef
<1>3. QED
  BY <1>1, <1>2 DEF Walks, At

\* One element further.
LEMMA WalkOn ==
    ASSUME NEW T, NEW list \in Seq(T), NEW rest, Walks(list, rest), rest # <<>>
    PROVE  /\ At(list, rest) \in 0..(Len(list) - 1)
           /\ Head(rest) = list[At(list, rest) + 1]
           /\ Head(rest) \in T
           /\ Walks(list, Tail(rest))
           /\ At(list, Tail(rest)) = At(list, rest) + 1
<1> DEFINE S == ToSet(list)
           r == Tail(rest)
<1>1. rest \in Seq(S) /\ Len(rest) <= Len(list) /\ Len(list) \in Nat
  BY DEF Walks
<1>2. Len(rest) \in Nat \ {0} /\ Head(rest) = rest[1]
  BY <1>1, EmptySeq, LenProperties
<1>3. r \in Seq(S) /\ Len(r) = Len(rest) - 1 /\ \A i \in 1..Len(r) : r[i] = rest[i + 1]
  BY <1>1, HeadTailProperties
<1> HIDE DEF r
<1>4. \A i \in 1..Len(rest) : rest[i] = list[At(list, rest) + i]
  BY DEF Walks
<1>5. At(list, rest) \in 0..(Len(list) - 1) /\ Head(rest) = list[At(list, rest) + 1]
  BY <1>1, <1>2, <1>4 DEF At
<1>6. At(list, r) = At(list, rest) + 1
  BY <1>1, <1>2, <1>3 DEF At
<1>7. \A i \in 1..Len(r) : r[i] = list[At(list, r) + i]
  <2> SUFFICES ASSUME NEW i \in 1..Len(r) PROVE r[i] = list[At(list, r) + i]
    OBVIOUS
  <2>1. i + 1 \in 1..Len(rest) /\ i \in Int
    BY <1>2, <1>3
  <2>2. At(list, rest) + (i + 1) = At(list, r) + i
    BY <1>5, <1>6, <2>1
  <2>3. QED
    BY <1>3, <1>4, <2>1, <2>2
<1>8. Head(rest) \in T
  BY <1>1, <1>5, ElementOfSeq
<1>9. QED
  BY <1>1, <1>2, <1>3, <1>5, <1>6, <1>7, <1>8 DEF Walks, r

\* A walk ends at the end.
LEMMA WalkEnds ==
    ASSUME NEW T, NEW list \in Seq(T), Walks(list, <<>>)
    PROVE  At(list, <<>>) = Len(list)
BY DEF At

\* The first elements, and one more.
LEMMA PrefixGrows ==
    ASSUME NEW T, NEW s \in Seq(T), NEW k \in 0..(Len(s) - 1)
    PROVE  /\ SubSeq(s, 1, k) \in Seq(T)
           /\ SubSeq(s, 1, k + 1) = Append(SubSeq(s, 1, k), s[k + 1])
<1>1. k \in Nat /\ Len(s) \in Nat /\ k + 1 \in 1..Len(s)
  BY LenProperties
<1> DEFINE a == SubSeq(s, 1, k)
           b == SubSeq(s, 1, k + 1)
           c == Append(a, s[k + 1])
<1>2. \A i \in 1..Len(s) : s[i] \in T
  BY ElementOfSeq
<1>3. a \in Seq(T) /\ Len(a) = k /\ \A i \in 1..k : a[i] = s[i]
  BY <1>1, <1>2, SubSeqProperties
<1>4. b \in Seq(T) /\ Len(b) = k + 1 /\ \A i \in 1..(k + 1) : b[i] = s[i]
  BY <1>1, <1>2, SubSeqProperties
<1> HIDE DEF a, b
<1>5. c \in Seq(T) /\ Len(c) = k + 1 /\ c[k + 1] = s[k + 1] /\ \A i \in 1..k : c[i] = a[i]
  BY <1>1, <1>2, <1>3, AppendProperties
<1> HIDE DEF c
<1>6. \A i \in 1..(k + 1) : b[i] = c[i]
  BY <1>1, <1>3, <1>4, <1>5
<1>7. b = c
  BY <1>1, <1>4, <1>5, <1>6
<1>8. QED
  BY <1>3, <1>7 DEF a, b, c

\* No elements, and all of them.
LEMMA PrefixEnds ==
    ASSUME NEW T, NEW s \in Seq(T)
    PROVE  SubSeq(s, 1, 0) = <<>> /\ SubSeq(s, 1, Len(s)) = s
<1>1. SubSeq(s, 1, 0) = <<>>
  BY SubSeqEmpty
<1> DEFINE b == SubSeq(s, 1, Len(s))
<1>2. Len(s) \in Nat /\ \A i \in 1..Len(s) : s[i] \in T
  BY ElementOfSeq, LenProperties
<1>3. b \in Seq(T) /\ Len(b) = Len(s) /\ \A i \in 1..Len(s) : b[i] = s[i]
  BY <1>2, SubSeqProperties
<1> HIDE DEF b
<1>4. b = s
  BY <1>2, <1>3
<1>5. QED
  BY <1>1, <1>4 DEF b

-----------------------------------------------------------------------------
(* The table *)

\* The entries that count among the first n: the last valid one for each chord.
Latest(es, n) ==
    {i \in 1..n : /\ Valid(es[i])
                  /\ \A j \in 1..n :
                        j > i /\ Valid(es[j]) => Texts[es[j].text] # Texts[es[i].text]}

\* A table that lists them, in their order.
Tabulates(tb, es, n) ==
    \E p \in [1..Len(tb) -> Latest(es, n)] :
        /\ \A k, l \in 1..Len(tb) : k < l => p[k] < p[l]
        /\ \A i \in Latest(es, n) : \E k \in 1..Len(tb) : p[k] = i
        /\ \A k \in 1..Len(tb) : tb[k] = Bind(es[p[k]])

\* What ResolvedBinds holds after the first n chords of the table.
SymOf(b) == [mods |-> b.chord.mods, sym |-> Keysym[b.chord.name]]
Seen(tb, n) ==
    {i \in 1..n : /\ SymOf(tb[i]).sym # NoKeysym
                  /\ \A j \in 1..n : j > i => SymOf(tb[j]) # SymOf(tb[i])}
ResolvedTo(tb, n) == {[chord |-> SymOf(tb[i]), action |-> tb[i].action] : i \in Seen(tb, n)}

Bound == [chord : ToSet(Texts), action : Action \union {NoAction}]

\* An entry's bind.
LEMMA BindType ==
    ASSUME NEW e \in Entry
    PROVE  /\ Bind(e) \in Bound /\ Bind(e).chord = Texts[e.text]
           /\ Bind(e).action = e.action /\ SymOf(Bind(e)) = PressedAs(e)
BY DEF Bind, Bound, Entry, ToSet, SymOf, PressedAs

\* KeybindTable::insert: the entries of the table for other chords stay in their
\* order, and the new one comes last.
LEMMA InsertedTabulates ==
    ASSUME NEW es \in Seq(Entry), NEW n \in 0..(Len(es) - 1), NEW tb \in Seq(Bound),
           Tabulates(tb, es, n), Valid(es[n + 1])
    PROVE  /\ Inserted(tb, es[n + 1]) \in Seq(Bound)
           /\ Tabulates(Inserted(tb, es[n + 1]), es, n + 1)
<1> DEFINE e == es[n + 1]
           S == {b \in ToSet(tb) : b.chord # Texts[e.text]}
           r == Retain(tb, S)
           m == Len(r)
           u == Inserted(tb, e)
<1>0. /\ n \in Nat /\ n + 1 \in 1..Len(es) /\ e \in Entry
      /\ \A i \in 1..(n + 1) : es[i] \in Entry
  BY ElementOfSeq, LenProperties
<1>1. PICK p \in [1..Len(tb) -> Latest(es, n)] :
        /\ \A k, l \in 1..Len(tb) : k < l => p[k] < p[l]
        /\ \A i \in Latest(es, n) : \E k \in 1..Len(tb) : p[k] = i
        /\ \A k \in 1..Len(tb) : tb[k] = Bind(es[p[k]])
  BY DEF Tabulates
<1>2. /\ r \in Seq(Bound) /\ m \in Nat /\ m = Cardinality(Kept(tb, S)) /\ DOMAIN r = 1..m
      /\ \A k \in 1..m : /\ Nth(tb, S, k) \in Kept(tb, S)
                         /\ r[k] = tb[Nth(tb, S, k)]
      /\ \A k, l \in 1..m : k < l => Nth(tb, S, k) < Nth(tb, S, l)
      /\ \A i \in Kept(tb, S) : \E k \in 1..m : Nth(tb, S, k) = i
  <2>1. r \in Seq(Bound) /\ m = Cardinality(Kept(tb, S)) /\ m \in Nat /\ DOMAIN r = 1..m
    BY RetainElements, LenProperties
  <2>2. \A k \in 1..m : Nth(tb, S, k) \in Kept(tb, S) /\ r[k] = tb[Nth(tb, S, k)]
    BY <2>1, NthExists DEF Retain
  <2>3. \A k, l \in 1..m : k < l => Nth(tb, S, k) < Nth(tb, S, l)
    BY <2>1, RetainOrder
  <2>4. \A i \in Kept(tb, S) : \E k \in 1..m : Nth(tb, S, k) = i
    BY <2>1, RankBounds, NthOfRank
  <2>5. QED
    BY <2>1, <2>2, <2>3, <2>4
<1>3. /\ u \in Seq(Bound) /\ Len(u) = m + 1 /\ u[m + 1] = Bind(e)
      /\ \A k \in 1..m : u[k] = r[k]
  <2>1. Bind(e) \in Bound /\ u = Append(r, Bind(e)) /\ r \in Seq(Bound) /\ Len(r) = m
    BY <1>0, <1>2, BindType DEF Inserted
  <2> HIDE DEF r, u, e, m
  <2>2. QED
    BY <2>1, AppendProperties
<1>4. Kept(tb, S) = {k \in 1..Len(tb) : Texts[es[p[k]].text] # Texts[e.text]}
  <2>1. DOMAIN tb = 1..Len(tb)
    BY LenProperties
  <2>2. \A k \in 1..Len(tb) : tb[k] \in ToSet(tb) /\ tb[k].chord = Texts[es[p[k]].text]
    BY <1>1, <2>1 DEF ToSet, Bind
  <2>3. QED
    BY <2>1, <2>2 DEF Kept
<1>5. Latest(es, n + 1) = {i \in Latest(es, n) : Texts[es[i].text] # Texts[e.text]} \union {n + 1}
  <2>1. 1..(n + 1) = (1..n) \union {n + 1} /\ n + 1 \notin 1..n
    BY <1>0
  <2>2. QED
    BY <1>0, <2>1 DEF Latest
<1> DEFINE N(k) == Nth(tb, S, k)
           q == [k \in 1..(m + 1) |-> IF k = m + 1 THEN n + 1 ELSE p[N(k)]]
<1> HIDE DEF r, m, u, S, e, N
<1>6. m \in Nat /\ m + 1 \in 1..(m + 1) /\ \A k \in 1..(m + 1) : k = m + 1 \/ k \in 1..m
  BY <1>2
<1>7. q[m + 1] = n + 1 /\ \A k \in 1..m : q[k] = p[N(k)]
  BY <1>6
<1> HIDE DEF q
<1>8. \A k \in 1..m : /\ N(k) \in Kept(tb, S) /\ N(k) \in 1..Len(tb)
                       /\ Texts[es[p[N(k)]].text] # Texts[e.text]
  BY <1>2, <1>4 DEF N
<1>9. \A k \in 1..m : /\ q[k] \in Latest(es, n) /\ q[k] \in Latest(es, n + 1)
                       /\ Texts[es[q[k]].text] # Texts[e.text]
  BY <1>1, <1>5, <1>7, <1>8
<1>10. q \in [1..(m + 1) -> Latest(es, n + 1)]
  <2>1. \A k \in 1..(m + 1) : q[k] \in Latest(es, n + 1)
    BY <1>5, <1>6, <1>7, <1>9
  <2>2. QED
    BY <2>1 DEF q
<1>11. Latest(es, n) \subseteq 1..n
  BY DEF Latest
<1> HIDE DEF q
<1>12. \A k, l \in 1..(m + 1) : k < l => q[k] < q[l]
  <2> SUFFICES ASSUME NEW k \in 1..(m + 1), NEW l \in 1..(m + 1), k < l PROVE q[k] < q[l]
    OBVIOUS
  <2>1. CASE l = m + 1
    <3>1. k \in 1..m
      BY <1>6, <2>1
    <3>2. q[k] \in 1..n /\ q[l] = n + 1
      BY <1>7, <1>11, <1>9, <2>1, <3>1
    <3>3. QED
      BY <1>0, <3>2
  <2>2. CASE l # m + 1
    <3>1. k \in 1..m /\ l \in 1..m
      BY <1>6, <2>2
    <3>2. N(k) < N(l) /\ N(k) \in 1..Len(tb) /\ N(l) \in 1..Len(tb)
      BY <1>2, <1>8, <3>1 DEF N
    <3>3. QED
      BY <1>1, <1>7, <3>1, <3>2
  <2>3. QED
    BY <2>1, <2>2
<1>13. ASSUME NEW i \in Latest(es, n + 1) PROVE \E k \in 1..(m + 1) : q[k] = i
  <2>1. CASE i = n + 1
    BY <1>6, <1>7, <2>1
  <2>2. CASE i # n + 1
    <3>1. i \in Latest(es, n) /\ Texts[es[i].text] # Texts[e.text]
      BY <1>5, <2>2
    <3>2. PICK j \in 1..Len(tb) : p[j] = i
      BY <1>1, <3>1
    <3>3. j \in Kept(tb, S)
      BY <1>4, <3>1, <3>2
    <3>4. PICK k \in 1..m : N(k) = j
      BY <1>2, <3>3 DEF N
    <3>5. k \in 1..(m + 1) /\ q[k] = i
      BY <1>6, <1>7, <3>2, <3>4
    <3>6. QED
      BY <3>5
  <2>3. QED
    BY <2>1, <2>2
<1>14. \A k \in 1..(m + 1) : u[k] = Bind(es[q[k]])
  <2>1. ASSUME NEW k \in 1..m PROVE u[k] = Bind(es[q[k]])
    <3>1. u[k] = tb[N(k)]
      BY <1>2, <1>3 DEF N
    <3>2. tb[N(k)] = Bind(es[p[N(k)]])
      BY <1>1, <1>8
    <3>3. QED
      BY <1>7, <3>1, <3>2
  <2>2. u[m + 1] = Bind(es[q[m + 1]])
    BY <1>3, <1>7 DEF e
  <2>3. QED
    BY <1>6, <2>1, <2>2
<1>15. Tabulates(u, es, n + 1)
  <2>1. Len(u) = m + 1
    BY <1>3
  <2>2. \A i \in Latest(es, n + 1) : \E k \in 1..(m + 1) : q[k] = i
    BY <1>13
  <2> HIDE DEF u, m
  <2>3. /\ q \in [1..Len(u) -> Latest(es, n + 1)]
        /\ \A k, l \in 1..Len(u) : k < l => q[k] < q[l]
        /\ \A i \in Latest(es, n + 1) : \E k \in 1..Len(u) : q[k] = i
        /\ \A k \in 1..Len(u) : u[k] = Bind(es[q[k]])
    <3>1. q \in [1..Len(u) -> Latest(es, n + 1)]
      BY <1>10, <2>1
    <3>2. \A k, l \in 1..Len(u) : k < l => q[k] < q[l]
      BY <1>12, <2>1
    <3>3. \A i \in Latest(es, n + 1) : \E k \in 1..Len(u) : q[k] = i
      BY <2>1, <2>2
    <3>4. \A k \in 1..Len(u) : u[k] = Bind(es[q[k]])
      BY <1>14, <2>1
    <3>5. QED
      BY <3>1, <3>2, <3>3, <3>4
  <2>4. QED
    BY <2>3, Zenon DEF Tabulates
<1>16. QED
  BY <1>3, <1>15 DEF u, e

\* A bad entry changes nothing.
LEMMA SkippedTabulates ==
    ASSUME NEW es \in Seq(Entry), NEW n \in 0..(Len(es) - 1), NEW tb,
           Tabulates(tb, es, n), ~Valid(es[n + 1])
    PROVE  Tabulates(tb, es, n + 1)
<1>1. Latest(es, n + 1) = Latest(es, n)
  <2>1. n \in Nat /\ 1..(n + 1) = (1..n) \union {n + 1}
    OBVIOUS
  <2>2. QED
    BY <2>1 DEF Latest
<1>2. QED
  BY <1>1 DEF Tabulates

\* No entries, no table.
LEMMA NothingTabulates ==
    ASSUME NEW es
    PROVE  Tabulates(<<>>, es, 0)
<1>1. Latest(es, 0) = {} /\ Len(<<>>) = 0 /\ 1..0 = {}
  BY DEF Latest
<1>2. [k \in 1..0 |-> 0] \in [1..0 -> Latest(es, 0)]
  BY <1>1
<1>3. QED
  BY <1>1, <1>2 DEF Tabulates

\* ResolvedBinds::build, one chord.
LEMMA ResolvedOn ==
    ASSUME NEW tb, NEW n \in Nat
    PROVE  ResolvedTo(tb, n + 1) =
             IF SymOf(tb[n + 1]).sym = NoKeysym THEN ResolvedTo(tb, n)
             ELSE Resolve(ResolvedTo(tb, n), tb[n + 1])
<1> DEFINE b == tb[n + 1]
           R(i) == [chord |-> SymOf(tb[i]), action |-> tb[i].action]
<1>1. 1..(n + 1) = (1..n) \union {n + 1} /\ n + 1 \notin 1..n
  OBVIOUS
<1>2. CASE SymOf(b).sym = NoKeysym
  <2>1. Seen(tb, n + 1) = Seen(tb, n)
    BY <1>1, <1>2 DEF Seen
  <2>2. QED
    BY <1>2, <2>1 DEF ResolvedTo
<1>3. CASE SymOf(b).sym # NoKeysym
  <2>1. Seen(tb, n + 1) = {i \in Seen(tb, n) : SymOf(tb[i]) # SymOf(b)} \union {n + 1}
    BY <1>1, <1>3 DEF Seen
  <2>2. Resolve(ResolvedTo(tb, n), b) = {r \in ResolvedTo(tb, n) : r.chord # SymOf(b)} \union {R(n + 1)}
    BY DEF Resolve, SymOf
  <2>3. {r \in ResolvedTo(tb, n) : r.chord # SymOf(b)}
          = {R(i) : i \in {i \in Seen(tb, n) : SymOf(tb[i]) # SymOf(b)}}
    BY DEF ResolvedTo
  <2>4. QED
    BY <1>3, <2>1, <2>2, <2>3 DEF ResolvedTo
<1>4. QED
  BY <1>2, <1>3

\* The last entry for a chord is in the table, after all others for it: what is
\* resolved from the table is what the entries bind.
LEMMA TableBinds ==
    ASSUME NEW es \in Seq(Entry), NEW tb \in Seq(Bound), Tabulates(tb, es, Len(es))
    PROVE  ResolvedTo(tb, Len(tb)) = Bindings(es)
<1> DEFINE N == Len(es)
           M == Len(tb)
           R(i) == [chord |-> SymOf(tb[i]), action |-> tb[i].action]
           B(i) == [chord |-> PressedAs(es[i]), action |-> es[i].action]
           known == {i \in DOMAIN es : Valid(es[i]) /\ PressedAs(es[i]).sym # NoKeysym}
           last == {i \in known : \A j \in known : j > i => PressedAs(es[j]) # PressedAs(es[i])}
<1>0. N \in Nat /\ M \in Nat /\ DOMAIN es = 1..N /\ \A i \in 1..N : es[i] \in Entry
  BY ElementOfSeq, LenProperties
<1>1. PICK p \in [1..M -> Latest(es, N)] :
        /\ \A k, l \in 1..M : k < l => p[k] < p[l]
        /\ \A i \in Latest(es, N) : \E k \in 1..M : p[k] = i
        /\ \A k \in 1..M : tb[k] = Bind(es[p[k]])
  BY DEF Tabulates
<1>2. \A k \in 1..M : p[k] \in 1..N /\ Valid(es[p[k]])
  BY <1>1 DEF Latest
<1>3. \A k \in 1..M : SymOf(tb[k]) = PressedAs(es[p[k]]) /\ R(k) = B(p[k])
  BY <1>0, <1>1, <1>2, BindType
<1>4. \A i \in known : \E j \in Latest(es, N) : j >= i /\ PressedAs(es[j]) = PressedAs(es[i])
  <2> SUFFICES ASSUME NEW i \in known
               PROVE  \E j \in Latest(es, N) : j >= i /\ PressedAs(es[j]) = PressedAs(es[i])
    OBVIOUS
  <2> DEFINE S == {j \in known : j >= i /\ PressedAs(es[j]) = PressedAs(es[i])}
  <2>1. S \in SUBSET Int /\ S \subseteq 1..N /\ i \in S
    BY <1>0
  <2>2. IsFiniteSet(S)
    <3>1. IsFiniteSet(1..N)
      BY <1>0, FS_Interval
    <3> HIDE DEF S
    <3>2. QED
      BY <2>1, <3>1, FS_Subset
  <2> HIDE DEF known
  <2>3. PICK j \in S : \A x \in S : j >= x
    <3> HIDE DEF S
    <3>1. QED
      BY <2>1, <2>2, Extremes
  <2>4. j \in 1..N /\ j >= i /\ PressedAs(es[j]) = PressedAs(es[i]) /\ Valid(es[j])
    BY <2>1, <2>3 DEF known
  <2>5. ASSUME NEW k \in 1..N, k > j, Valid(es[k]), Texts[es[k].text] = Texts[es[j].text]
        PROVE  FALSE
    <3>1. PressedAs(es[k]) = PressedAs(es[j])
      BY <2>5 DEF PressedAs
    <3>2. k \in S
      BY <1>0, <2>1, <2>3, <2>4, <2>5, <3>1 DEF known
    <3>3. QED
      BY <2>1, <2>3, <2>5, <3>2
  <2>6. j \in Latest(es, N)
    BY <2>4, <2>5 DEF Latest
  <2>7. QED
    BY <2>4, <2>6
<1>5. ASSUME NEW i \in last PROVE \E k \in Seen(tb, M) : p[k] = i
  <2>1. i \in Latest(es, N)
    BY <1>0, <1>5 DEF Latest, PressedAs
  <2>2. PICK k \in 1..M : p[k] = i
    BY <1>1, <2>1
  <2>3. k \in Seen(tb, M)
    <3>1. SymOf(tb[k]).sym # NoKeysym
      BY <1>3, <1>5, <2>2
    <3>2. ASSUME NEW l \in 1..M, l > k PROVE SymOf(tb[l]) # SymOf(tb[k])
      <4>1. p[l] > i /\ p[l] \in 1..N /\ Valid(es[p[l]])
        BY <1>0, <1>1, <1>2, <2>2, <3>2
      <4>2. PressedAs(es[p[l]]) = PressedAs(es[i]) => p[l] \in known
        BY <1>0, <1>5, <4>1
      <4>3. QED
        BY <1>3, <1>5, <2>2, <4>1, <4>2
    <3>3. QED
      BY <3>1, <3>2 DEF Seen
  <2>4. QED
    BY <2>2, <2>3
<1>6. ASSUME NEW k \in Seen(tb, M) PROVE p[k] \in last
  <2>1. k \in 1..M /\ SymOf(tb[k]).sym # NoKeysym
        /\ \A l \in 1..M : l > k => SymOf(tb[l]) # SymOf(tb[k])
    BY DEF Seen
  <2>2. p[k] \in known
    BY <1>0, <1>2, <1>3, <2>1
  <2>3. ASSUME NEW j \in known, j > p[k], PressedAs(es[j]) = PressedAs(es[p[k]]) PROVE FALSE
    <3>1. PICK i \in Latest(es, N) : i >= j /\ PressedAs(es[i]) = PressedAs(es[j])
      BY <1>4, <2>3
    <3>2. PICK l \in 1..M : p[l] = i
      BY <1>1, <3>1
    <3>3. l > k
      BY <1>0, <1>1, <1>2, <2>1, <2>3, <3>1, <3>2
    <3>4. QED
      BY <1>3, <2>1, <2>3, <3>1, <3>2, <3>3
  <2>4. QED
    BY <2>2, <2>3
<1>7. Bindings(es) = {B(i) : i \in last}
  BY DEF Bindings
<1>8. ResolvedTo(tb, M) = {R(k) : k \in Seen(tb, M)}
  BY DEF ResolvedTo
<1> HIDE DEF R, B, last, known, N, M
<1>9. Seen(tb, M) \subseteq 1..M
  BY DEF Seen
<1>10. QED
  BY <1>3, <1>5, <1>6, <1>7, <1>8, <1>9 DEF N, M

-----------------------------------------------------------------------------
(* The configuration file *)

\* Entries sorted by text.
LEMMA SortedIs ==
    ASSUME NEW E \in SUBSET Entry
    PROVE  /\ Sorted(E) \in Seq(E) /\ Sorted(E) \in Seq(Entry)
           /\ ByText(Sorted(E))
           /\ \A x \in E : \E i \in DOMAIN Sorted(E) : Sorted(E)[i].text = x.text
<1> DEFINE ids == [i \in DOMAIN Texts |-> i]
           S == {e.text : e \in E}
           r == Retain(ids, S)
           s == Sorted(E)
           at(k) == CHOOSE e \in E : e.text = r[k]
<1>1. ids \in Seq(DOMAIN Texts) /\ DOMAIN ids = DOMAIN Texts /\ \A i \in DOMAIN Texts : ids[i] = i
  BY TextsAssumption
<1>2. S \subseteq DOMAIN Texts /\ DOMAIN Texts \subseteq Int
  BY TextsAssumption DEF Entry
<1> HIDE DEF ids, S
<1>3. /\ r \in Seq(DOMAIN Texts) /\ ToSet(r) = S
      /\ DOMAIN r = 1..Len(r) /\ Len(r) \in Nat
  <2>1. ToSet(ids) = DOMAIN Texts
    BY <1>1 DEF ToSet
  <2>2. r \in Seq(DOMAIN Texts) /\ ToSet(r) = ToSet(ids) \intersect S
    BY <1>1, RetainElements
  <2> HIDE DEF r
  <2>3. ToSet(r) = S
    BY <1>2, <2>1, <2>2
  <2>4. QED
    BY <2>2, <2>3, LenProperties
<1>4. \A k, l \in DOMAIN r : k < l => r[k] < r[l]
  <2>1. \A k \in DOMAIN r : r[k] = Nth(ids, S, k)
    <3>1. \A k \in DOMAIN r : r[k] = ids[Nth(ids, S, k)] /\ Nth(ids, S, k) \in Kept(ids, S)
      BY <1>1, NthExists DEF Retain
    <3>2. QED
      BY <1>1, <3>1 DEF Kept
  <2>2. QED
    BY <1>1, <2>1, RetainOrder
<1>5. s = [k \in DOMAIN r |-> at(k)]
  BY DEF Sorted, ids, S
<1>6. \A k \in DOMAIN r : r[k] \in S
  BY <1>3 DEF ToSet
<1> HIDE DEF r
<1>7. \A k \in DOMAIN r : at(k) \in E /\ at(k).text = r[k]
  BY <1>6 DEF S
<1> HIDE DEF at
<1>8. DOMAIN s = DOMAIN r /\ \A k \in DOMAIN s : s[k] \in E /\ s[k].text = r[k]
  BY <1>5, <1>7
<1> HIDE DEF s
<1>9. s \in Seq(E) /\ s \in Seq(Entry)
  <2>1. s = [k \in 1..Len(r) |-> at(k)] /\ \A k \in 1..Len(r) : at(k) \in E /\ at(k) \in Entry
    BY <1>3, <1>5, <1>7
  <2>2. QED
    BY <1>3, <2>1
<1>10. ByText(s)
  BY <1>4, <1>8 DEF ByText
<1>11. \A x \in E : \E i \in DOMAIN s : s[i].text = x.text
  <2> SUFFICES ASSUME NEW x \in E PROVE \E i \in DOMAIN s : s[i].text = x.text
    OBVIOUS
  <2>1. x.text \in ToSet(r)
    BY <1>3 DEF S
  <2>2. QED
    BY <1>8, <2>1 DEF ToSet
<1>12. QED
  BY <1>9, <1>10, <1>11 DEF s

\* No entries: nothing to sort.
LEMMA SortedNothing == Sorted({}) = <<>>
<1>1. Sorted({}) \in Seq({})
  BY SortedIs
<1>2. QED
  BY <1>1, EmptySeq, ElementOfSeq, LenProperties

\* The files there are.
LEMMA FilesType ==
    /\ None.entries \in Seq(Entry) /\ Empty.entries \in Seq(Entry) /\ Bad.entries \in Seq(Entry)
    /\ Written.entries \in Seq(Entry)
    /\ \A k \in 0..(Len(Defaults) - 1) : Cut(k).entries \in Seq(Entry)
    /\ \A f \in UserFiles : f.entries \in Seq(Entry)
<1>1. Defaults \in Seq(Entry) /\ <<>> \in Seq(Entry)
  BY DefaultsAssumption
<1>2. ASSUME NEW k \in 0..(Len(Defaults) - 1) PROVE Cut(k).entries \in Seq(Entry)
  BY <1>1, PrefixGrows DEF Cut
<1>3. ASSUME NEW f \in UserFiles PROVE f.entries \in Seq(Entry)
  <2>1. PICK n \in 0..MaxConfig : f.entries \in [1..n -> Entry]
    BY <1>3 DEF UserFiles
  <2>2. n \in Nat
    BY <2>1, BoundsAssumption
  <2>3. QED
    BY <2>1, <2>2, SeqDef
<1>4. QED
  BY <1>1, <1>2, <1>3 DEF None, Empty, Bad, Written

\* What load_config can have made of an untouched or unfinished default file.
FileInv ==
    /\ load \in {"start", "missing", "created", "ready", "done"}
    /\ stage = "load" <=> load # "done"
    /\ load # "done" => declared = <<>> /\ general = "default"
    /\ file.entries \in Seq(Entry)
    /\ load = "done" /\ file \in {None, Empty, Written} =>
          /\ declared \in {<<>>, Defaults, Sorted(ToSet(Defaults))}
          /\ general = "default"

\* The files at a start.
LEMMA FileInitInv == PInit => FileInv
<1> SUFFICES ASSUME PInit PROVE FileInv
  OBVIOUS
<1>1. file.entries \in Seq(Entry)
  BY FilesType DEF PInit, FileInit
<1>2. QED
  BY <1>1 DEF PInit, FileInit, FileInv

\* A step of load_config; what it comes to is a list by text, or the defaults.
LEMMA FileStep ==
    ASSUME FileInv, FileNext, load # "done"
    PROVE  /\ file'.entries \in Seq(Entry)
           /\ load' \in {"missing", "created", "ready", "start", "done"}
           /\ load' # "done" => UNCHANGED <<declared, general>>
           /\ load' = "done" =>
                 /\ declared' \in Seq(Entry) /\ (ByText(declared') \/ declared' = Defaults)
                 /\ file' \in {None, Empty, Written} =>
                       /\ declared' \in {<<>>, Defaults, Sorted(ToSet(Defaults))}
                       /\ general' = "default"
<1>1. /\ file.entries \in Seq(Entry) /\ general = "default" /\ Defaults \in Seq(Entry)
      /\ load \in {"start", "missing", "created", "ready"}
  BY DefaultsAssumption DEF FileInv
<1>2. CASE LookForFile
  BY <1>1, <1>2 DEF LookForFile
<1>3. CASE CreateFile
  BY <1>1, <1>3, FilesType DEF CreateFile
<1>4. CASE WriteFile
  BY <1>1, <1>4, FilesType DEF WriteFile
<1>5. CASE CreateFails
  BY <1>1, <1>5 DEF CreateFails, UseDefaults
<1>6. CASE WriteFails
  BY <1>1, <1>6, FilesType DEF WriteFails, UseDefaults
<1>7. CASE ReadFile
  <2>1. CASE file \in {None, Bad}
    BY <1>1, <1>7, <2>1 DEF ReadFile, UseDefaults
  <2>2. CASE file \notin {None, Bad}
    <3>1. /\ file' = file /\ load' = "done" /\ declared' = Sorted(ToSet(file.entries))
          /\ general' = IF file.kind = "user" THEN "own" ELSE "default"
      BY <1>7, <2>2 DEF ReadFile
    <3>2. declared' \in Seq(Entry) /\ ByText(declared')
      <4>1. ToSet(file.entries) \subseteq Entry
        BY <1>1, ElementOfSeq, LenProperties DEF ToSet
      <4>2. QED
        BY <3>1, <4>1, SortedIs
    <3>3. CASE file = Empty
      <4>1. ToSet(file.entries) = {}
        BY <3>3 DEF Empty, ToSet
      <4>2. QED
        BY <1>1, <3>1, <3>2, <3>3, <4>1, SortedNothing DEF Empty
    <3>4. CASE file = Written
      BY <1>1, <3>1, <3>2, <3>4 DEF Written
    <3>5. CASE file \notin {None, Empty, Written}
      BY <1>1, <3>1, <3>2, <3>5
    <3>6. QED
      BY <2>2, <3>3, <3>4, <3>5
  <2>3. QED
    BY <2>1, <2>2
<1>8. CASE OtherInstance
  BY <1>1, <1>8, FilesType DEF OtherInstance
<1>9. QED
  BY <1>2, <1>3, <1>4, <1>5, <1>6, <1>7, <1>8 DEF FileNext

-----------------------------------------------------------------------------
(* The invariant of the table *)

\* The entries and the table of them, at every stage of the start.
TableInv ==
    /\ declared \in Seq(Entry) /\ plugged \in Seq(Entry) /\ table \in Seq(Bound)
    /\ stage \in {"load", "scripts", "natives", "config", "defaults", "plugins", "resolve",
                  "running", "hooks", "failed"}
    /\ stage \in {"load", "scripts", "natives"} => table = <<>>
    /\ stage \notin {"resolve", "running", "hooks"} => resolved = {}
    /\ stage = "config" =>
          /\ Walks(declared, todo)
          /\ \A i \in 1..At(declared, todo) : Valid(declared[i])
          /\ Tabulates(table, declared \o plugged, At(declared, todo))
    /\ stage = "defaults" =>
          /\ declared = <<>> /\ Walks(Defaults, todo)
          /\ Tabulates(table, Defaults \o plugged, At(Defaults, todo))
    /\ stage = "plugins" =>
          /\ Walks(plugged, todo)
          /\ Tabulates(table, Source \o plugged, Len(Source) + At(plugged, todo))
    /\ stage \in {"resolve", "running", "hooks"} =>
          Tabulates(table, Source \o plugged, Len(Source \o plugged))
    /\ stage = "resolve" => Walks(table, todo) /\ resolved = ResolvedTo(table, At(table, todo))
    /\ stage \in {"running", "hooks"} => resolved = ResolvedTo(table, Len(table))

\* Two lists one after the other.
LEMMA ConcatAt ==
    ASSUME NEW T, NEW s \in Seq(T), NEW t \in Seq(T)
    PROVE  /\ s \o t \in Seq(T) /\ Len(s \o t) = Len(s) + Len(t)
           /\ \A i \in 1..Len(s) : (s \o t)[i] = s[i]
           /\ \A i \in 1..Len(t) : (s \o t)[Len(s) + i] = t[i]
OBVIOUS

\* A table of no entries is empty; one of a last entry that is valid is not.
LEMMA TableEmpty ==
    ASSUME NEW es, NEW tb \in Seq(Bound), NEW n \in Nat, Tabulates(tb, es, n)
    PROVE  /\ n = 0 => tb = <<>>
           /\ n # 0 /\ Valid(es[n]) => tb # <<>>
<1>1. PICK p \in [1..Len(tb) -> Latest(es, n)] :
        \A i \in Latest(es, n) : \E k \in 1..Len(tb) : p[k] = i
  BY DEF Tabulates
<1>2. Len(tb) \in Nat
  BY LenProperties
<1>3. ASSUME n = 0 PROVE tb = <<>>
  <2>1. Latest(es, n) = {}
    BY <1>3 DEF Latest
  <2>2. 1..Len(tb) = {}
    BY <1>1, <2>1
  <2>3. QED
    BY <1>2, <2>2, EmptySeq
<1>4. ASSUME n # 0, Valid(es[n]) PROVE tb # <<>>
  <2>1. n \in Latest(es, n)
    BY <1>4 DEF Latest
  <2>2. PICK k \in 1..Len(tb) : p[k] = n
    BY <1>1, <2>1
  <2>3. QED
    BY <1>2, <2>2, EmptySeq
<1>5. QED
  BY <1>3, <1>4

\* The first entry of a start.
LEMMA TableInitInv == PInit => TableInv
<1> SUFFICES ASSUME PInit PROVE TableInv
  OBVIOUS
<1>1. declared = <<>> /\ plugged = <<>> /\ table = <<>> /\ stage = "load" /\ resolved = {}
  BY DEF PInit
<1>2. declared \in Seq(Entry) /\ plugged \in Seq(Entry) /\ table \in Seq(Bound)
  BY <1>1, EmptySeq
<1>3. QED
  BY <1>1, <1>2 DEF TableInv

\* keybind_table, one entry of the config or of the defaults.
LEMMA InsertConfigInv == TableInv /\ InsertConfig => TableInv'
<1> SUFFICES ASSUME TableInv, InsertConfig PROVE TableInv'
  OBVIOUS
<1>1. /\ stage \in {"config", "defaults"} /\ todo # <<>> /\ todo' = Tail(todo)
      /\ UNCHANGED <<declared, plugged, resolved>>
      /\ IF Valid(Head(todo)) THEN table' = Inserted(table, Head(todo)) /\ UNCHANGED stage
                              ELSE stage' = "failed" /\ UNCHANGED table
  BY DEF InsertConfig
<1>2. /\ declared \in Seq(Entry) /\ plugged \in Seq(Entry) /\ table \in Seq(Bound)
      /\ resolved = {} /\ Defaults \in Seq(Entry)
  BY <1>1, DefaultsAssumption DEF TableInv
<1> DEFINE list == IF stage = "config" THEN declared ELSE Defaults
           es == list \o plugged
           n == At(list, todo)
<1>3. /\ list \in Seq(Entry) /\ Walks(list, todo) /\ Tabulates(table, es, n)
      /\ stage = "config" => \A i \in 1..n : Valid(declared[i])
      /\ stage = "defaults" => declared = <<>>
  BY <1>1, <1>2 DEF TableInv
<1> HIDE DEF list
<1>4. /\ n \in 0..(Len(list) - 1) /\ Head(todo) = list[n + 1] /\ Walks(list, Tail(todo))
      /\ At(list, Tail(todo)) = n + 1
  BY <1>1, <1>3, WalkOn
<1>5. /\ es \in Seq(Entry) /\ n \in 0..(Len(es) - 1) /\ es[n + 1] = list[n + 1]
  BY <1>2, <1>3, <1>4, ConcatAt, LenProperties
<1> HIDE DEF es, n
<1>6. CASE ~Valid(Head(todo))
  BY <1>1, <1>2, <1>6 DEF TableInv
<1>7. CASE Valid(Head(todo))
  <2>1. table' \in Seq(Bound) /\ Tabulates(table', es, n + 1) /\ stage' = stage
    BY <1>1, <1>2, <1>3, <1>4, <1>5, <1>7, InsertedTabulates
  <2>2. Walks(list, todo') /\ At(list, todo') = n + 1
    BY <1>1, <1>4
  <2>3. CASE stage = "config"
    <3>1. list = declared /\ es = declared' \o plugged'
      BY <1>1, <2>3 DEF list, es
    <3>2. \A i \in 1..(n + 1) : Valid(declared[i])
      BY <1>3, <1>4, <1>7, <2>3, <3>1
    <3>3. QED
      BY <1>1, <1>2, <2>1, <2>2, <2>3, <3>1, <3>2 DEF TableInv
  <2>4. CASE stage = "defaults"
    <3>1. list = Defaults /\ es = Defaults \o plugged'
      BY <1>1, <2>4 DEF list, es
    <3>2. QED
      BY <1>1, <1>2, <1>3, <2>1, <2>2, <2>4, <3>1 DEF TableInv
  <2>5. QED
    BY <1>1, <2>3, <2>4
<1>8. QED
  BY <1>6, <1>7

\* The config is inserted: the plugins are next, or the defaults.
LEMMA ConfigDoneInv == TableInv /\ ConfigDone => TableInv'
<1> SUFFICES ASSUME TableInv, ConfigDone PROVE TableInv'
  OBVIOUS
<1>1. /\ stage \in {"config", "defaults"} /\ todo = <<>>
      /\ IF table # <<>> THEN stage' = "plugins" /\ todo' = plugged
                         ELSE stage' = "defaults" /\ todo' = Defaults
      /\ UNCHANGED <<declared, plugged, table, resolved>>
  BY DEF ConfigDone
<1>2. /\ declared \in Seq(Entry) /\ plugged \in Seq(Entry) /\ table \in Seq(Bound)
      /\ resolved = {} /\ Defaults \in Seq(Entry)
  BY <1>1, DefaultsAssumption DEF TableInv
<1>3. CASE table # <<>>
  <2>1. Tabulates(table, Source \o plugged, Len(Source))
    <3>1. CASE stage = "config"
      <4>1. /\ At(declared, todo) = Len(declared)
            /\ Tabulates(table, declared \o plugged, Len(declared))
        BY <1>1, <1>2, <3>1, WalkEnds DEF TableInv
      <4>2. declared # <<>>
        BY <1>2, <1>3, <4>1, TableEmpty, EmptySeq
      <4>3. QED
        BY <4>1, <4>2 DEF Source
    <3>2. CASE stage = "defaults"
      <4>1. /\ declared = <<>> /\ At(Defaults, todo) = Len(Defaults)
            /\ Tabulates(table, Defaults \o plugged, Len(Defaults))
        BY <1>1, <1>2, <3>2, WalkEnds DEF TableInv
      <4>2. QED
        BY <4>1 DEF Source
    <3>3. QED
      BY <1>1, <3>1, <3>2
  <2>2. Walks(plugged, plugged) /\ At(plugged, plugged) = 0
    BY <1>2, WalkBegins
  <2>3. Len(Source) + 0 = Len(Source)
    BY <1>2, LenProperties DEF Source
  <2>4. Source' = Source
    BY <1>1 DEF Source
  <2>5. QED
    BY <1>1, <1>2, <1>3, <2>1, <2>2, <2>3, <2>4 DEF TableInv
<1>4. CASE table = <<>>
  <2>1. declared = <<>>
    <3>1. CASE stage = "config"
      <4>1. /\ At(declared, todo) = Len(declared)
            /\ Tabulates(table, declared \o plugged, Len(declared))
            /\ \A i \in 1..Len(declared) : Valid(declared[i])
        BY <1>1, <1>2, <3>1, WalkEnds DEF TableInv
      <4>2. SUFFICES ASSUME declared # <<>> PROVE FALSE
        OBVIOUS
      <4>3. Len(declared) \in Nat \ {0} /\ Len(declared) \in 1..Len(declared)
        BY <1>2, <4>2, EmptySeq, LenProperties
      <4>4. (declared \o plugged)[Len(declared)] = declared[Len(declared)]
        BY <1>2, <4>3, ConcatAt
      <4>5. QED
        BY <1>2, <1>4, <4>1, <4>3, <4>4, TableEmpty
    <3>2. CASE stage = "defaults"
      BY <3>2 DEF TableInv
    <3>3. QED
      BY <1>1, <3>1, <3>2
  <2>2. Walks(Defaults, Defaults) /\ At(Defaults, Defaults) = 0
    BY <1>2, WalkBegins
  <2>3. Tabulates(<<>>, Defaults \o plugged, 0)
    BY NothingTabulates
  <2>4. QED
    BY <1>1, <1>2, <1>4, <2>1, <2>2, <2>3 DEF TableInv
<1>5. QED
  BY <1>3, <1>4

\* One entry of a plugin.
LEMMA InsertPluginInv == TableInv /\ InsertPlugin => TableInv'
<1> SUFFICES ASSUME TableInv, InsertPlugin PROVE TableInv'
  OBVIOUS
<1>1. /\ stage = "plugins" /\ todo # <<>> /\ todo' = Tail(todo)
      /\ table' = IF Valid(Head(todo)) THEN Inserted(table, Head(todo)) ELSE table
      /\ UNCHANGED <<declared, plugged, stage, resolved>>
  BY DEF InsertPlugin
<1> DEFINE es == Source \o plugged
           k == At(plugged, todo)
           n == Len(Source) + k
<1>2. /\ declared \in Seq(Entry) /\ plugged \in Seq(Entry) /\ table \in Seq(Bound)
      /\ resolved = {} /\ Source \in Seq(Entry)
      /\ Walks(plugged, todo) /\ Tabulates(table, es, n)
  BY <1>1, DefaultsAssumption DEF TableInv, Source
<1>3. /\ k \in 0..(Len(plugged) - 1) /\ Head(todo) = plugged[k + 1] /\ Walks(plugged, Tail(todo))
      /\ At(plugged, Tail(todo)) = k + 1
  BY <1>1, <1>2, WalkOn
<1>4. /\ Len(Source) \in Nat /\ Len(plugged) \in Nat /\ k + 1 \in 1..Len(plugged)
      /\ n + 1 = Len(Source) + (k + 1)
  BY <1>2, <1>3, LenProperties
<1>5. /\ es \in Seq(Entry) /\ n \in 0..(Len(es) - 1) /\ es[n + 1] = Head(todo)
  <2>1. es[Len(Source) + (k + 1)] = plugged[k + 1] /\ Len(es) = Len(Source) + Len(plugged)
        /\ es \in Seq(Entry)
    BY <1>2, <1>4, ConcatAt
  <2> HIDE DEF es, k
  <2>2. QED
    BY <1>3, <1>4, <2>1
<1> HIDE DEF es, n, k
<1>6. table' \in Seq(Bound) /\ Tabulates(table', es, n + 1)
  <2>1. CASE Valid(Head(todo))
    BY <1>1, <1>2, <1>5, <2>1, InsertedTabulates
  <2>2. CASE ~Valid(Head(todo))
    BY <1>1, <1>2, <1>5, <2>2, SkippedTabulates
  <2>3. QED
    BY <2>1, <2>2
<1>7. es = Source' \o plugged' /\ n + 1 = Len(Source') + At(plugged', todo')
  BY <1>1, <1>3, <1>4 DEF es, Source
<1>8. QED
  BY <1>1, <1>2, <1>3, <1>6, <1>7 DEF TableInv

\* The plugins are done: the chords are resolved next.
LEMMA PluginsDoneInv == TableInv /\ PluginsDone => TableInv'
<1> SUFFICES ASSUME TableInv, PluginsDone PROVE TableInv'
  OBVIOUS
<1>1. /\ stage = "plugins" /\ todo = <<>> /\ stage' = "resolve" /\ todo' = table
      /\ UNCHANGED <<declared, plugged, table, resolved>>
  BY DEF PluginsDone
<1>2. /\ declared \in Seq(Entry) /\ plugged \in Seq(Entry) /\ table \in Seq(Bound)
      /\ resolved = {} /\ Source \in Seq(Entry)
      /\ Walks(plugged, todo) /\ Tabulates(table, Source \o plugged, Len(Source) + At(plugged, todo))
  BY <1>1, DefaultsAssumption DEF TableInv, Source
<1>3. Len(Source) + At(plugged, todo) = Len(Source \o plugged)
  BY <1>1, <1>2, WalkEnds, ConcatAt
<1>4. Walks(table, table) /\ At(table, table) = 0
  BY <1>2, WalkBegins
<1>5. ResolvedTo(table, 0) = {}
  BY DEF ResolvedTo, Seen
<1>6. Source' = Source
  BY <1>1 DEF Source
<1>7. QED
  BY <1>1, <1>2, <1>3, <1>4, <1>5, <1>6 DEF TableInv

\* One chord is resolved.
LEMMA ResolveOneInv == TableInv /\ ResolveOne => TableInv'
<1> SUFFICES ASSUME TableInv, ResolveOne PROVE TableInv'
  OBVIOUS
<1>1. /\ stage = "resolve" /\ todo # <<>> /\ todo' = Tail(todo)
      /\ resolved' = IF Keysym[Head(todo).chord.name] = NoKeysym THEN resolved
                     ELSE Resolve(resolved, Head(todo))
      /\ UNCHANGED <<declared, plugged, stage, table>>
  BY DEF ResolveOne
<1> DEFINE n == At(table, todo)
<1>2. /\ declared \in Seq(Entry) /\ plugged \in Seq(Entry) /\ table \in Seq(Bound)
      /\ Tabulates(table, Source \o plugged, Len(Source \o plugged))
      /\ Walks(table, todo) /\ resolved = ResolvedTo(table, n)
  BY <1>1 DEF TableInv
<1>3. /\ n \in Nat /\ Head(todo) = table[n + 1] /\ Walks(table, Tail(todo))
      /\ At(table, Tail(todo)) = n + 1
  BY <1>1, <1>2, WalkOn
<1> HIDE DEF n
<1>4. resolved' = ResolvedTo(table, n + 1)
  <2>1. Keysym[Head(todo).chord.name] = SymOf(table[n + 1]).sym
    BY <1>3 DEF SymOf
  <2>2. QED
    BY <1>1, <1>2, <1>3, <2>1, ResolvedOn
<1>5. Source' = Source
  BY <1>1 DEF Source
<1>6. QED
  BY <1>1, <1>2, <1>3, <1>4, <1>5 DEF TableInv

\* All are resolved.
LEMMA StartedInv == TableInv /\ Started => TableInv'
<1> SUFFICES ASSUME TableInv, Started PROVE TableInv'
  OBVIOUS
<1>1. /\ stage = "resolve" /\ todo = <<>> /\ stage' = "running"
      /\ UNCHANGED <<declared, plugged, todo, table, resolved>>
  BY DEF Started
<1>2. /\ declared \in Seq(Entry) /\ plugged \in Seq(Entry) /\ table \in Seq(Bound)
      /\ Tabulates(table, Source \o plugged, Len(Source \o plugged))
      /\ Walks(table, todo) /\ resolved = ResolvedTo(table, At(table, todo))
  BY <1>1 DEF TableInv
<1>3. At(table, todo) = Len(table)
  BY <1>1, <1>2, WalkEnds
<1>4. Source' = Source
  BY <1>1 DEF Source
<1>5. QED
  BY <1>1, <1>2, <1>3, <1>4 DEF TableInv

-----------------------------------------------------------------------------
(* What the files that load leave behind *)

File == ScriptFile \union NativeFile

\* What has been made of the first files of each kind.
Loaded(ss, ns) ==
    /\ host = Retain(ss, Sound)
    /\ reported = Retain(ss \o ns, Reportable)
    /\ plugged = Entries(Retain(ss, Sound) \o Retain(ns, Sound))

LoadInv ==
    /\ scripts \in Seq(ScriptFile) /\ natives \in Seq(NativeFile)
    /\ stage = "load" => Loaded(<<>>, <<>>) /\ todo = <<>> /\ table = <<>> /\ resolved = {}
    /\ stage = "scripts" =>
          /\ Walks(scripts, todo)
          /\ Loaded(SubSeq(scripts, 1, At(scripts, todo)), <<>>)
    /\ stage = "natives" =>
          /\ Walks(natives, todo)
          /\ Loaded(scripts, SubSeq(natives, 1, At(natives, todo)))
    /\ stage \notin {"load", "scripts", "natives"} => Loaded(scripts, natives)

\* Nothing retained, nothing registered.
LEMMA NothingLoaded ==
    /\ \A S : Retain(<<>>, S) = <<>>
    /\ Entries(<<>>) = <<>>
    /\ <<>> \o <<>> = <<>>
<1>1. ASSUME NEW S PROVE Retain(<<>>, S) = <<>>
  <2>1. <<>> \in Seq({}) /\ Len(<<>>) = 0
    BY EmptySeq
  <2>2. Retain(<<>>, S) \in Seq({})
    BY <2>1, RetainElements
  <2> DEFINE r == Retain(<<>>, S)
  <2> HIDE DEF r
  <2>3. r \in Seq({})
    BY <2>2 DEF r
  <2>4. r = <<>>
    BY <2>3, EmptySeq, ElementOfSeq, LenProperties
  <2>5. QED
    BY <2>4 DEF r
<1>2. Entries(<<>>) = <<>>
  <2>1. [i \in DOMAIN <<>> |-> <<>>[i].binds] = <<>>
    OBVIOUS
  <2>2. QED
    BY <2>1 DEF Entries, FlattenSeq
<1>3. QED
  BY <1>1, <1>2

\* A file has its entries, which are some.
LEMMA BindsType ==
    ASSUME NEW fs \in Seq(File)
    PROVE  /\ [i \in DOMAIN fs |-> fs[i].binds] \in Seq(Seq(Entry))
           /\ Len([i \in DOMAIN fs |-> fs[i].binds]) = Len(fs)
<1>1. \A f \in File : f.binds \in Seq(Entry)
  BY FilesAssumption DEF File
<1>2. DOMAIN fs = 1..Len(fs) /\ Len(fs) \in Nat /\ \A i \in 1..Len(fs) : fs[i].binds \in Seq(Entry)
  BY <1>1, ElementOfSeq, LenProperties
<1>3. QED
  BY <1>2

\* The entries of some files.
LEMMA EntriesType ==
    ASSUME NEW fs \in Seq(File)
    PROVE  Entries(fs) \in Seq(Entry)
<1> DEFINE b == [i \in DOMAIN fs |-> fs[i].binds]
<1>1. b \in Seq(Seq(Entry)) /\ <<>> \in Seq(Entry)
  BY BindsType, EmptySeq
<1> HIDE DEF b
<1>2. FlattenSeq(b) \in Seq(Entry)
  BY <1>1, FlattenAppend
<1>3. QED
  BY <1>2 DEF Entries, b

\* The entries of one more file.
LEMMA EntriesAppend ==
    ASSUME NEW fs \in Seq(File), NEW f \in File
    PROVE  /\ Entries(fs) \in Seq(Entry)
           /\ Entries(Append(fs, f)) = Entries(fs) \o f.binds
<1> DEFINE b == [i \in DOMAIN fs |-> fs[i].binds]
           g == Append(fs, f)
           c == [i \in DOMAIN g |-> g[i].binds]
<1>1. /\ g \in Seq(File) /\ Len(g) = Len(fs) + 1 /\ g[Len(fs) + 1] = f
      /\ \A i \in 1..Len(fs) : g[i] = fs[i]
  BY AppendProperties
<1>2. f.binds \in Seq(Entry) /\ b \in Seq(Seq(Entry)) /\ Len(b) = Len(fs) /\ Len(fs) \in Nat
      /\ DOMAIN fs = 1..Len(fs)
  BY FilesAssumption, BindsType, LenProperties DEF File
<1> HIDE DEF g
<1>3. c \in Seq(Seq(Entry)) /\ Len(c) = Len(fs) + 1 /\ DOMAIN g = 1..(Len(fs) + 1)
  BY <1>1, BindsType, LenProperties
<1>4. /\ Append(b, f.binds) \in Seq(Seq(Entry)) /\ Len(Append(b, f.binds)) = Len(fs) + 1
      /\ Append(b, f.binds)[Len(fs) + 1] = f.binds
      /\ \A i \in 1..Len(fs) : Append(b, f.binds)[i] = b[i]
  <2> HIDE DEF b
  <2>1. QED
    BY <1>2, AppendProperties
<1> DEFINE a == Append(b, f.binds)
<1>5. \A i \in 1..(Len(fs) + 1) : a[i] = c[i]
  <2>1. a[Len(fs) + 1] = c[Len(fs) + 1]
    BY <1>1, <1>2, <1>3, <1>4
  <2>2. \A i \in 1..Len(fs) : a[i] = c[i]
    <3>1. \A i \in 1..Len(fs) : a[i] = b[i] /\ b[i] = fs[i].binds /\ c[i] = g[i].binds
      BY <1>2, <1>3, <1>4
    <3> HIDE DEF a, b, c
    <3>2. QED
      BY <1>1, <3>1
  <2> HIDE DEF a, b, c
  <2>3. QED
    BY <1>2, <2>1, <2>2
<1>6. a = c
  <2>1. a \in Seq(Seq(Entry)) /\ Len(a) = Len(fs) + 1
    BY <1>4
  <2> HIDE DEF a, b, c
  <2>2. QED
    BY <1>2, <1>3, <1>5, <2>1
<1>7. FlattenSeq(b) \in Seq(Entry) /\ FlattenSeq(a) = FlattenSeq(b) \o f.binds
  <2> HIDE DEF b
  <2>1. QED
    BY <1>2, FlattenAppend
<1>8. QED
  BY <1>6, <1>7 DEF Entries, g

\* One more script: it leaves its report, and nothing else if it fails.
LEMMA ScriptLoads ==
    ASSUME NEW ss \in Seq(ScriptFile), NEW f \in ScriptFile, Loaded(ss, <<>>), Report(f),
           host' = IF f.loads THEN Append(host, f) ELSE host,
           plugged' = IF f.loads THEN plugged \o f.binds ELSE plugged
    PROVE  /\ Loaded(Append(ss, f), <<>>)'
           /\ plugged' \in Seq(Entry)
<1>1. /\ host = Retain(ss, Sound) /\ reported = Retain(ss \o <<>>, Reportable)
      /\ plugged = Entries(Retain(ss, Sound) \o Retain(<<>>, Sound))
  BY DEF Loaded
<1>2. f \in File /\ ss \in Seq(File) /\ (f \in Sound <=> f.loads) /\ (f \in Reportable <=> Faulty(f))
  BY DEF File, Sound, Reportable
<1>3. ss \o <<>> = ss /\ Append(ss, f) \o <<>> = Append(ss, f) /\ Append(ss, f) \in Seq(File)
  BY <1>2, ConcatEmptySeq, AppendProperties
<1>4. Retain(ss, Sound) \in Seq(File) /\ Retain(<<>>, Sound) = <<>>
  BY <1>2, RetainElements, NothingLoaded
<1>5. Retain(Append(ss, f), Sound) = IF f.loads THEN Append(Retain(ss, Sound), f)
                                      ELSE Retain(ss, Sound)
  BY <1>2, RetainAppend
<1>6. Retain(Append(ss, f), Reportable) = IF Faulty(f) THEN Append(Retain(ss, Reportable), f)
                                           ELSE Retain(ss, Reportable)
  BY <1>2, RetainAppend
<1>7. reported' = Retain(Append(ss, f) \o <<>>, Reportable)
  BY <1>1, <1>3, <1>6 DEF Report
<1> DEFINE r == Retain(ss, Sound)
           u == Retain(Append(ss, f), Sound)
<1>8. u \in Seq(File)
  BY <1>3, RetainElements
<1> HIDE DEF r, u
<1>9. /\ r \o <<>> = r /\ u \o <<>> = u
      /\ Entries(r) \in Seq(Entry) /\ Entries(Append(r, f)) = Entries(r) \o f.binds
      /\ Entries(u) \in Seq(Entry)
  BY <1>2, <1>4, <1>8, ConcatEmptySeq, EntriesAppend DEF r
<1>10. plugged' = Entries(u) /\ host' = u
  BY <1>1, <1>4, <1>5, <1>9 DEF r, u
<1>11. QED
  BY <1>4, <1>7, <1>9, <1>10 DEF Loaded, u

\* An element at the end of two lists.
LEMMA ConcatAppend ==
    ASSUME NEW T, NEW s \in Seq(T), NEW t \in Seq(T), NEW x \in T
    PROVE  s \o t \in Seq(T) /\ s \o Append(t, x) = Append(s \o t, x)
OBVIOUS

\* One more native plugin.
LEMMA NativeLoads ==
    ASSUME NEW ss \in Seq(ScriptFile), NEW ns \in Seq(NativeFile), NEW f \in NativeFile,
           Loaded(ss, ns), Report(f), host' = host,
           plugged' = IF f.loads THEN plugged \o f.binds ELSE plugged
    PROVE  /\ Loaded(ss, Append(ns, f))'
           /\ plugged' \in Seq(Entry)
<1>1. /\ host = Retain(ss, Sound) /\ reported = Retain(ss \o ns, Reportable)
      /\ plugged = Entries(Retain(ss, Sound) \o Retain(ns, Sound))
  BY DEF Loaded
<1>2. /\ f \in File /\ ss \in Seq(File) /\ ns \in Seq(File)
      /\ (f \in Sound <=> f.loads) /\ (f \in Reportable <=> Faulty(f))
  BY DEF File, Sound, Reportable
<1>3. ss \o ns \in Seq(File) /\ ss \o Append(ns, f) = Append(ss \o ns, f)
  BY <1>2, ConcatAppend
<1> DEFINE q == Retain(ss, Sound)
           r == Retain(ns, Sound)
           u == Retain(Append(ns, f), Sound)
<1>4. /\ q \in Seq(File) /\ r \in Seq(File)
      /\ u = IF f.loads THEN Append(r, f) ELSE r
  <2>1. q \in Seq(File) /\ r \in Seq(File)
    BY <1>2, RetainElements
  <2>2. u = IF f \in Sound THEN Append(r, f) ELSE r
    BY <1>2, RetainAppend
  <2>3. QED
    BY <1>2, <2>1, <2>2
<1>5. Retain(Append(ss \o ns, f), Reportable) =
        IF Faulty(f) THEN Append(Retain(ss \o ns, Reportable), f) ELSE Retain(ss \o ns, Reportable)
  BY <1>2, <1>3, RetainAppend
<1>6. reported' = Retain(ss \o Append(ns, f), Reportable)
  BY <1>1, <1>3, <1>5 DEF Report
<1> HIDE DEF q, r, u
<1>7. q \o r \in Seq(File) /\ q \o u = IF f.loads THEN Append(q \o r, f) ELSE q \o r
  <2>1. q \o r \in Seq(File) /\ q \o Append(r, f) = Append(q \o r, f)
    BY <1>2, <1>4, ConcatAppend
  <2>2. QED
    BY <1>4, <2>1
<1> DEFINE w == q \o r
<1> HIDE DEF w
<1>8. w \in Seq(File) /\ Entries(w) \in Seq(Entry) /\ Entries(Append(w, f)) = Entries(w) \o f.binds
      /\ Append(w, f) \in Seq(File) /\ Entries(Append(w, f)) \in Seq(Entry)
  BY <1>2, <1>7, EntriesAppend, AppendProperties DEF w
<1>9. plugged = Entries(w) /\ host' = q
  BY <1>1 DEF w, q, r
<1>10. plugged' = Entries(q \o u)
  BY <1>7, <1>8, <1>9 DEF w
<1>11. plugged' \in Seq(Entry)
  BY <1>7, <1>8, <1>10 DEF w
<1>12. QED
  BY <1>6, <1>9, <1>10, <1>11 DEF Loaded, q, u

-----------------------------------------------------------------------------
(* The invariant of a start *)

\* What is left of a list without repetitions.
LEMMA TailDistinct ==
    ASSUME NEW T, NEW s \in Seq(T), s # <<>>, Distinct(s)
    PROVE  /\ Tail(s) \in Seq(T) /\ Distinct(Tail(s)) /\ Head(s) \in ToSet(s) /\ Head(s) \in T
           /\ ToSet(Tail(s)) = ToSet(s) \ {Head(s)}
<1> DEFINE t == Tail(s)
<1>1. /\ Len(s) \in Nat \ {0} /\ Head(s) = s[1] /\ DOMAIN s = 1..Len(s) /\ s[1] \in T
  BY EmptySeq, LenProperties, ElementOfSeq
<1>2. /\ t \in Seq(T) /\ Len(t) = Len(s) - 1 /\ DOMAIN t = 1..(Len(s) - 1)
      /\ \A i \in 1..(Len(s) - 1) : t[i] = s[i + 1]
  BY HeadTailProperties, LenProperties
<1> HIDE DEF t
<1>3. Distinct(t)
  <2>1. ASSUME NEW i \in 1..(Len(s) - 1), NEW j \in 1..(Len(s) - 1), t[i] = t[j] PROVE i = j
    <3>1. i + 1 \in 1..Len(s) /\ j + 1 \in 1..Len(s) /\ s[i + 1] = s[j + 1]
      BY <1>1, <1>2, <2>1
    <3>2. i + 1 = j + 1
      BY <1>1, <3>1 DEF Distinct
    <3>3. QED
      BY <3>2
  <2>2. QED
    BY <1>2, <2>1 DEF Distinct
<1>4. \A x : x \in ToSet(t) <=> x \in ToSet(s) /\ x # s[1]
  <2> SUFFICES ASSUME NEW x PROVE x \in ToSet(t) <=> x \in ToSet(s) /\ x # s[1]
    OBVIOUS
  <2>1. ASSUME x \in ToSet(t) PROVE x \in ToSet(s) /\ x # s[1]
    BY <1>1, <1>2, <2>1 DEF ToSet, Distinct
  <2>2. ASSUME x \in ToSet(s), x # s[1] PROVE x \in ToSet(t)
    <3>1. PICK i \in 1..Len(s) : s[i] = x
      BY <1>1, <2>2 DEF ToSet
    <3>2. i - 1 \in 1..(Len(s) - 1) /\ (i - 1) + 1 = i
      BY <1>1, <2>2, <3>1
    <3>3. t[i - 1] = x
      BY <1>2, <3>1, <3>2
    <3>4. QED
      BY <1>2, <3>2, <3>3 DEF ToSet
  <2>3. QED
    BY <2>1, <2>2
<1>5. QED
  BY <1>1, <1>2, <1>3, <1>4 DEF t, ToSet

\* Every hook was called for every window, except for those to come.
HooksInv ==
    /\ host \in Seq(ScriptFile)
    /\ called \in Seq(Nat) /\ Len(called) = Len(host)
    /\ opened \in Nat
    /\ stage \notin {"running", "hooks"} => opened = 0
    /\ stage = "running" => todo = <<>>
    /\ stage = "hooks" =>
          /\ todo \in Seq(1..Len(host)) /\ Distinct(todo)
          /\ \A i \in ToSet(todo) : host[i].hook # "none"
    /\ \A i \in 1..Len(host) :
          called[i] = IF host[i].hook = "none" THEN 0
                      ELSE IF stage = "hooks" /\ i \in ToSet(todo) THEN opened - 1
                      ELSE opened

StartInv == TableInv /\ FileInv /\ LoadInv /\ HooksInv

\* A start begins with nothing done.
LEMMA StartInit == PInit => StartInv
<1> SUFFICES ASSUME PInit PROVE StartInv
  OBVIOUS
<1>1. /\ stage = "load" /\ todo = <<>> /\ table = <<>> /\ resolved = {} /\ plugged = <<>>
      /\ host = <<>> /\ reported = <<>> /\ called = <<>> /\ opened = 0
  BY DEF PInit
<1>2. scripts \in Seq(ScriptFile) /\ natives \in Seq(NativeFile)
  <2>1. PICK n \in 0..MaxScripts : scripts \in [1..n -> ScriptFile]
    BY DEF PInit
  <2>2. PICK m \in 0..MaxNatives : natives \in [1..m -> NativeFile]
    BY DEF PInit
  <2>3. n \in Nat /\ m \in Nat
    BY FilesAssumption
  <2>4. QED
    BY <2>1, <2>2, <2>3, SeqDef
<1>3. Loaded(<<>>, <<>>)
  BY <1>1, NothingLoaded DEF Loaded
<1>4. LoadInv
  BY <1>1, <1>2, <1>3 DEF LoadInv
<1>5. HooksInv
  <2>1. host \in Seq(ScriptFile) /\ called \in Seq(Nat) /\ Len(host) = 0 /\ Len(called) = 0
    BY <1>1, EmptySeq
  <2>2. 1..Len(host) = {}
    BY <2>1
  <2>3. QED
    BY <1>1, <2>1, <2>2 DEF HooksInv
<1>6. QED
  BY <1>4, <1>5, TableInitInv, FileInitInv DEF StartInv

\* Loading the config makes the entries the table is built from.
LEMMA LoadStepInv == StartInv /\ LoadStep => StartInv'
<1> SUFFICES ASSUME StartInv, LoadStep PROVE StartInv'
  OBVIOUS
<1>1. /\ stage = "load" /\ FileNext
      /\ IF load' = "done" THEN stage' = "scripts" /\ todo' = scripts
                           ELSE UNCHANGED <<stage, todo>>
      /\ UNCHANGED <<plugged, table, resolved, scripts, natives, host, reported, called, opened>>
  BY DEF LoadStep, pluginVars
<1>2. /\ TableInv /\ FileInv /\ LoadInv /\ HooksInv
      /\ load # "done" /\ declared = <<>> /\ general = "default"
      /\ plugged \in Seq(Entry) /\ declared \in Seq(Entry)
      /\ table = <<>> /\ resolved = {} /\ table \in Seq(Bound)
      /\ Loaded(<<>>, <<>>) /\ todo = <<>>
      /\ scripts \in Seq(ScriptFile) /\ natives \in Seq(NativeFile)
  BY <1>1 DEF StartInv, TableInv, FileInv, LoadInv
<1>3. /\ file'.entries \in Seq(Entry)
      /\ load' \in {"missing", "created", "ready", "start", "done"}
      /\ load' # "done" => UNCHANGED <<declared, general>>
      /\ load' = "done" =>
            /\ declared' \in Seq(Entry)
            /\ file' \in {None, Empty, Written} =>
                  /\ declared' \in {<<>>, Defaults, Sorted(ToSet(Defaults))}
                  /\ general' = "default"
  BY <1>1, <1>2, FileStep
<1>4. TableInv'
  <2>1. CASE load' = "done"
    BY <1>1, <1>2, <1>3, <2>1 DEF TableInv
  <2>2. CASE load' # "done"
    BY <1>1, <1>2, <1>3, <2>2 DEF TableInv
  <2>3. QED
    BY <2>1, <2>2
<1>5. FileInv'
  <2>1. stage' = "load" <=> load' # "done"
    BY <1>1
  <2>2. QED
    BY <1>2, <1>3, <2>1 DEF FileInv
<1>6. LoadInv'
  <2>1. /\ host' = Retain(<<>>, Sound) /\ reported' = Retain(<<>> \o <<>>, Reportable)
        /\ plugged' = Entries(Retain(<<>>, Sound) \o Retain(<<>>, Sound))
    BY <1>1, <1>2 DEF Loaded
  <2>2. CASE load' = "done"
    <3>1. Walks(scripts', todo') /\ At(scripts', todo') = 0 /\ SubSeq(scripts', 1, 0) = <<>>
      BY <1>1, <1>2, <2>2, WalkBegins, PrefixEnds
    <3>2. QED
      BY <1>1, <1>2, <2>1, <2>2, <3>1 DEF LoadInv, Loaded
  <2>3. CASE load' # "done"
    BY <1>1, <1>2, <2>1, <2>3 DEF LoadInv, Loaded
  <2>4. QED
    BY <2>2, <2>3
<1>7. HooksInv'
  BY <1>1, <1>2 DEF HooksInv
<1>8. QED
  BY <1>4, <1>5, <1>6, <1>7 DEF StartInv

\* Once the file is read, what was made of it stays.
LEMMA FileKept ==
    ASSUME FileInv, stage # "load", stage' # "load", UNCHANGED <<fileVars, declared>>
    PROVE  FileInv'
BY DEF FileInv, fileVars

\* A script that fails leaves its report, and only that.
LEMMA LoadScriptInv == StartInv /\ LoadScript /\ UNCHANGED fileVars => StartInv'
<1> SUFFICES ASSUME StartInv, LoadScript, UNCHANGED fileVars PROVE StartInv'
  OBVIOUS
<1> DEFINE k == At(scripts, todo)
<1>1. PICK f : f = Head(todo)
  OBVIOUS
<1>2. /\ stage = "scripts" /\ todo # <<>> /\ todo' = Tail(todo) /\ Report(f)
      /\ host' = IF f.loads THEN Append(host, f) ELSE host
      /\ called' = IF f.loads THEN Append(called, 0) ELSE called
      /\ plugged' = IF f.loads THEN plugged \o f.binds ELSE plugged
      /\ UNCHANGED <<declared, stage, table, resolved, scripts, natives, opened>>
  BY <1>1 DEF LoadScript
<1>3. /\ TableInv /\ FileInv /\ HooksInv
      /\ declared \in Seq(Entry) /\ table = <<>> /\ resolved = {} /\ table \in Seq(Bound)
      /\ scripts \in Seq(ScriptFile) /\ natives \in Seq(NativeFile)
      /\ Walks(scripts, todo) /\ Loaded(SubSeq(scripts, 1, k), <<>>)
  BY <1>2 DEF StartInv, TableInv, LoadInv
<1>4. /\ k \in 0..(Len(scripts) - 1) /\ f = scripts[k + 1] /\ f \in ScriptFile
      /\ Walks(scripts, todo') /\ At(scripts, todo') = k + 1
  BY <1>1, <1>2, <1>3, WalkOn
<1>5. PICK ss \in Seq(ScriptFile) :
        ss = SubSeq(scripts, 1, k) /\ SubSeq(scripts, 1, k + 1) = Append(ss, f)
  BY <1>3, <1>4, PrefixGrows
<1> HIDE DEF k
<1>6. Loaded(Append(ss, f), <<>>)' /\ plugged' \in Seq(Entry)
  BY <1>2, <1>3, <1>4, <1>5, ScriptLoads
<1>7. TableInv'
  BY <1>2, <1>3, <1>6 DEF TableInv
<1>8. FileInv'
  BY <1>2, <1>3, FileKept
<1>9. LoadInv'
  <2>1. SubSeq(scripts', 1, At(scripts', todo')) = Append(ss, f) /\ Walks(scripts', todo')
    BY <1>2, <1>4, <1>5
  <2>2. QED
    BY <1>2, <1>3, <1>6, <2>1 DEF LoadInv, Loaded
<1>10. HooksInv'
  <2>1. /\ host \in Seq(ScriptFile) /\ called \in Seq(Nat) /\ Len(called) = Len(host)
        /\ opened = 0 /\ Len(host) \in Nat
        /\ \A i \in 1..Len(host) : called[i] = IF host[i].hook = "none" THEN 0 ELSE opened
    BY <1>2, <1>3, LenProperties DEF HooksInv
  <2>2. CASE f.loads
    <3>1. /\ host' \in Seq(ScriptFile) /\ Len(host') = Len(host) + 1
          /\ \A i \in 1..Len(host) : host'[i] = host[i]
      BY <1>2, <1>4, <2>1, <2>2, AppendProperties
    <3>2. /\ called' \in Seq(Nat) /\ Len(called') = Len(host) + 1 /\ called'[Len(host) + 1] = 0
          /\ \A i \in 1..Len(host) : called'[i] = called[i]
      <4>1. called' = Append(called, 0) /\ 0 \in Nat
        BY <1>2, <2>2
      <4>2. QED
        BY <2>1, <4>1, AppendProperties
    <3>3. \A i \in 1..(Len(host) + 1) : i \in 1..Len(host) \/ i = Len(host) + 1
      BY <2>1
    <3>4. \A i \in 1..Len(host') : called'[i] = IF host'[i].hook = "none" THEN 0 ELSE opened
      BY <2>1, <3>1, <3>2, <3>3
    <3>5. QED
      BY <1>2, <2>1, <3>1, <3>2, <3>4 DEF HooksInv
  <2>3. CASE ~f.loads
    BY <1>2, <1>3, <2>3 DEF HooksInv
  <2>4. QED
    BY <2>2, <2>3
<1>11. QED
  BY <1>7, <1>8, <1>9, <1>10 DEF StartInv

\* The natives are next.
LEMMA ScriptsDoneInv == StartInv /\ ScriptsDone /\ UNCHANGED fileVars => StartInv'
<1> SUFFICES ASSUME StartInv, ScriptsDone, UNCHANGED fileVars PROVE StartInv'
  OBVIOUS
<1>1. /\ stage = "scripts" /\ todo = <<>> /\ stage' = "natives" /\ todo' = natives
      /\ UNCHANGED <<declared, plugged, table, resolved, scripts, natives, host, reported,
                     called, opened>>
  BY DEF ScriptsDone, pluginVars
<1>2. /\ TableInv /\ FileInv /\ HooksInv
      /\ declared \in Seq(Entry) /\ plugged \in Seq(Entry) /\ table \in Seq(Bound)
      /\ table = <<>> /\ resolved = {}
      /\ scripts \in Seq(ScriptFile) /\ natives \in Seq(NativeFile)
      /\ Walks(scripts, todo) /\ Loaded(SubSeq(scripts, 1, At(scripts, todo)), <<>>)
  BY <1>1 DEF StartInv, TableInv, LoadInv
<1>3. /\ Loaded(scripts, <<>>) /\ Walks(natives, todo') /\ At(natives, todo') = 0
      /\ SubSeq(natives, 1, 0) = <<>>
  BY <1>1, <1>2, WalkEnds, WalkBegins, PrefixEnds
<1>4. TableInv' /\ FileInv'
  BY <1>1, <1>2, FileKept DEF TableInv
<1>5. LoadInv'
  BY <1>1, <1>2, <1>3 DEF LoadInv, Loaded
<1>6. HooksInv'
  BY <1>1, <1>2 DEF HooksInv
<1>7. QED
  BY <1>4, <1>5, <1>6 DEF StartInv

\* A native plugin, likewise.
LEMMA LoadNativeInv == StartInv /\ LoadNative /\ UNCHANGED fileVars => StartInv'
<1> SUFFICES ASSUME StartInv, LoadNative, UNCHANGED fileVars PROVE StartInv'
  OBVIOUS
<1> DEFINE k == At(natives, todo)
<1>1. PICK f : f = Head(todo)
  OBVIOUS
<1>2. /\ stage = "natives" /\ todo # <<>> /\ todo' = Tail(todo) /\ Report(f)
      /\ plugged' = IF f.loads THEN plugged \o f.binds ELSE plugged
      /\ UNCHANGED <<declared, stage, table, resolved, scripts, natives, host, called, opened>>
  BY <1>1 DEF LoadNative
<1>3. /\ TableInv /\ FileInv /\ HooksInv
      /\ declared \in Seq(Entry) /\ table = <<>> /\ resolved = {} /\ table \in Seq(Bound)
      /\ scripts \in Seq(ScriptFile) /\ natives \in Seq(NativeFile)
      /\ Walks(natives, todo) /\ Loaded(scripts, SubSeq(natives, 1, k))
  BY <1>2 DEF StartInv, TableInv, LoadInv
<1>4. /\ k \in 0..(Len(natives) - 1) /\ f = natives[k + 1] /\ f \in NativeFile
      /\ Walks(natives, todo') /\ At(natives, todo') = k + 1
  BY <1>1, <1>2, <1>3, WalkOn
<1>5. PICK ns \in Seq(NativeFile) :
        ns = SubSeq(natives, 1, k) /\ SubSeq(natives, 1, k + 1) = Append(ns, f)
  BY <1>3, <1>4, PrefixGrows
<1>6. PICK ss \in Seq(ScriptFile) : ss = scripts
  BY <1>3
<1> HIDE DEF k
<1>7. Loaded(ss, Append(ns, f))' /\ plugged' \in Seq(Entry)
  BY <1>2, <1>3, <1>4, <1>5, <1>6, NativeLoads
<1>8. TableInv' /\ FileInv'
  BY <1>2, <1>3, <1>7, FileKept DEF TableInv
<1>9. LoadInv'
  <2>1. SubSeq(natives', 1, At(natives', todo')) = Append(ns, f) /\ Walks(natives', todo')
    BY <1>2, <1>4, <1>5
  <2>2. QED
    BY <1>2, <1>3, <1>6, <1>7, <2>1 DEF LoadInv, Loaded
<1>10. HooksInv'
  BY <1>2, <1>3 DEF HooksInv
<1>11. QED
  BY <1>8, <1>9, <1>10 DEF StartInv

\* The table is next.
LEMMA NativesDoneInv == StartInv /\ NativesDone /\ UNCHANGED fileVars => StartInv'
<1> SUFFICES ASSUME StartInv, NativesDone, UNCHANGED fileVars PROVE StartInv'
  OBVIOUS
<1>1. /\ stage = "natives" /\ todo = <<>> /\ stage' = "config" /\ todo' = declared
      /\ UNCHANGED <<declared, plugged, table, resolved, scripts, natives, host, reported,
                     called, opened>>
  BY DEF NativesDone, pluginVars
<1>2. /\ TableInv /\ FileInv /\ HooksInv
      /\ declared \in Seq(Entry) /\ plugged \in Seq(Entry) /\ table \in Seq(Bound)
      /\ table = <<>> /\ resolved = {}
      /\ scripts \in Seq(ScriptFile) /\ natives \in Seq(NativeFile)
      /\ Walks(natives, todo) /\ Loaded(scripts, SubSeq(natives, 1, At(natives, todo)))
  BY <1>1 DEF StartInv, TableInv, LoadInv
<1>3. Loaded(scripts, natives)
  BY <1>1, <1>2, WalkEnds, PrefixEnds
<1>4. Walks(declared, todo') /\ At(declared, todo') = 0 /\ Tabulates(<<>>, declared \o plugged, 0)
  BY <1>1, <1>2, WalkBegins, NothingTabulates
<1>5. TableInv'
  BY <1>1, <1>2, <1>4 DEF TableInv
<1>6. FileInv'
  BY <1>1, <1>2, FileKept
<1>7. LoadInv'
  BY <1>1, <1>2, <1>3 DEF LoadInv, Loaded
<1>8. HooksInv'
  BY <1>1, <1>2 DEF HooksInv
<1>9. QED
  BY <1>5, <1>6, <1>7, <1>8 DEF StartInv

\* The table is built from what was loaded.
LEMMA BuildTableInv == StartInv /\ BuildTable /\ UNCHANGED fileVars => StartInv'
<1> SUFFICES ASSUME StartInv, BuildTable, UNCHANGED fileVars PROVE StartInv'
  OBVIOUS
<1>1. TableInv /\ FileInv /\ LoadInv /\ HooksInv
  BY DEF StartInv
<1>2. TableInv'
  BY <1>1, InsertConfigInv, ConfigDoneInv, InsertPluginInv, PluginsDoneInv, ResolveOneInv,
     StartedInv DEF BuildTable
<1>3. /\ stage \notin {"load", "scripts", "natives", "running", "hooks"}
      /\ stage' \notin {"load", "scripts", "natives", "hooks"}
      /\ stage' = "running" => todo' = <<>>
      /\ UNCHANGED <<declared, plugged, scripts, natives, host, reported, called, opened>>
  BY DEF BuildTable, pluginVars, InsertConfig, ConfigDone, InsertPlugin, PluginsDone,
         ResolveOne, Started
<1>4. FileInv'
  BY <1>1, <1>3, FileKept
<1>5. LoadInv'
  BY <1>1, <1>3 DEF LoadInv, Loaded
<1>6. HooksInv'
  BY <1>1, <1>3 DEF HooksInv
<1>7. QED
  BY <1>2, <1>4, <1>5, <1>6 DEF StartInv

\* A window opens: the hooks are called for it, each once.
LEMMA OpenWindowInv == StartInv /\ OpenWindow /\ UNCHANGED fileVars => StartInv'
<1> SUFFICES ASSUME StartInv, OpenWindow, UNCHANGED fileVars PROVE StartInv'
  OBVIOUS
<1> DEFINE ids == [i \in DOMAIN host |-> i]
           S == {i \in DOMAIN host : host[i].hook # "none"}
<1>1. /\ stage = "running" /\ stage' = "hooks" /\ opened' = opened + 1 /\ todo' = Retain(ids, S)
      /\ UNCHANGED <<declared, plugged, table, resolved, scripts, natives, host, reported, called>>
  BY DEF OpenWindow
<1>2. TableInv /\ FileInv /\ LoadInv /\ HooksInv
  BY DEF StartInv
<1>3. Source' = Source
  BY <1>1 DEF Source
<1>4. TableInv' /\ FileInv'
  BY <1>1, <1>2, <1>3, FileKept DEF TableInv
<1>5. LoadInv'
  BY <1>1, <1>2 DEF LoadInv, Loaded
<1>6. /\ host \in Seq(ScriptFile) /\ called \in Seq(Nat) /\ Len(called) = Len(host)
      /\ opened \in Nat /\ Len(host) \in Nat /\ DOMAIN host = 1..Len(host)
      /\ \A i \in 1..Len(host) : called[i] = IF host[i].hook = "none" THEN 0 ELSE opened
  BY <1>1, <1>2, LenProperties DEF HooksInv
<1>7. todo' \in Seq(1..Len(host)) /\ Distinct(todo') /\ ToSet(todo') = S
  <2>1. /\ ids \in Seq(1..Len(host)) /\ Distinct(ids) /\ ToSet(ids) = 1..Len(host)
    BY <1>6 DEF Distinct, ToSet
  <2> HIDE DEF ids
  <2>2. /\ Retain(ids, S) \in Seq(1..Len(host)) /\ Distinct(Retain(ids, S))
        /\ ToSet(Retain(ids, S)) = ToSet(ids) \intersect S
    BY <2>1, RetainElements, RetainOrder
  <2>3. QED
    BY <1>1, <1>6, <2>1, <2>2
<1>8. /\ \A i \in 1..Len(host) : i \in ToSet(todo') <=> host[i].hook # "none"
      /\ \A i \in ToSet(todo') : host[i].hook # "none"
      /\ opened' \in Nat /\ opened' - 1 = opened
  <2>1. opened' \in Nat /\ opened' - 1 = opened
    BY <1>1, <1>6
  <2>2. \A i : i \in ToSet(todo') <=> i \in 1..Len(host) /\ host[i].hook # "none"
    BY <1>6, <1>7, Zenon
  <2>3. QED
    BY <2>1, <2>2, Zenon
<1> HIDE DEF S
<1>9. \A i \in 1..Len(host) :
        called[i] = IF host[i].hook = "none" THEN 0
                    ELSE IF i \in ToSet(todo') THEN opened' - 1 ELSE opened'
  BY <1>6, <1>8
<1>10. HooksInv'
  BY <1>1, <1>6, <1>7, <1>8, <1>9 DEF HooksInv
<1>11. QED
  BY <1>4, <1>5, <1>10 DEF StartInv

\* One hook is called, whether it fails or not.
LEMMA FireHookInv == StartInv /\ FireHook /\ UNCHANGED fileVars => StartInv'
<1> SUFFICES ASSUME StartInv, FireHook, UNCHANGED fileVars PROVE StartInv'
  OBVIOUS
<1>1. PICK x : x = Head(todo)
  OBVIOUS
<1>2. /\ stage = "hooks" /\ todo # <<>> /\ called' = [called EXCEPT ![x] = @ + 1]
      /\ todo' = Tail(todo)
      /\ UNCHANGED <<declared, plugged, stage, table, resolved, scripts, natives, host, reported,
                     opened>>
  BY <1>1 DEF FireHook
<1>3. TableInv /\ FileInv /\ LoadInv /\ HooksInv
  BY DEF StartInv
<1>4. Source' = Source
  BY <1>2 DEF Source
<1>5. TableInv' /\ FileInv'
  BY <1>2, <1>3, <1>4, FileKept DEF TableInv
<1>6. LoadInv'
  BY <1>2, <1>3 DEF LoadInv, Loaded
<1>7. /\ host \in Seq(ScriptFile) /\ called \in Seq(Nat) /\ Len(called) = Len(host)
      /\ opened \in Nat /\ todo \in Seq(1..Len(host)) /\ Distinct(todo)
      /\ \A i \in ToSet(todo) : host[i].hook # "none"
      /\ \A i \in 1..Len(host) :
            called[i] = IF host[i].hook = "none" THEN 0
                        ELSE IF i \in ToSet(todo) THEN opened - 1 ELSE opened
  BY <1>2, <1>3 DEF HooksInv
<1>8. /\ todo' \in Seq(1..Len(host)) /\ Distinct(todo') /\ x \in ToSet(todo)
      /\ ToSet(todo') = ToSet(todo) \ {x} /\ x \in 1..Len(host)
  BY <1>1, <1>2, <1>7, TailDistinct
<1>9. /\ called' \in Seq(Nat) /\ Len(called') = Len(host)
      /\ \A i \in 1..Len(host) : called'[i] = IF i = x THEN called[i] + 1 ELSE called[i]
  BY <1>2, <1>7, <1>8
<1>10. \A i \in 1..Len(host) :
         called'[i] = IF host[i].hook = "none" THEN 0
                      ELSE IF i \in ToSet(todo') THEN opened - 1 ELSE opened
  <2>1. called'[x] = opened /\ host[x].hook # "none" /\ x \notin ToSet(todo')
    <3>1. called[x] = opened - 1 /\ host[x].hook # "none"
      BY <1>7, <1>8
    <3>2. QED
      BY <1>7, <1>8, <1>9, <3>1
  <2>2. \A i \in 1..Len(host) : i # x =>
          called'[i] = called[i] /\ (i \in ToSet(todo') <=> i \in ToSet(todo))
    BY <1>8, <1>9
  <2>3. QED
    BY <1>7, <2>1, <2>2
<1>11. HooksInv'
  BY <1>2, <1>7, <1>8, <1>9, <1>10 DEF HooksInv
<1>12. QED
  BY <1>5, <1>6, <1>11 DEF StartInv

\* All hooks were called.
LEMMA HooksDoneInv == StartInv /\ HooksDone /\ UNCHANGED fileVars => StartInv'
<1> SUFFICES ASSUME StartInv, HooksDone, UNCHANGED fileVars PROVE StartInv'
  OBVIOUS
<1>1. /\ stage = "hooks" /\ todo = <<>> /\ stage' = "running"
      /\ UNCHANGED <<declared, plugged, todo, table, resolved, scripts, natives, host, reported,
                     called, opened>>
  BY DEF HooksDone, pluginVars
<1>2. TableInv /\ FileInv /\ LoadInv /\ HooksInv
  BY DEF StartInv
<1>3. Source' = Source
  BY <1>1 DEF Source
<1>4. TableInv' /\ FileInv'
  BY <1>1, <1>2, <1>3, FileKept DEF TableInv
<1>5. LoadInv'
  BY <1>1, <1>2 DEF LoadInv, Loaded
<1>6. ToSet(todo) = {}
  BY <1>1 DEF ToSet
<1>7. HooksInv'
  BY <1>1, <1>2, <1>6 DEF HooksInv
<1>8. QED
  BY <1>4, <1>5, <1>7 DEF StartInv

\* Every step of a start keeps the invariant.
LEMMA StartStep == StartInv /\ [PNext]_allVars => StartInv'
<1>1. StartInv /\ UNCHANGED allVars => StartInv'
  BY DEF StartInv, TableInv, FileInv, LoadInv, HooksInv, Loaded, Source, allVars, vars, fileVars,
         pluginVars
<1>2. QED
  BY <1>1, LoadStepInv, LoadScriptInv, ScriptsDoneInv, LoadNativeInv, NativesDoneInv,
     BuildTableInv, OpenWindowInv, FireHookInv, HooksDoneInv DEF PNext

\* Whatever the config, the plugins and the order of the loads.
THEOREM StartHolds == PSpec => []StartInv
BY StartInit, StartStep, PTL DEF PSpec

-----------------------------------------------------------------------------
(* What the start promises *)

\* The last entry for a chord has it: of the config, or of the defaults if there
\* is none, and of the plugins, however many of either.
THEOREM EntriesResolved == PSpec => []LastEntryWins
<1>1. StartInv => LastEntryWins
  <2> SUFFICES ASSUME StartInv, stage = "running"
               PROVE  resolved = Bindings(Source \o plugged)
    BY DEF LastEntryWins
  <2>1. /\ declared \in Seq(Entry) /\ plugged \in Seq(Entry) /\ table \in Seq(Bound)
        /\ Tabulates(table, Source \o plugged, Len(Source \o plugged))
        /\ resolved = ResolvedTo(table, Len(table))
    BY DEF StartInv, TableInv
  <2>2. Source \in Seq(Entry)
    BY <2>1, DefaultsAssumption DEF Source
  <2>3. Source \o plugged \in Seq(Entry)
    BY <2>1, <2>2, ConcatAt
  <2>4. QED
    BY <2>1, <2>3, TableBinds
<1>2. QED
  BY <1>1, StartHolds, PTL

\* A plugin that fails, in its load or in its hook, takes nothing from the others.
THEOREM FailuresStayAlone == PSpec => []FailuresIsolated
<1>1. StartInv => FailuresReported
  BY DEF StartInv, LoadInv, Loaded, FailuresReported, Loading
<1>2. StartInv => HooksReachAll
  <2> SUFFICES ASSUME StartInv, stage = "running", NEW i \in DOMAIN host
               PROVE  called[i] = IF host[i].hook = "none" THEN 0 ELSE opened
    BY DEF HooksReachAll
  <2>1. /\ host \in Seq(ScriptFile)
        /\ \A k \in 1..Len(host) : called[k] = IF host[k].hook = "none" THEN 0 ELSE opened
    BY DEF StartInv, HooksInv
  <2>2. i \in 1..Len(host)
    BY <2>1
  <2>3. QED
    BY <2>1, <2>2
<1>3. QED
  BY <1>1, <1>2, StartHolds, PTL DEF FailuresIsolated

\* Entries for different keys, which xkb knows.
OneEach(es) ==
    /\ \A i \in DOMAIN es : Valid(es[i]) /\ PressedAs(es[i]).sym # NoKeysym
    /\ \A i, j \in DOMAIN es : PressedAs(es[i]) = PressedAs(es[j]) => i = j

\* The order of entries for different keys does not matter.
LEMMA OrderFree ==
    ASSUME NEW a \in Seq(Entry), NEW b \in Seq(Entry), NEW es \in Seq(Entry),
           OneEach(b), ToSet(a) \subseteq ToSet(b)
    PROVE  Bindings(a \o es) \subseteq Bindings(b \o es)
<1> DEFINE K(l) == {i \in DOMAIN l : Valid(l[i]) /\ PressedAs(l[i]).sym # NoKeysym}
           L(l) == {i \in K(l) : \A j \in K(l) : j > i => PressedAs(l[j]) # PressedAs(l[i])}
           P(l, i) == [chord |-> PressedAs(l[i]), action |-> l[i].action]
<1>1. PICK n \in Nat, m \in Nat, d \in Nat :
        n = Len(a) /\ m = Len(b) /\ d = Len(es)
  BY LenProperties
<1>2. PICK u, v : u = a \o es /\ v = b \o es
  OBVIOUS
<1>3. /\ DOMAIN u = 1..(n + d) /\ DOMAIN v = 1..(m + d) /\ DOMAIN b = 1..m /\ DOMAIN a = 1..n
      /\ \A i \in 1..n : u[i] = a[i]
      /\ \A i \in 1..m : v[i] = b[i]
      /\ \A i \in 1..d : u[n + i] = es[i] /\ v[m + i] = es[i]
  BY <1>1, <1>2, ConcatAt, LenProperties
<1>4. \A l : Bindings(l) = {P(l, i) : i \in L(l)}
  BY DEF Bindings
<1>5. ASSUME NEW i \in L(u) PROVE \E k \in L(v) : P(v, k) = P(u, i)
  <2>0. i \in 1..(n + d) /\ Valid(u[i]) /\ PressedAs(u[i]).sym # NoKeysym
    BY <1>3
  <2>1. ASSUME NEW j \in 1..d, Valid(es[j]), PressedAs(es[j]).sym # NoKeysym, n + j > i
        PROVE  PressedAs(es[j]) # PressedAs(u[i])
    <3>1. n + j \in K(u) /\ u[n + j] = es[j]
      BY <1>3, <2>1
    <3>2. QED
      BY <1>5, <2>1, <3>1
  <2>2. CASE i \in 1..n
    <3>1. u[i] \in ToSet(b)
      BY <1>3, <2>2 DEF ToSet
    <3>2. PICK k \in 1..m : b[k] = u[i]
      BY <1>3, <3>1 DEF ToSet
    <3>3. k \in K(v) /\ v[k] = u[i]
      BY <1>3, <2>0, <3>2
    <3>4. ASSUME NEW j \in K(v), j > k PROVE PressedAs(v[j]) # PressedAs(v[k])
      <4>1. CASE j \in 1..m
        <5>1. j \in DOMAIN b /\ k \in DOMAIN b /\ v[j] = b[j] /\ v[k] = b[k] /\ j # k
          BY <1>3, <3>2, <3>3, <3>4, <4>1
        <5>2. QED
          BY <5>1 DEF OneEach
      <4>2. CASE j \notin 1..m
        <5>1. j - m \in 1..d /\ m + (j - m) = j
          BY <1>3, <4>2
        <5>2. v[j] = es[j - m] /\ n + (j - m) > i
          BY <1>3, <2>2, <5>1
        <5>3. QED
          BY <2>1, <3>3, <3>4, <5>1, <5>2
      <4>3. QED
        BY <4>1, <4>2
    <3>5. QED
      BY <3>3, <3>4
  <2>3. CASE i \notin 1..n
    <3>1. i - n \in 1..d /\ n + (i - n) = i
      BY <2>0, <2>3
    <3>2. u[i] = es[i - n] /\ v[m + (i - n)] = es[i - n] /\ m + (i - n) \in 1..(m + d)
      BY <1>3, <3>1
    <3>3. m + (i - n) \in K(v)
      BY <1>3, <2>0, <3>2
    <3>4. ASSUME NEW j \in K(v), j > m + (i - n) PROVE PressedAs(v[j]) # PressedAs(u[i])
      <4>0. j \in 1..(m + d) /\ n \in Nat /\ m \in Nat /\ d \in Nat
        BY <1>3
      <4>1. j - m \in 1..d /\ m + (j - m) = j /\ n + (j - m) > i
        <5> HIDE DEF K, L, P
        <5>1. QED
          BY <2>0, <3>1, <3>4, <4>0
      <4>2. v[j] = es[j - m]
        BY <1>3, <4>1
      <4>3. QED
        BY <2>1, <3>4, <4>1, <4>2
    <3>5. QED
      BY <3>2, <3>3, <3>4
  <2>4. QED
    BY <2>2, <2>3
<1> HIDE DEF K, L, P
<1>6. QED
  BY <1>2, <1>4, <1>5

\* The built-in entries as they are written, and as they are read back.
LEMMA DefaultsReadBack ==
    ASSUME NEW es \in Seq(Entry)
    PROVE  Bindings(Sorted(ToSet(Defaults)) \o es) = Bindings(Defaults \o es)
<1> DEFINE D == ToSet(Defaults)
           s == Sorted(D)
<1>1. Defaults \in Seq(Entry) /\ OneEach(Defaults)
  BY DefaultsAssumption DEF OneEach
<1>2. D \in SUBSET Entry
  BY <1>1, ElementOfSeq DEF ToSet
<1>3. \A x, y \in D : PressedAs(x) = PressedAs(y) => x = y
  BY <1>1 DEF OneEach, ToSet
<1>4. \A x \in D : Valid(x) /\ PressedAs(x).sym # NoKeysym
  BY <1>1 DEF OneEach, ToSet
<1> HIDE DEF D
<1>5. /\ s \in Seq(D) /\ s \in Seq(Entry) /\ ByText(s)
      /\ \A x \in D : \E i \in DOMAIN s : s[i].text = x.text
  BY <1>2, SortedIs
<1> HIDE DEF s
<1>6. DOMAIN s = 1..Len(s) /\ Len(s) \in Nat /\ \A i \in DOMAIN s : s[i] \in D
  BY <1>5, ElementOfSeq, LenProperties
<1>7. \A x, y \in D : x.text = y.text => x = y
  BY <1>3 DEF PressedAs
<1>8. ToSet(s) = D
  <2>1. \A x \in D : \E i \in DOMAIN s : s[i] = x
    BY <1>5, <1>6, <1>7
  <2>2. QED
    BY <1>6, <2>1 DEF ToSet
<1>9. OneEach(s)
  <2>1. ASSUME NEW i \in DOMAIN s, NEW j \in DOMAIN s, PressedAs(s[i]) = PressedAs(s[j])
        PROVE  i = j
    <3>1. s[i] = s[j]
      BY <1>3, <1>6, <2>1
    <3>2. \A e \in D : e.text \in Int
      BY <1>2, TextsAssumption DEF Entry
    <3>3. ~(i < j) /\ ~(j < i)
      <4>1. s[i].text \in Int /\ s[j].text = s[i].text
        BY <1>6, <3>1, <3>2
      <4>2. (i < j => s[i].text < s[j].text) /\ (j < i => s[j].text < s[i].text)
        BY <1>5 DEF ByText
      <4>3. QED
        BY <4>1, <4>2
    <3>4. QED
      BY <1>6, <3>3
  <2>2. QED
    BY <1>4, <1>6, <2>1 DEF OneEach
<1>10. Bindings(s \o es) \subseteq Bindings(Defaults \o es)
       /\ Bindings(Defaults \o es) \subseteq Bindings(s \o es)
  BY <1>1, <1>5, <1>8, <1>9, OrderFree DEF D
<1>11. QED
  BY <1>10 DEF s, D

\* First starts, finished, unfinished or impossible, come to the same keybinds.
THEOREM FirstStartsBind == PSpec => []FirstStartsAlike
<1>1. StartInv /\ LastEntryWins => FirstStartsAlike
  <2> SUFFICES ASSUME StartInv, LastEntryWins, stage = "running", file \in {None, Empty, Written}
               PROVE  resolved = Bindings(Defaults \o plugged) /\ general = "default"
    BY DEF FirstStartsAlike
  <2>1. /\ declared \in {<<>>, Defaults, Sorted(ToSet(Defaults))} /\ general = "default"
        /\ plugged \in Seq(Entry)
    BY DEF StartInv, FileInv, TableInv
  <2>2. resolved = Bindings(Source \o plugged)
    BY DEF LastEntryWins
  <2>3. Source \in {Defaults, Sorted(ToSet(Defaults))}
    BY <2>1 DEF Source
  <2>4. QED
    BY <2>1, <2>2, <2>3, DefaultsReadBack
<1>2. QED
  BY <1>1, StartHolds, EntriesResolved, PTL

-----------------------------------------------------------------------------
(* A start with plugins is a start with their entries *)

\* What the files that load register, which never changes.
Registered == Entries(Retain(scripts, Sound) \o Retain(natives, Sound))

\* KeyTable's operators on the lists of this module.
LEMMA SameOperators ==
    /\ Startup!Entry = Entry
    /\ \A es : Startup!ByText(es) <=> ByText(es)
    /\ \A e : Startup!Valid(e) <=> Valid(e)
    /\ \A tb, e : Startup!Inserted(tb, e) = Inserted(tb, e)
    /\ \A rs, b : Startup!Resolve(rs, b) = Resolve(rs, b)
<1>1. \A S : Startup!Cardinality(S) = Cardinality(S)
  BY DEF Startup!Cardinality, Cardinality, Startup!IsFiniteSet, IsFiniteSet
<1>2. \A t, S : Startup!Kept(t, S) = Kept(t, S)
  BY DEF Startup!Kept, Kept
<1>3. \A t, S, k : Startup!Nth(t, S, k) = Nth(t, S, k)
  BY <1>1, <1>2 DEF Startup!Nth, Nth
<1>4. \A t, S : Startup!Retain(t, S) = Retain(t, S)
  BY <1>1, <1>2, <1>3 DEF Startup!Retain, Retain
<1>5. \A t : Startup!ToSet(t) = ToSet(t)
  BY DEF Startup!ToSet, ToSet
<1>6. \A tb, e : Startup!Inserted(tb, e) = Inserted(tb, e)
  BY <1>4, <1>5 DEF Startup!Inserted, Inserted, Startup!Bind, Bind
<1>7. \A rs, b : Startup!Resolve(rs, b) = Resolve(rs, b)
  BY DEF Startup!Resolve, Resolve
<1>8. QED
  BY <1>6, <1>7 DEF Startup!Entry, Entry, Startup!ByText, ByText, Startup!Valid, Valid

\* A start begins as one of KeyTable does.
LEMMA StartMaps == PInit => Startup!Init
<1> SUFFICES ASSUME PInit PROVE Startup!Init
  OBVIOUS
<1>1. /\ declared = <<>> /\ stage = "load" /\ todo = <<>> /\ table = <<>> /\ resolved = {}
  BY DEF PInit
<1>2. scripts \in Seq(ScriptFile) /\ natives \in Seq(NativeFile)
  BY StartInit DEF StartInv, LoadInv
<1>3. Registered \in Seq(Entry)
  <2> DEFINE q == Retain(scripts, Sound)
             r == Retain(natives, Sound)
  <2>1. q \in Seq(ScriptFile) /\ r \in Seq(NativeFile)
    BY <1>2, RetainElements
  <2> HIDE DEF q, r
  <2>2. q \in Seq(File) /\ r \in Seq(File)
    BY <2>1 DEF File
  <2>3. q \o r \in Seq(File)
    BY <2>2, ConcatAt
  <2>4. QED
    BY <2>3, EntriesType DEF Registered, q, r
<1>4. QED
  BY <1>1, <1>3, SameOperators DEF Startup!Init, Registered, Loading

\* The config is loaded at once; before that nothing happens.
LEMMA LoadMaps == StartInv /\ LoadStep => Startup!LoadConfig \/ UNCHANGED Startup!vars
<1> SUFFICES ASSUME StartInv, LoadStep PROVE Startup!LoadConfig \/ UNCHANGED Startup!vars
  OBVIOUS
<1>1. /\ stage = "load" /\ FileNext
      /\ IF load' = "done" THEN stage' = "scripts" /\ todo' = scripts
                           ELSE UNCHANGED <<stage, todo>>
      /\ UNCHANGED <<table, resolved>> /\ Registered' = Registered
  BY DEF LoadStep, pluginVars, Registered
<1>2. /\ FileInv /\ load # "done"
  BY <1>1 DEF StartInv, FileInv
<1>3. /\ load' # "done" => UNCHANGED declared
      /\ load' = "done" => declared' \in Seq(Entry) /\ (ByText(declared') \/ declared' = Defaults)
  BY <1>1, <1>2, FileStep
<1>4. CASE load' = "done"
  <2>1. Startup!LoadConfig
    BY <1>1, <1>3, <1>4, SameOperators DEF Startup!LoadConfig, Registered, Loading
  <2>2. QED
    BY <2>1
<1>5. CASE load' # "done"
  <2>1. UNCHANGED Startup!vars
    BY <1>1, <1>3, <1>5 DEF Startup!vars, Registered, Loading
  <2>2. QED
    BY <2>1
<1>6. QED
  BY <1>4, <1>5

\* The plugins are loaded, and the hooks called, unseen.
LEMMA UnseenSteps ==
    ASSUME StartInv,
           LoadScript \/ ScriptsDone \/ LoadNative \/ NativesDone \/ OpenWindow \/ FireHook
               \/ HooksDone
    PROVE  UNCHANGED Startup!vars
<1>1. UNCHANGED <<declared, table, resolved>> /\ Registered' = Registered
  BY DEF LoadScript, ScriptsDone, LoadNative, NativesDone, OpenWindow, FireHook, HooksDone,
         pluginVars, Registered
<1>2. \/ Loading /\ Loading'
      \/ Loading /\ stage' = "config" /\ todo' = declared
      \/ stage = "running" /\ stage' = "hooks" /\ todo = <<>>
      \/ stage = "hooks" /\ stage' = "hooks"
      \/ stage = "hooks" /\ stage' = "running" /\ todo' = <<>>
  BY DEF LoadScript, ScriptsDone, LoadNative, NativesDone, OpenWindow, FireHook, HooksDone,
         Loading, StartInv, HooksInv
<1>3. QED
  BY <1>1, <1>2 DEF Startup!vars, Registered, Loading

\* The table is built from the entries of the files that load.
LEMMA BuildMaps == StartInv /\ BuildTable => Startup!Next
<1> SUFFICES ASSUME StartInv, BuildTable PROVE Startup!Next
  OBVIOUS
<1>1. plugged = Registered /\ Registered' = Registered /\ plugged' = plugged
      /\ stage \notin {"load", "scripts", "natives", "running", "hooks"}
      /\ stage' \notin {"load", "scripts", "natives", "hooks"}
  BY DEF StartInv, LoadInv, Loaded, Registered, BuildTable, pluginVars, InsertConfig, ConfigDone,
         InsertPlugin, PluginsDone, ResolveOne, Started
<1>2. ~Loading /\ ~Loading' /\ stage # "hooks" /\ stage' # "hooks"
  BY <1>1 DEF Loading
<1>3. CASE InsertConfig
  BY <1>1, <1>2, <1>3, SameOperators
  DEF InsertConfig, Startup!InsertConfig, Startup!Next, Registered
<1>4. CASE ConfigDone
  BY <1>1, <1>2, <1>4 DEF ConfigDone, Startup!ConfigDone, Startup!Next, Registered
<1>5. CASE InsertPlugin
  BY <1>1, <1>2, <1>5, SameOperators
  DEF InsertPlugin, Startup!InsertPlugin, Startup!Next, Registered
<1>6. CASE PluginsDone
  BY <1>1, <1>2, <1>6 DEF PluginsDone, Startup!PluginsDone, Startup!Next, Registered
<1>7. CASE ResolveOne
  BY <1>1, <1>2, <1>7, SameOperators
  DEF ResolveOne, Startup!ResolveOne, Startup!Next, Registered
<1>8. CASE Started
  BY <1>1, <1>2, <1>8 DEF Started, Startup!Started, Startup!Next, Registered
<1>9. QED
  BY <1>3, <1>4, <1>5, <1>6, <1>7, <1>8 DEF BuildTable

\* With plugins Katnip starts exactly as it would with the entries of the files
\* that load, written one after the other.
THEOREM StartsAsWritten == PSpec => ImplementsKeyTable
<1>1. StartInv /\ [PNext]_allVars => [Startup!Next]_(Startup!vars)
  <2> SUFFICES ASSUME StartInv, [PNext]_allVars PROVE [Startup!Next]_(Startup!vars)
    OBVIOUS
  <2>1. CASE LoadStep
    BY <2>1, LoadMaps DEF Startup!Next
  <2>2. CASE BuildTable
    BY <2>2, BuildMaps
  <2>3. CASE LoadScript \/ ScriptsDone \/ LoadNative \/ NativesDone \/ OpenWindow \/ FireHook
               \/ HooksDone
    BY <2>3, UnseenSteps
  <2>4. CASE UNCHANGED allVars
    BY <2>4 DEF Startup!vars, allVars, vars, pluginVars, Loading
  <2>5. QED
    BY <2>1, <2>2, <2>3, <2>4 DEF PNext
<1>2. QED
  BY <1>1, StartMaps, StartHolds, PTL DEF PSpec, ImplementsKeyTable, Startup!Spec
=============================================================================
