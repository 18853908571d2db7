---------------------------- MODULE LayoutProofs ---------------------------
(***************************************************************************)
(* The rectangles of the tiling layout and the sizes it tells.             *)
(*                                                                         *)
(* For every output size, every gap and every number of windows: tiles are *)
(* apart by the inner gap, inside the usable area, and the windows in them *)
(* are disjoint.  The invariant speaks of the areas still to be divided as *)
(* well: those with room are apart from each other and from the tiles.     *)
(* No tile is one too many; and where the room is ample, every call has    *)
(* room for its windows (RoomFor), so that none is lost on the way.        *)
(*                                                                         *)
(* For every number of clients, however they lag behind: the configure     *)
(* handshake keeps its types, a change of focus from rest tells every      *)
(* window of the workspace, and no client is left with a stale size and    *)
(* nothing on its way.                                                     *)
(***************************************************************************)
EXTENDS Dwindle, Configure, ListProofs, SequenceTheorems, TLAPS

-----------------------------------------------------------------------------
(* Arithmetic and geometry *)

\* The share of k of n windows is between nothing and the whole side.
LEMMA ShareBounds ==
    ASSUME NEW side \in Nat, NEW n \in Nat, n > 0, NEW k \in 0..n
    PROVE  Share(side, k, n) \in 0..side
<1> DEFINE p == side * k
           q == p \div n
<1>1. p \in Nat /\ p <= side * n
    BY SMT
<1>2. q \in Int /\ p = q * n + (p % n) /\ (p % n) \in 0..(n - 1)
    BY <1>1, SMT
<1>3. q >= 0
    <2>1. SUFFICES ASSUME q <= -1 PROVE FALSE
        BY <1>2, SMT
    <2>2. q * n <= (-1) * n
        BY <1>2, <2>1, SMT
    <2> HIDE DEF q, p
    <2> QED
        BY <1>1, <1>2, <2>2, SMT
<1>4. q <= side
    <2>1. SUFFICES ASSUME q >= side + 1 PROVE FALSE
        BY <1>2, SMT
    <2>2. q * n >= (side + 1) * n
        BY <1>2, <2>1, SMT
    <2>3. (side + 1) * n = side * n + n
        BY SMT
    <2> HIDE DEF q, p
    <2> QED
        BY <1>1, <1>2, <2>2, <2>3, SMT
<1> QED
    BY <1>2, <1>3, <1>4 DEF Share

\* Either part gets between none and all of the windows.
LEMMA LeftCountBounds ==
    ASSUME NEW a, NEW n \in Nat, n > 1
    PROVE  LeftCount(a, n) \in 0..n
BY DEF LeftCount

\* Being apart does not depend on the order.
LEMMA ApartSymmetric ==
    ASSUME NEW r \in Rect, NEW s \in Rect, NEW d \in Nat, Apart(r, s, d)
    PROVE  Apart(s, r, d)
BY DEF Apart, Rect

\* What is apart from an area is apart from every part of it.
LEMMA ApartInherited ==
    ASSUME NEW a \in Rect, NEW r \in Rect, NEW s \in Rect, NEW d \in Nat,
           Within(r, a), Apart(s, a, d)
    PROVE  Apart(s, r, d)
BY DEF Apart, Within, Rect

\* A part of a part is a part.
LEMMA WithinTransitive ==
    ASSUME NEW a \in Rect, NEW r \in Rect, NEW u \in Rect,
           Within(r, a), Within(a, u)
    PROVE  Within(r, u)
BY DEF Within, Rect

\* Two parts of an area: rectangles whose solid ones lie within the area and
\* are d apart.
Parts(a, r, s, d) ==
    /\ r \in Rect /\ s \in Rect
    /\ Solid(r) => Within(r, a)
    /\ Solid(s) => Within(s, a)
    /\ Separate(r, s, d)

\* The two pieces of a wide area.
LEMMA WideParts ==
    ASSUME NEW a \in Rect, NEW s \in 0..a.w, NEW g \in Nat
    PROVE  Parts(a, Left(a, s, g), Right(a, s, g), 2 * g)
<1> DEFINE r == Left(a, s, g)
           t == Right(a, s, g)
<1>1. /\ a.x \in Int /\ a.y \in Int /\ a.w \in Nat /\ a.h \in Nat
      /\ s \in Nat /\ s <= a.w
    BY DEF Rect
<1>2. r \in Rect /\ t \in Rect
    BY <1>1 DEF Left, Right, AtLeast, Rect
<1>3. Solid(r) => Within(r, a)
    BY <1>1 DEF Left, Solid, Within, AtLeast
<1>4. Solid(t) => Within(t, a)
    BY <1>1 DEF Right, Solid, Within, AtLeast
<1>5. Solid(r) /\ Solid(t) => Apart(r, t, 2 * g)
    BY <1>1 DEF Left, Right, Solid, Apart, AtLeast
<1> QED
    BY <1>2, <1>3, <1>4, <1>5 DEF Parts, Separate

\* The two pieces of a tall area.
LEMMA TallParts ==
    ASSUME NEW a \in Rect, NEW s \in 0..a.h, NEW g \in Nat
    PROVE  Parts(a, Top(a, s, g), Bottom(a, s, g), 2 * g)
<1> DEFINE r == Top(a, s, g)
           t == Bottom(a, s, g)
<1>1. /\ a.x \in Int /\ a.y \in Int /\ a.w \in Nat /\ a.h \in Nat
      /\ s \in Nat /\ s <= a.h
    BY DEF Rect
<1>2. r \in Rect /\ t \in Rect
    BY <1>1 DEF Top, Bottom, AtLeast, Rect
<1>3. Solid(r) => Within(r, a)
    BY <1>1 DEF Top, Solid, Within, AtLeast
<1>4. Solid(t) => Within(t, a)
    BY <1>1 DEF Bottom, Solid, Within, AtLeast
<1>5. Solid(r) /\ Solid(t) => Apart(r, t, 2 * g)
    BY <1>1 DEF Top, Bottom, Solid, Apart, AtLeast
<1> QED
    BY <1>2, <1>3, <1>4, <1>5 DEF Parts, Separate

\* Half of the gap is a natural.
LEMMA HalfGapType ==
    ASSUME TypeOK
    PROVE  HalfGap \in Nat /\ 2 * HalfGap \in Nat
<1>1. layout.inner \in Nat
    BY LayoutsAssumption DEF TypeOK
<1> QED
    BY <1>1, SMT DEF HalfGap

-----------------------------------------------------------------------------
(* The steps *)

\* The first call has the whole usable area.
LEMMA InitInv == Init => DwindleInv
<1> SUFFICES ASSUME Init PROVE DwindleInv
    OBVIOUS
<1>1. PICK o \in Outputs : usable = Usable(o, layout)
    BY DEF Init
<1>2. o \in [w : Nat, h : Nat]
    BY OutputsAssumption
<1>3. layout \in [outer : Nat, inner : Nat, border : Nat, bar : Nat]
    BY LayoutsAssumption DEF Init
<1>4. usable \in Rect
    BY <1>1, <1>2, <1>3 DEF Usable, Rect, AtLeast
<1>5. count \in Nat
    BY MaxWindowsAssumption DEF Init
<1>6. [area |-> usable, count |-> count] \in Call
    BY <1>4, <1>5 DEF Call
<1>7. TypeOK
    BY <1>4, <1>5, <1>6 DEF TypeOK, Init
<1>8. DOMAIN pending = {1} /\ pending[1].area = usable /\ DOMAIN out = {}
    BY DEF Init
<1>9. GapsKept /\ InsideUsable /\ PendingApart /\ TilesApartFromPending
    BY <1>8 DEF GapsKept, InsideUsable, PendingApart, TilesApartFromPending
<1>10. PendingInside
    BY <1>4, <1>8 DEF PendingInside, Within, Rect
<1> QED
    BY <1>7, <1>9, <1>10 DEF DwindleInv

\* The stack without its first call.
LEMMA RestOfStack ==
    ASSUME TypeOK, pending # <<>>
    PROVE  /\ Head(pending) = pending[1]
           /\ 1 \in DOMAIN pending
           /\ Head(pending) \in Call
           /\ Tail(pending) \in Seq(Call)
           /\ Len(Tail(pending)) = Len(pending) - 1
           /\ DOMAIN Tail(pending) = 1..(Len(pending) - 1)
           /\ \A k \in DOMAIN Tail(pending) :
                 k + 1 \in DOMAIN pending /\ Tail(pending)[k] = pending[k + 1]
<1>1. pending \in Seq(Call)
    BY DEF TypeOK
<1>2. Len(pending) \in Nat /\ Len(pending) > 0 /\ DOMAIN pending = 1..Len(pending)
    BY <1>1, EmptySeq, LenProperties
<1>3. Head(pending) = pending[1] /\ Tail(pending) \in Seq(Call)
    BY <1>1, HeadTailProperties
<1>4. Len(Tail(pending)) = Len(pending) - 1
    BY <1>1, HeadTailProperties
<1>5. \A k \in 1..Len(Tail(pending)) : Tail(pending)[k] = pending[k + 1]
    BY <1>1, HeadTailProperties
<1>6. DOMAIN Tail(pending) = 1..(Len(pending) - 1)
    BY <1>3, <1>4, LenProperties
<1>7. pending[1] \in Call
    BY <1>1, <1>2, ElementOfSeq
<1> QED
    BY <1>2, <1>3, <1>4, <1>5, <1>6, <1>7

\* A call that is skipped disturbs nothing.
LEMMA SkipInv == DwindleInv /\ Skip => DwindleInv'
<1> SUFFICES ASSUME DwindleInv, Skip PROVE DwindleInv'
    OBVIOUS
<1>1. pending' = Tail(pending) /\ UNCHANGED <<layout, usable, count, out>>
    BY DEF Skip
<1>2. TypeOK /\ pending # <<>>
    BY DEF DwindleInv, Skip
<1>3. /\ Tail(pending) \in Seq(Call)
      /\ DOMAIN Tail(pending) \subseteq Int
      /\ \A k \in DOMAIN Tail(pending) :
            k + 1 \in DOMAIN pending /\ Tail(pending)[k] = pending[k + 1]
    BY <1>2, RestOfStack
<1>4. TypeOK'
    BY <1>1, <1>2, <1>3 DEF TypeOK
<1>5. GapsKept' /\ InsideUsable'
    BY <1>1 DEF DwindleInv, GapsKept, InsideUsable, HalfGap
<1>6. PendingInside'
    BY <1>1, <1>3 DEF DwindleInv, PendingInside
<1>7. PendingApart'
    BY <1>1, <1>3 DEF DwindleInv, PendingApart, HalfGap
<1>8. TilesApartFromPending'
    BY <1>1, <1>3 DEF DwindleInv, TilesApartFromPending, HalfGap
<1> QED
    BY <1>4, <1>5, <1>6, <1>7, <1>8 DEF DwindleInv

\* A tile takes the place of the area it was made of.
LEMMA PlaceInv == DwindleInv /\ Place => DwindleInv'
<1> SUFFICES ASSUME DwindleInv, Place PROVE DwindleInv'
    OBVIOUS
<1> DEFINE a == Head(pending).area
<1>1. /\ pending' = Tail(pending) /\ out' = Append(out, a)
      /\ UNCHANGED <<layout, usable, count>> /\ Solid(a)
    BY DEF Place
<1>2. TypeOK /\ pending # <<>>
    BY DEF DwindleInv, Place
<1>3. /\ Tail(pending) \in Seq(Call)
      /\ DOMAIN Tail(pending) \subseteq Int
      /\ \A k \in DOMAIN Tail(pending) :
            /\ k + 1 \in DOMAIN pending /\ Tail(pending)[k] = pending[k + 1]
            /\ k + 1 # 1
    BY <1>2, RestOfStack
<1>4. a = pending[1].area /\ 1 \in DOMAIN pending /\ a \in Rect
    BY <1>2, RestOfStack DEF Call
<1>5. out \in Seq(Rect)
    BY <1>2 DEF TypeOK
<1>6. /\ out' \in Seq(Rect)
      /\ DOMAIN out' = DOMAIN out \union {Len(out) + 1}
      /\ \A i \in DOMAIN out : out'[i] = out[i] /\ i # Len(out) + 1
      /\ out'[Len(out) + 1] = a
    BY <1>1, <1>4, <1>5, AppendProperties, LenProperties
<1>7. \A i \in DOMAIN out : out[i] \in Rect
    BY <1>5, ElementOfSeq, LenProperties
<1>8. 2 * HalfGap \in Nat
    BY <1>2, HalfGapType
<1> HIDE DEF a
<1>9. \A i \in DOMAIN out : Apart(out[i], a, 2 * HalfGap)
    BY <1>1, <1>4 DEF DwindleInv, TilesApartFromPending, Separate, InsideUsable
<1>10. \A i \in DOMAIN out : Apart(a, out[i], 2 * HalfGap)
    BY <1>4, <1>7, <1>8, <1>9, ApartSymmetric
<1>11. HalfGap' = HalfGap
    BY <1>1 DEF HalfGap
<1>12. TypeOK'
    BY <1>1, <1>2, <1>3, <1>6 DEF TypeOK
<1>13. GapsKept'
    BY <1>6, <1>9, <1>10, <1>11 DEF DwindleInv, GapsKept
<1>14. Within(a, usable)
    BY <1>1, <1>4 DEF DwindleInv, PendingInside
<1>15. InsideUsable'
    BY <1>1, <1>6, <1>14 DEF DwindleInv, InsideUsable
<1>16. PendingInside'
    BY <1>1, <1>3 DEF DwindleInv, PendingInside
<1>17. PendingApart'
    BY <1>1, <1>3, <1>11 DEF DwindleInv, PendingApart
<1>18. \A k \in DOMAIN Tail(pending) :
          Separate(a, Tail(pending)[k].area, 2 * HalfGap)
    BY <1>3, <1>4 DEF DwindleInv, PendingApart
<1>19. TilesApartFromPending'
    BY <1>1, <1>3, <1>6, <1>11, <1>18 DEF DwindleInv, TilesApartFromPending
<1> QED
    BY <1>12, <1>13, <1>15, <1>16, <1>17, <1>19 DEF DwindleInv

\* Dividing the first area into any two parts keeps the invariant.
LEMMA DivideInv ==
    ASSUME DwindleInv, pending # <<>>, Solid(Head(pending).area),
           NEW r, NEW s, Parts(Head(pending).area, r, s, 2 * HalfGap),
           NEW n \in Nat, NEW k \in 0..n, Divide(r, s, k, n),
           UNCHANGED <<layout, usable, count, out>>
    PROVE  DwindleInv'
<1> DEFINE a == Head(pending).area
           d == 2 * HalfGap
           first == [area |-> r, count |-> k]
           second == [area |-> s, count |-> n - k]
           rest == Tail(pending)
<1>1. TypeOK /\ 2 * HalfGap \in Nat /\ HalfGap' = HalfGap
    BY HalfGapType DEF DwindleInv, HalfGap
<1>2. /\ rest \in Seq(Call)
      /\ Len(rest) \in Nat
      /\ DOMAIN rest = 1..Len(rest)
      /\ \A j \in DOMAIN rest :
            j + 1 \in DOMAIN pending /\ rest[j] = pending[j + 1] /\ j + 1 # 1
    BY <1>1, RestOfStack, LenProperties
<1>3. a = pending[1].area /\ 1 \in DOMAIN pending /\ a \in Rect
    BY <1>1, RestOfStack DEF Call
<1>4. first \in Call /\ second \in Call /\ r \in Rect /\ s \in Rect
    BY DEF Call, Parts
<1>5. pending' = <<first, second>> \o rest
    BY DEF Divide
<1>6. <<first, second>> \in Seq(Call)
    BY <1>4
<1> HIDE DEF first, second, rest
<1>7. /\ pending' \in Seq(Call)
      /\ DOMAIN pending' = 1..(Len(rest) + 2)
      /\ pending'[1] = first /\ pending'[2] = second
      /\ \A j \in 3..(Len(rest) + 2) : j - 2 \in DOMAIN rest /\ pending'[j] = rest[j - 2]
    BY <1>2, <1>5, <1>6, ConcatProperties
<1>8. first.area = r /\ second.area = s
    BY DEF first, second
<1>9. \A j \in DOMAIN rest : rest[j].area \in Rect
    <2>1. \A j \in DOMAIN rest : rest[j] \in Call
        BY <1>2, ElementOfSeq
    <2> QED
        BY <2>1 DEF Call
<1>10. \A i \in DOMAIN out : out[i] \in Rect
    BY <1>1, ElementOfSeq, LenProperties DEF TypeOK
<1> DEFINE Cut(p) == p \in Rect /\ (Solid(p) => Within(p, a))
<1>11. Cut(r) /\ Cut(s) /\ Separate(r, s, d) /\ Separate(s, r, d)
    <2>1. Cut(r) /\ Cut(s) /\ Separate(r, s, d)
        BY DEF Parts
    <2>2. Separate(s, r, d)
        BY <1>1, <2>1, ApartSymmetric DEF Separate
    <2> QED
        BY <2>1, <2>2
<1>12. \A i \in DOMAIN out : Solid(out[i]) => Apart(out[i], a, d)
    BY <1>3 DEF DwindleInv, TilesApartFromPending, Separate
<1>13. \A j \in DOMAIN rest : Solid(rest[j].area) => Apart(rest[j].area, a, d)
    BY <1>2, <1>3 DEF DwindleInv, PendingApart, Separate
<1>14. Within(a, usable) /\ usable \in Rect
    BY <1>1, <1>3 DEF DwindleInv, PendingInside, TypeOK
<1> HIDE DEF a, d
<1>15. d \in Nat
    BY <1>1 DEF d
<1>16. ASSUME NEW p, Cut(p), NEW i \in DOMAIN out
       PROVE  Separate(out[i], p, d)
    BY <1>3, <1>10, <1>12, <1>15, <1>16, ApartInherited DEF Separate
<1>17. ASSUME NEW p, Cut(p), NEW j \in DOMAIN rest
       PROVE  Separate(rest[j].area, p, d) /\ Separate(p, rest[j].area, d)
    <2>1. Separate(rest[j].area, p, d)
        BY <1>3, <1>9, <1>13, <1>15, <1>17, ApartInherited DEF Separate
    <2>2. Separate(p, rest[j].area, d)
        BY <2>1, <1>9, <1>15, <1>17, ApartSymmetric DEF Separate
    <2> QED
        BY <2>1, <2>2
<1>18. ASSUME NEW p, Cut(p), Solid(p)
       PROVE  Within(p, usable)
    BY <1>3, <1>14, <1>18, WithinTransitive
<1>19. \A i, j \in DOMAIN rest : i # j => Separate(rest[i].area, rest[j].area, d)
    <2> SUFFICES ASSUME NEW i \in DOMAIN rest, NEW j \in DOMAIN rest, i # j
                 PROVE  Separate(rest[i].area, rest[j].area, d)
        OBVIOUS
    <2>1. i + 1 # j + 1
        BY <1>2
    <2> QED
        BY <1>2, <2>1 DEF DwindleInv, PendingApart, d
<1> HIDE DEF Cut
<1>20. TypeOK'
    BY <1>1, <1>7 DEF TypeOK
<1>21. GapsKept' /\ InsideUsable'
    BY <1>1 DEF DwindleInv, GapsKept, InsideUsable
<1>22. \A j \in DOMAIN pending' :
          \/ j = 1 /\ pending'[j].area = r
          \/ j = 2 /\ pending'[j].area = s
          \/ j \in 3..(Len(rest) + 2) /\ j - 2 \in DOMAIN rest
                /\ pending'[j].area = rest[j - 2].area
    BY <1>2, <1>7, <1>8
<1>23. PendingInside'
    <2>1. \A j \in DOMAIN rest : Solid(rest[j].area) => Within(rest[j].area, usable)
        BY <1>2 DEF DwindleInv, PendingInside
    <2> SUFFICES ASSUME NEW j \in DOMAIN pending', Solid(pending'[j].area)
                 PROVE  Within(pending'[j].area, usable)
        BY DEF PendingInside
    <2> QED
        BY <1>11, <1>18, <1>22, <2>1
<1>24. PendingApart'
    <2> SUFFICES ASSUME NEW i \in DOMAIN pending', NEW j \in DOMAIN pending', i # j
                 PROVE  Separate(pending'[i].area, pending'[j].area, d)
        BY <1>1 DEF PendingApart, d
    <2>1. CASE i \in {1, 2} /\ j \in {1, 2}
        BY <2>1, <1>11, <1>7, <1>8
    <2>2. CASE i \in {1, 2} /\ j \notin {1, 2}
        BY <2>2, <1>11, <1>17, <1>22
    <2>3. CASE i \notin {1, 2} /\ j \in {1, 2}
        BY <2>3, <1>11, <1>17, <1>22
    <2>4. CASE i \notin {1, 2} /\ j \notin {1, 2}
        <3>1. i - 2 # j - 2
            BY <1>7
        <3>2. /\ i - 2 \in DOMAIN rest /\ pending'[i].area = rest[i - 2].area
              /\ j - 2 \in DOMAIN rest /\ pending'[j].area = rest[j - 2].area
            BY <1>22, <2>4
        <3> QED
            BY <1>19, <3>1, <3>2
    <2> QED
        BY <2>1, <2>2, <2>3, <2>4
<1>25. TilesApartFromPending'
    <2>1. \A i \in DOMAIN out, j \in DOMAIN rest : Separate(out[i], rest[j].area, d)
        BY <1>2 DEF DwindleInv, TilesApartFromPending, d
    <2> SUFFICES ASSUME NEW i \in DOMAIN out, NEW j \in DOMAIN pending'
                 PROVE  Separate(out[i], pending'[j].area, d)
        BY <1>1 DEF TilesApartFromPending, d
    <2> QED
        BY <1>11, <1>16, <1>22, <2>1
<1> QED
    BY <1>20, <1>21, <1>23, <1>24, <1>25 DEF DwindleInv

\* A wide area divided.
LEMMA SplitWideInv == DwindleInv /\ SplitWide => DwindleInv'
<1> SUFFICES ASSUME DwindleInv, SplitWide PROVE DwindleInv'
    OBVIOUS
<1> DEFINE a == Head(pending).area
           n == Head(pending).count
           k == LeftCount(a, n)
           s == Share(a.w, k, n)
<1>1. TypeOK /\ pending # <<>>
    BY DEF DwindleInv, SplitWide
<1>2. a \in Rect /\ a.w \in Nat /\ n \in Nat
    BY <1>1, RestOfStack DEF Call, Rect
<1>3. /\ n > 1
      /\ Solid(a)
      /\ Divide(Left(a, s, HalfGap), Right(a, s, HalfGap), k, n)
      /\ UNCHANGED <<layout, usable, count, out>>
    BY DEF SplitWide
<1>4. k \in 0..n
    BY <1>2, <1>3, LeftCountBounds
<1> HIDE DEF k, n
<1>5. s \in 0..a.w
    <2>1. n > 0
        BY <1>2, <1>3
    <2> QED
        BY <1>2, <1>4, <2>1, ShareBounds
<1> HIDE DEF s
<1>6. Parts(a, Left(a, s, HalfGap), Right(a, s, HalfGap), 2 * HalfGap)
    <2>1. HalfGap \in Nat
        BY <1>1, HalfGapType
    <2> QED
        BY <1>2, <1>5, <2>1, WideParts
<1> QED
    BY <1>1, <1>2, <1>3, <1>4, <1>6, DivideInv

\* A tall area divided.
LEMMA SplitTallInv == DwindleInv /\ SplitTall => DwindleInv'
<1> SUFFICES ASSUME DwindleInv, SplitTall PROVE DwindleInv'
    OBVIOUS
<1> DEFINE a == Head(pending).area
           n == Head(pending).count
           k == LeftCount(a, n)
           s == Share(a.h, k, n)
<1>1. TypeOK /\ pending # <<>>
    BY DEF DwindleInv, SplitTall
<1>2. a \in Rect /\ a.h \in Nat /\ n \in Nat
    BY <1>1, RestOfStack DEF Call, Rect
<1>3. /\ n > 1
      /\ Solid(a)
      /\ Divide(Top(a, s, HalfGap), Bottom(a, s, HalfGap), k, n)
      /\ UNCHANGED <<layout, usable, count, out>>
    BY DEF SplitTall
<1>4. k \in 0..n
    BY <1>2, <1>3, LeftCountBounds
<1> HIDE DEF k, n
<1>5. s \in 0..a.h
    <2>1. n > 0
        BY <1>2, <1>3
    <2> QED
        BY <1>2, <1>4, <2>1, ShareBounds
<1> HIDE DEF s
<1>6. Parts(a, Top(a, s, HalfGap), Bottom(a, s, HalfGap), 2 * HalfGap)
    <2>1. HalfGap \in Nat
        BY <1>1, HalfGapType
    <2> QED
        BY <1>2, <1>5, <2>1, TallParts
<1> QED
    BY <1>1, <1>2, <1>3, <1>4, <1>6, DivideInv

\* Nothing changes, nothing is disturbed.
LEMMA StutterInv == DwindleInv /\ UNCHANGED vars => DwindleInv'
BY DEF DwindleInv, vars, TypeOK, GapsKept, InsideUsable, PendingInside,
       PendingApart, TilesApartFromPending, HalfGap

\* The invariant holds in every reachable state.
THEOREM Invariance == Spec => []DwindleInv
<1>1. DwindleInv /\ [Next]_vars => DwindleInv'
    BY SkipInv, PlaceInv, SplitWideInv, SplitTallInv, StutterInv DEF Next
<1> QED
    BY InitInv, <1>1, PTL DEF Spec

-----------------------------------------------------------------------------
(* The theorems *)

\* Any two tiles dwindle returns are apart by the inner gap.
THEOREM TilesApart == Spec => []GapsKept
<1>1. DwindleInv => GapsKept
    BY DEF DwindleInv
<1> QED
    BY Invariance, <1>1, PTL

\* Every tile dwindle returns is solid and inside the usable area.
THEOREM TilesInside == Spec => []InsideUsable
<1>1. DwindleInv => InsideUsable
    BY DEF DwindleInv
<1> QED
    BY Invariance, <1>1, PTL

\* The windows arrange_force sizes into those tiles are disjoint.
THEOREM WindowsApart == Spec => []WindowsDisjoint
<1>1. ASSUME NEW r \in Rect, NEW s \in Rect, Solid(r), Solid(s),
             TypeOK, Apart(r, s, 2 * HalfGap)
      PROVE  Apart(WindowIn(r), WindowIn(s), 0)
    <2> DEFINE b == layout.border
    <2>1. b \in Nat /\ 2 * HalfGap \in Nat
        BY <1>1, LayoutsAssumption, HalfGapType DEF TypeOK
    <2>2. ASSUME NEW t \in Rect, Solid(t)
          PROVE  /\ WindowIn(t).x = t.x + b /\ WindowIn(t).y = t.y + b
                 /\ WindowIn(t).w \in 1..t.w /\ WindowIn(t).h \in 1..t.h
        BY <2>1, <2>2 DEF WindowIn, Shrink, AtLeast, Solid, Rect
    <2> HIDE DEF b
    <2>3. /\ WindowIn(r).x = r.x + b /\ WindowIn(r).y = r.y + b
          /\ WindowIn(r).w \in 1..r.w /\ WindowIn(r).h \in 1..r.h
          /\ WindowIn(s).x = s.x + b /\ WindowIn(s).y = s.y + b
          /\ WindowIn(s).w \in 1..s.w /\ WindowIn(s).h \in 1..s.h
        BY <1>1, <2>2
    <2> QED
        BY <1>1, <2>1, <2>3 DEF Apart, Rect
<1>2. DwindleInv => WindowsDisjoint
    <2> SUFFICES ASSUME DwindleInv, NEW i \in DOMAIN out, NEW j \in DOMAIN out, i # j
                 PROVE  Apart(WindowIn(out[i]), WindowIn(out[j]), 0)
        BY DEF WindowsDisjoint
    <2>1. out[i] \in Rect /\ out[j] \in Rect
        BY ElementOfSeq, LenProperties DEF DwindleInv, TypeOK
    <2>2. Solid(out[i]) /\ Solid(out[j]) /\ TypeOK /\ Apart(out[i], out[j], 2 * HalfGap)
        BY DEF DwindleInv, InsideUsable, GapsKept
    <2> QED
        BY <1>1, <2>1, <2>2
<1> QED
    BY Invariance, <1>2, PTL
-----------------------------------------------------------------------------
(* Every window is placed *)

\* The sides, four and two times over, that n windows ask of an area whose
\* halves of the gap are g: of both sides, and of the longer one.
Short(n, g) ==
    IF n <= 2 THEN 4
    ELSE IF n <= 4 THEN 4 * (2 + 2 * g) ELSE (n + 3) * (1 + 2 * g)
Long(n, g) ==
    IF n = 1 THEN 2
    ELSE IF n = 2 THEN 2 * (2 + 2 * g) ELSE (n + 1) * (1 + 2 * g)

\* An area x by y that is cut for n windows without losing one.  Without gaps a
\* row of them in either direction is enough, too.
RoomFor(x, y, n, g) ==
    /\ x >= 1 /\ y >= 1
    /\ g = 0 => x >= n \/ y >= n \/ (2 * x >= n + 1 /\ 2 * y >= n + 1)
    /\ g > 0 => /\ 4 * x >= Short(n, g) /\ 4 * y >= Short(n, g)
                /\ 2 * x >= Long(n, g) \/ 2 * y >= Long(n, g)

Halves(n) == {n \div 2, (n + 1) \div 2}

\* A share is exact but for a remainder, which the other piece gets.
LEMMA ShareRemainder ==
    ASSUME NEW side \in Nat, NEW n \in Nat, n > 0, NEW k \in 0..n
    PROVE  /\ Share(side, k, n) * n >= side * k - n + 1
           /\ (side - Share(side, k, n)) * n >= side * (n - k)
<1> DEFINE p == side * k
           q == p \div n
<1>1. p \in Nat
    BY SMT
<1>2. q \in Int /\ p = q * n + (p % n) /\ (p % n) \in 0..(n - 1)
    BY <1>1, SMT
<1>3. (side - q) * n = side * n - q * n /\ side * (n - k) = side * n - p
    BY <1>2, SMT
<1> HIDE DEF q, p
<1>4. q * n \in Int /\ side * n \in Int
    BY <1>2, SMT
<1>5. q * n >= p - n + 1 /\ q * n <= p
    BY <1>1, <1>2, <1>4, SMT
<1>6. (side - q) * n >= side * (n - k)
    BY <1>1, <1>3, <1>4, <1>5, SMT
<1> QED
    BY <1>5, <1>6 DEF Share, p, q

\* Of eight windows and more, a piece keeps half of its windows' row.
LEMMA PieceOfMany ==
    ASSUME NEW L \in Nat, NEW n \in Nat, n >= 1, NEW j \in Nat, NEW p \in Int,
           NEW m \in Nat, m >= 1, 2 * L >= (n + 1) * m, p * n >= L * j - n + 1
    PROVE  2 * p >= m * j - 1
<1>1. L * j \in Nat /\ p * n \in Int /\ m * j \in Nat
    BY SMT
<1>2. (2 * L) * j >= ((n + 1) * m) * j
    BY SMT
<1>3. (2 * L) * j = 2 * (L * j) /\ ((n + 1) * m) * j = n * (m * j) + m * j
    BY SMT
<1> DEFINE q == m * j
<1>4. n * q \in Int
    BY <1>1, SMT
<1>5. 2 * (p * n) >= n * q + q - 2 * n + 2
    <2> HIDE DEF q
    <2>1. QED
      BY <1>1, <1>2, <1>3, <1>4 DEF q
<1>6. SUFFICES ASSUME 2 * p <= q - 2 PROVE FALSE
    BY <1>1
<1>7. (2 * p) * n <= (q - 2) * n
    BY <1>1, <1>6, SMT
<1>8. (2 * p) * n = 2 * (p * n) /\ (q - 2) * n = n * q - 2 * n
    BY <1>1, SMT
<1> QED
    <2> HIDE DEF q
    <2>1. q \in Nat
      BY <1>1 DEF q
    <2>2. QED
      BY <1>1, <1>4, <1>5, <1>7, <1>8, <2>1

\* With gaps: a piece of the longer side, with its windows.
LEMMA PieceWithGap ==
    ASSUME NEW L \in Nat, NEW o \in Nat, L >= o, NEW n \in Nat, n >= 2,
           NEW g \in Nat, g > 0, RoomFor(L, o, n, g),
           NEW j \in Halves(n), NEW p \in Int, p * n >= L * j - n + 1
    PROVE  RoomFor(p - g, o, j, g)
<1> DEFINE m == 1 + 2 * g
<1>1. 4 * o >= Short(n, g) /\ 2 * L >= Long(n, g)
    BY DEF RoomFor, Long, Short
<1>2. CASE n = 2
    <2>1. j = 1 /\ L >= 2 + 2 * g
      BY <1>1, <1>2 DEF Halves, Long
    <2>2. p >= 1 + g
      BY <1>2, <2>1
    <2>3. QED
      BY <1>1, <1>2, <2>1, <2>2 DEF RoomFor, Short, Long
<1>3. CASE n = 3
    <2>1. j \in {1, 2} /\ 2 * L >= 4 * m /\ o >= 2 + 2 * g
      BY <1>1, <1>3 DEF Halves, Short, Long
    <2>2. p >= 1 + g
      BY <1>3, <2>1
    <2>3. QED
      BY <2>1, <2>2 DEF RoomFor, Short, Long
<1>4. CASE n = 4
    <2>1. j = 2 /\ 2 * L >= 5 * m /\ o >= 2 + 2 * g
      BY <1>1, <1>4 DEF Halves, Short, Long
    <2>2. p >= 1 + g
      BY <1>4, <2>1
    <2>3. QED
      BY <2>1, <2>2 DEF RoomFor, Short, Long
<1>5. CASE n = 5
    <2>1. j \in {2, 3} /\ 2 * L >= 6 * m /\ o >= 2 * m
      BY <1>1, <1>5 DEF Halves, Short, Long
    <2>2. p >= 1 + g /\ (j = 3 => p - g >= 2 + 2 * g)
      BY <1>5, <2>1
    <2>3. QED
      BY <2>1, <2>2 DEF RoomFor, Short, Long
<1>6. CASE n = 6
    <2>1. j = 3 /\ 2 * L >= 7 * m /\ 4 * o >= 9 * m
      BY <1>1, <1>6 DEF Halves, Short, Long
    <2>2. p - g >= 2 + 2 * g
      BY <1>6, <2>1
    <2>3. QED
      BY <2>1, <2>2 DEF RoomFor, Short, Long
<1>7. CASE n = 7
    <2>1. j \in {3, 4} /\ 2 * L >= 8 * m /\ 4 * o >= 10 * m
      BY <1>1, <1>7 DEF Halves, Short, Long
    <2>2. p - g >= 2 + 2 * g
      BY <1>7, <2>1
    <2>3. QED
      BY <2>1, <2>2 DEF RoomFor, Short, Long
<1>8. CASE n >= 8
    <2>1. j \in Nat /\ j >= 4 /\ n >= 2 * j - 1
      BY <1>8 DEF Halves
    <2>2. m \in Nat /\ m >= 3 /\ 4 * o >= (n + 3) * m /\ 2 * L >= (n + 1) * m
      BY <1>1, <1>8 DEF Short, Long
    <2> HIDE DEF m
    <2>3. 2 * p >= m * j - 1
      BY <2>1, <2>2, PieceOfMany
    <2>4. (n + 3) * m >= (2 * j + 2) * m
      BY <2>1, <2>2, SMT
    <2>5. (2 * j + 2) * m = 2 * ((j + 1) * m)
      BY <2>1, <2>2, SMT
    <2>6. 2 * o >= (j + 1) * m
      <3>1. (j + 1) * m \in Nat /\ (n + 3) * m \in Nat
        BY <2>1, <2>2, SMT
      <3>2. QED
        BY <2>2, <2>4, <2>5, <3>1
    <2>7. m * j \in Nat /\ (j + 1) * m = m * j + m /\ (j + 3) * m = m * j + 3 * m
      BY <2>1, <2>2, SMT
    <2>8. m * j >= m * 4 /\ (j >= 5 => m * j >= m * 5)
      BY <2>1, <2>2, SMT
    <2>9. 4 * (p - g) >= 2 * (m * j) - 2 * m
      BY <2>3, <2>7 DEF m
    <2>10. 4 * (p - g) >= Short(j, g) /\ 4 * o >= Short(j, g) /\ 2 * o >= Long(j, g)
      <3>1. CASE j = 4
        BY <2>2, <2>6, <2>7, <2>8, <2>9, <3>1 DEF Short, Long, m
      <3>2. CASE j >= 5
        <4>1. Short(j, g) = m * j + 3 * m /\ Long(j, g) = m * j + m
          BY <2>1, <2>7, <3>2 DEF Short, Long, m
        <4>2. QED
          BY <2>2, <2>6, <2>7, <2>8, <2>9, <3>2, <4>1
      <3>3. QED
        BY <2>1, <3>1, <3>2
    <2>11. p - g >= 1 /\ o >= 1
      BY <2>2, <2>7, <2>8, <2>9 DEF RoomFor
    <2>12. QED
      BY <2>10, <2>11 DEF RoomFor
<1>9. QED
    BY <1>2, <1>3, <1>4, <1>5, <1>6, <1>7, <1>8
\* Without gaps: a piece of the longer side that is not empty.
LEMMA PieceWithoutGap ==
    ASSUME NEW L \in Nat, NEW o \in Nat, L >= o, NEW n \in Nat, n >= 2,
           RoomFor(L, o, n, 0),
           NEW j \in Halves(n), NEW p \in Int, p >= 1, p * n >= L * j - n + 1
    PROVE  RoomFor(p, o, j, 0)
<1>1. j \in Nat /\ j >= 1 /\ 2 * j <= n + 1 /\ o >= 1
    BY DEF Halves, RoomFor
<1>2. CASE L >= n
    <2>1. L * j >= n * j /\ L * j \in Nat /\ n * j \in Nat /\ p * n \in Int
      BY <1>1, <1>2, SMT
    <2>2. SUFFICES ASSUME p <= j - 1 PROVE FALSE
      BY <1>1 DEF RoomFor
    <2>3. p * n <= (j - 1) * n /\ (j - 1) * n = n * j - n
      BY <1>1, <2>2, SMT
    <2>4. QED
      BY <2>1, <2>3
<1>3. CASE L < n
    BY <1>1, <1>3 DEF RoomFor
<1>4. QED
    BY <1>2, <1>3

\* The first piece of the longer side is not empty: the wide cut rounds the
\* number of windows up, and the tall one has a side that is strictly longer.
LEMMA FirstPieceSolid ==
    ASSUME NEW L \in Nat, NEW o \in Nat, L >= o, NEW n \in Nat, n >= 2,
           RoomFor(L, o, n, 0), NEW k \in Halves(n), 2 * k >= n \/ L > o
    PROVE  L * k >= n
<1>1. k \in Nat /\ k >= 1 /\ 2 * k >= n - 1
    BY DEF Halves
<1>2. CASE L >= n
    <2>1. L * k >= L * 1
      BY <1>1, SMT
    <2>2. L * k \in Nat
      BY <1>1, SMT
    <2>3. QED
      BY <1>2, <2>1, <2>2
<1>3. CASE L < n
    <2>1. 2 * o >= n + 1 /\ L >= 2
      BY <1>3 DEF RoomFor
    <2>2. CASE 2 * k >= n
      <3>1. L * k >= 2 * k
        BY <1>1, <2>1, SMT
      <3>2. L * k \in Nat
        BY <1>1, SMT
      <3>3. QED
        BY <1>1, <2>2, <3>1, <3>2
    <2>3. CASE 2 * k = n - 1
      <3>1. L >= 3 /\ n >= 3
        BY <1>1, <2>1, <2>3
      <3>2. L * k >= 3 * k
        BY <1>1, <3>1, SMT
      <3>3. L * k \in Nat
        BY <1>1, SMT
      <3>4. QED
        BY <1>1, <2>3, <3>1, <3>2, <3>3
    <2>4. QED
      BY <1>1, <2>2, <2>3
<1>4. QED
    BY <1>2, <1>3

\* Cutting the longer side leaves both pieces room for their windows.
THEOREM CutFits ==
    ASSUME NEW L \in Nat, NEW o \in Nat, L >= o, NEW n \in Nat, n >= 2,
           NEW g \in Nat, RoomFor(L, o, n, g),
           NEW k \in Halves(n), 2 * k >= n \/ L > o
    PROVE  LET s == Share(L, k, n)
           IN  RoomFor(s - g, o, k, g) /\ RoomFor(L - s - g, o, n - k, g)
<1> DEFINE s == Share(L, k, n)
<1>1. k \in 0..n /\ n - k \in Halves(n) /\ k >= 1 /\ n - k >= 1 /\ n > 0
    BY DEF Halves
<1>2. s \in Int /\ s * n >= L * k - n + 1 /\ (L - s) * n >= L * (n - k)
    <2>1. s \in 0..L
      BY <1>1, ShareBounds
    <2>2. QED
      BY <1>1, <2>1, ShareRemainder
<1> HIDE DEF s
<1>3. L * (n - k) \in Nat /\ L * k \in Nat /\ s * n \in Int /\ (L - s) * n \in Int
    BY <1>1, <1>2, SMT
<1>4. (L - s) * n >= L * (n - k) - n + 1
    BY <1>2, <1>3
<1>5. CASE g > 0
    <2>1. RoomFor(s - g, o, k, g)
      BY <1>2, <1>5, PieceWithGap
    <2>2. RoomFor((L - s) - g, o, n - k, g)
      <3>1. L - s \in Int /\ n - k \in Halves(n)
        BY <1>1, <1>2
      <3> HIDE DEF s
      <3>2. QED
        BY <1>4, <1>5, <3>1, PieceWithGap
    <2>3. QED
      BY <2>1, <2>2 DEF s
<1>6. CASE g = 0
    <2>1. s >= 1
      <3>1. L * k >= n
        BY <1>6, FirstPieceSolid
      <3>2. SUFFICES ASSUME s <= 0 PROVE FALSE
        BY <1>2
      <3>3. s * n <= 0
        BY <1>2, <3>2, SMT
      <3>4. QED
        BY <1>2, <1>3, <3>1, <3>3
    <2>2. L - s >= 1
      <3>1. L * (n - k) >= 1
        <4>1. L >= 1
          BY DEF RoomFor
        <4>2. QED
          BY <1>1, <4>1, SMT
      <3>2. SUFFICES ASSUME L - s <= 0 PROVE FALSE
        BY <1>2
      <3>3. (L - s) * n <= 0
        BY <1>2, <3>2, SMT
      <3>4. QED
        BY <1>2, <1>3, <3>1, <3>3
    <2>3. RoomFor(s, o, k, 0) /\ RoomFor(L - s, o, n - k, 0)
      BY <1>1, <1>2, <1>4, <1>6, <2>1, <2>2, PieceWithoutGap
    <2>4. s - g = s /\ L - s - g = L - s
      BY <1>2, <1>6
    <2>5. QED
      BY <1>6, <2>3, <2>4 DEF s
<1>7. QED
    BY <1>5, <1>6

\* The room does not depend on which side is called which.
LEMMA RoomTurned ==
    ASSUME NEW x, NEW y, NEW n, NEW g
    PROVE  RoomFor(x, y, n, g) <=> RoomFor(y, x, n, g)
BY DEF RoomFor

\* What Ample asks of the usable area is room for all windows.
LEMMA AmpleRoom ==
    ASSUME NEW x \in Nat, NEW y \in Nat, NEW n \in Nat, n >= 1, NEW g \in Nat,
           2 * x >= (n + 1) * (1 + 2 * g), 2 * y >= (n + 1) * (1 + 2 * g)
    PROVE  RoomFor(x, y, n, g)
<1> DEFINE m == 1 + 2 * g
<1>1. CASE g = 0
    BY <1>1 DEF RoomFor
<1>2. CASE g > 0 /\ n <= 4
    <2>1. n \in {1, 2, 3, 4}
      BY <1>2
    <2>2. QED
      BY <1>2, <2>1 DEF RoomFor, Short, Long
<1>3. CASE g > 0 /\ n >= 5
    <2> HIDE DEF m
    <2>1. m \in Nat /\ m >= 3
      BY <1>3 DEF m
    <2>2. 2 * ((n + 1) * m) = (2 * n + 2) * m
      BY <2>1, SMT
    <2>3. (2 * n + 2) * m >= (n + 3) * m
      BY <1>3, <2>1, SMT
    <2>4. (n + 1) * m \in Nat /\ (n + 3) * m \in Nat /\ (n + 1) * m >= 6 * m
      BY <1>3, <2>1, SMT
    <2>5. 4 * x >= (n + 3) * m /\ 4 * y >= (n + 3) * m /\ x >= 1 /\ y >= 1
      BY <2>1, <2>2, <2>3, <2>4 DEF m
    <2>6. Short(n, g) = (n + 3) * m /\ Long(n, g) = (n + 1) * m
      BY <1>3 DEF Short, Long, m
    <2>7. QED
      BY <1>3, <2>5, <2>6 DEF RoomFor, m
<1>4. QED
    BY <1>1, <1>2, <1>3

\* The call has no window to place, or room for all of its windows.
Fits(c) == c.count = 0 \/ RoomFor(c.area.w, c.area.h, c.count, HalfGap)

\* f gives the windows of each call and of all calls after it.
Waiting(calls, f) ==
    /\ f \in [1..(Len(calls) + 1) -> Nat]
    /\ f[Len(calls) + 1] = 0
    /\ \A i \in 1..Len(calls) : f[i] = calls[i].count + f[i + 1]

\* Placed and waiting windows together are never too many; with ample room no
\* window is lost, as every call has room for its own.
PlacedInv ==
    /\ \E f : /\ Waiting(pending, f)
              /\ Len(out) + f[1] <= count
              /\ Ample => Len(out) + f[1] = count
    /\ Ample => \A k \in 1..Len(pending) : Fits(pending[k])

\* At first all windows wait in the one call.
LEMMA InitPlaced == Init => PlacedInv
<1> SUFFICES ASSUME Init PROVE PlacedInv
    OBVIOUS
<1>1. TypeOK
    BY InitInv DEF DwindleInv
<1>2. usable.w \in Nat /\ usable.h \in Nat /\ count \in Nat /\ HalfGap \in Nat
    BY <1>1, HalfGapType DEF TypeOK, Rect
<1>3. /\ pending = <<[area |-> usable, count |-> count]>>
      /\ Len(pending) = 1 /\ pending[1].count = count /\ pending[1].area = usable
      /\ Len(out) = 0
    BY DEF Init
<1>4. Ample => Fits(pending[1])
    <2>1. CASE count = 0
      BY <1>3, <2>1 DEF Fits
    <2>2. CASE count >= 1
      BY <1>2, <1>3, <2>2, AmpleRoom DEF Fits, Ample
    <2>3. QED
      BY <1>2, <2>1, <2>2
<1> DEFINE f == [i \in 1..2 |-> IF i = 1 THEN count ELSE 0]
<1>5. Waiting(pending, f) /\ f[1] = count
    BY <1>2, <1>3 DEF Waiting
<1>6. QED
    <2> HIDE DEF f
    <2>1. QED
      BY <1>2, <1>3, <1>4, <1>5 DEF PlacedInv

\* Without its first call, the stack has the windows of that call less.
LEMMA WaitingTail ==
    ASSUME TypeOK, pending # <<>>, NEW f, Waiting(pending, f)
    PROVE  \E f2 : /\ Waiting(Tail(pending), f2)
                   /\ f[1] \in Nat /\ f2[1] \in Nat
                   /\ f[1] = Head(pending).count + f2[1]
<1>1. /\ Head(pending) = pending[1] /\ Len(pending) \in Nat /\ Len(pending) >= 1
      /\ Len(Tail(pending)) = Len(pending) - 1
      /\ \A k \in 1..(Len(pending) - 1) : Tail(pending)[k] = pending[k + 1]
    BY RestOfStack, LenProperties DEF TypeOK
<1> DEFINE n == Len(pending)
           f2 == [i \in 1..n |-> f[i + 1]]
<1>2. f \in [1..(n + 1) -> Nat] /\ f[n + 1] = 0
      /\ \A i \in 1..n : f[i] = pending[i].count + f[i + 1]
    BY DEF Waiting
<1> HIDE DEF n
<1>3. n \in Nat /\ n >= 1
    BY <1>1 DEF n
<1>4. f2 \in [1..n -> Nat] /\ f2[n] = 0 /\ f2[1] = f[2]
    BY <1>2, <1>3
<1>5. \A i \in 1..(n - 1) : f2[i] = Tail(pending)[i].count + f2[i + 1]
    <2>1. SUFFICES ASSUME NEW i \in 1..(n - 1)
                   PROVE  f2[i] = Tail(pending)[i].count + f2[i + 1]
      OBVIOUS
    <2>2. i + 1 \in 1..n /\ Tail(pending)[i] = pending[i + 1] /\ i \in 1..n
      BY <1>1, <1>3 DEF n
    <2>3. f2[i] = f[i + 1] /\ f2[i + 1] = f[(i + 1) + 1]
      BY <2>2
    <2>4. QED
      BY <1>2, <2>2, <2>3
<1>6. Waiting(Tail(pending), f2)
    <2>1. Len(Tail(pending)) = n - 1 /\ (n - 1) + 1 = n
      BY <1>1, <1>3 DEF n
    <2> HIDE DEF f2
    <2>2. QED
      BY <1>4, <1>5, <2>1 DEF Waiting
<1>7. f[1] \in Nat /\ f[1] = pending[1].count + f[2]
    BY <1>2, <1>3
<1>8. f2[1] \in Nat
    BY <1>3, <1>4
<1>9. QED
    <2> HIDE DEF f2
    <2>1. QED
      BY <1>1, <1>4, <1>6, <1>7, <1>8
\* The calls left on the stack are calls of the stack before.
LEMMA FitsTail ==
    ASSUME TypeOK, pending # <<>>, \A k \in 1..Len(pending) : Fits(pending[k])
    PROVE  \A k \in 1..Len(Tail(pending)) : Fits(Tail(pending)[k])
BY RestOfStack, LenProperties DEF TypeOK

\* Only calls without a window are skipped when the room is ample.
LEMMA SkipPlaced == DwindleInv /\ PlacedInv /\ Skip => PlacedInv'
<1> SUFFICES ASSUME DwindleInv, PlacedInv, Skip PROVE PlacedInv'
    OBVIOUS
<1>1. TypeOK /\ pending # <<>> /\ pending' = Tail(pending)
      /\ UNCHANGED <<layout, usable, count, out>>
    BY DEF DwindleInv, Skip
<1>2. (Ample' <=> Ample) /\ HalfGap' = HalfGap /\ count \in Nat /\ Len(out) \in Nat
    BY <1>1, LenProperties DEF Ample, HalfGap, TypeOK
<1>3. Head(pending) = pending[1] /\ 1 \in 1..Len(pending) /\ Head(pending) \in Call
    BY <1>1, RestOfStack, LenProperties DEF TypeOK
<1>4. Head(pending).count \in Nat
    BY <1>3 DEF Call
<1>5. Ample => Head(pending).count = 0
    <2>1. SUFFICES ASSUME Ample, Head(pending).count # 0 PROVE FALSE
      OBVIOUS
    <2>2. ~Solid(Head(pending).area)
      BY <2>1 DEF Skip
    <2>3. RoomFor(Head(pending).area.w, Head(pending).area.h, Head(pending).count, HalfGap)
      BY <1>3, <2>1 DEF PlacedInv, Fits
    <2>4. Head(pending).area.w \in Nat /\ Head(pending).area.h \in Nat
      BY <1>3 DEF Call, Rect
    <2>5. QED
      BY <2>2, <2>3, <2>4 DEF RoomFor, Solid
<1>6. PICK f : /\ Waiting(pending, f)
               /\ Len(out) + f[1] <= count
               /\ Ample => Len(out) + f[1] = count
    BY DEF PlacedInv
<1>7. PICK f2 : /\ Waiting(Tail(pending), f2)
                /\ f[1] \in Nat /\ f2[1] \in Nat
                /\ f[1] = Head(pending).count + f2[1]
    BY <1>1, <1>6, WaitingTail
<1>8. /\ Len(out) + f2[1] <= count
      /\ Ample => Len(out) + f2[1] = count
    BY <1>2, <1>4, <1>5, <1>6, <1>7
<1>9. Ample => \A k \in 1..Len(Tail(pending)) : Fits(Tail(pending)[k])
    BY <1>1, FitsTail DEF PlacedInv
<1>10. \A c : Fits(c)' <=> Fits(c)
    BY <1>2 DEF Fits
<1>11. QED
    BY <1>1, <1>2, <1>7, <1>8, <1>9, <1>2 DEF PlacedInv, Fits

\* A window placed is a window less that waits.
LEMMA PlacePlaced == DwindleInv /\ PlacedInv /\ Place => PlacedInv'
<1> SUFFICES ASSUME DwindleInv, PlacedInv, Place PROVE PlacedInv'
    OBVIOUS
<1>1. TypeOK /\ pending # <<>> /\ pending' = Tail(pending)
      /\ UNCHANGED <<layout, usable, count>> /\ Head(pending).count = 1
      /\ out' = Append(out, Head(pending).area)
    BY DEF DwindleInv, Place
<1>2. (Ample' <=> Ample) /\ HalfGap' = HalfGap /\ count \in Nat /\ Len(out) \in Nat
    BY <1>1, LenProperties DEF Ample, HalfGap, TypeOK
<1>3. Head(pending).area \in Rect
    BY <1>1, RestOfStack DEF Call
<1>4. Len(out') = Len(out) + 1
    BY <1>1, <1>3, AppendProperties DEF TypeOK
<1>5. PICK f : /\ Waiting(pending, f)
               /\ Len(out) + f[1] <= count
               /\ Ample => Len(out) + f[1] = count
    BY DEF PlacedInv
<1>6. PICK f2 : /\ Waiting(Tail(pending), f2)
                /\ f[1] \in Nat /\ f2[1] \in Nat
                /\ f[1] = Head(pending).count + f2[1]
    BY <1>1, <1>5, WaitingTail
<1>7. /\ Len(out') + f2[1] <= count
      /\ Ample => Len(out') + f2[1] = count
    <2>1. Len(out') + f2[1] = Len(out) + f[1]
      BY <1>1, <1>2, <1>4, <1>6
    <2>2. QED
      BY <1>5, <2>1
<1>8. Ample => \A k \in 1..Len(Tail(pending)) : Fits(Tail(pending)[k])
    BY <1>1, FitsTail DEF PlacedInv
<1>9. QED
    BY <1>1, <1>2, <1>6, <1>7, <1>8 DEF PlacedInv, Fits

\* A division whose pieces have room for their windows loses none.
LEMMA DividePlaced ==
    ASSUME DwindleInv, PlacedInv, pending # <<>>, NEW r, NEW s,
           NEW k \in 0..Head(pending).count,
           Divide(r, s, k, Head(pending).count),
           UNCHANGED <<layout, usable, count, out>>,
           Ample => /\ Fits([area |-> r, count |-> k])
                    /\ Fits([area |-> s, count |-> Head(pending).count - k])
    PROVE  PlacedInv'
<1> DEFINE n == Head(pending).count
           first == [area |-> r, count |-> k]
           second == [area |-> s, count |-> n - k]
           rest == Tail(pending)
<1>1. TypeOK
    BY DEF DwindleInv
<1>2. (Ample' <=> Ample) /\ HalfGap' = HalfGap
    BY DEF Ample, HalfGap
<1>3. rest \in Seq(Call) /\ n \in Nat
    BY <1>1, RestOfStack DEF Call
<1>4. Len(rest) \in Nat
    BY <1>3, LenProperties
<1>5. first.count = k /\ second.count = n - k /\ k \in Nat /\ n - k \in Nat
    BY <1>3
<1>6. pending' = <<first, second>> \o rest
    BY DEF Divide
<1>7. PICK f : /\ Waiting(pending, f)
               /\ Len(out) + f[1] <= count
               /\ Ample => Len(out) + f[1] = count
    BY DEF PlacedInv
<1>8. PICK f2 : /\ Waiting(rest, f2)
                /\ f[1] \in Nat /\ f2[1] \in Nat
                /\ f[1] = n + f2[1]
    BY <1>1, <1>7, WaitingTail
<1>9. Ample => Fits(first) /\ Fits(second) /\ \A j \in 1..Len(rest) : Fits(rest[j])
    BY <1>1, FitsTail DEF PlacedInv
<1> HIDE DEF first, second, rest, n
<1>10. /\ Len(pending') = Len(rest) + 2
       /\ pending'[1] = first /\ pending'[2] = second
       /\ \A j \in 3..(Len(rest) + 2) : j - 2 \in 1..Len(rest) /\ pending'[j] = rest[j - 2]
    <2> DEFINE T == {first, second} \union Call
    <2>1. <<first, second>> \in Seq(T) /\ rest \in Seq(T) /\ Len(<<first, second>>) = 2
          /\ <<first, second>>[1] = first /\ <<first, second>>[2] = second
      <3>1. rest \in Seq(T)
        <4>1. \A i \in 1..Len(rest) : rest[i] \in T
          BY <1>3, ElementOfSeq
        <4>2. rest = [i \in 1..Len(rest) |-> rest[i]]
          BY <1>3, LenProperties
        <4> HIDE DEF T
        <4>3. QED
          BY <1>4, <4>1, <4>2
      <3> HIDE DEF T
      <3>2. first \in T /\ second \in T
        BY DEF T
      <3>3. QED
        BY <3>1, <3>2
    <2> HIDE DEF T
    <2>2. QED
      BY <1>4, <1>6, <2>1, ConcatProperties
<1> DEFINE f3 == [i \in 1..(Len(rest) + 3) |->
                     IF i = 1 THEN f[1] ELSE IF i = 2 THEN f[1] - k ELSE f2[i - 2]]
<1>11. f2 \in [1..(Len(rest) + 1) -> Nat] /\ f2[Len(rest) + 1] = 0
       /\ \A i \in 1..Len(rest) : f2[i] = rest[i].count + f2[i + 1]
    BY <1>8 DEF Waiting
<1>12. f3 \in [1..(Len(rest) + 3) -> Nat] /\ f3[Len(rest) + 3] = 0 /\ f3[1] = f[1]
    <2>1. f[1] - k \in Nat
      BY <1>3, <1>5, <1>8
    <2>2. \A i \in 3..(Len(rest) + 3) : i - 2 \in 1..(Len(rest) + 1)
      BY <1>4
    <2>3. \A i \in 3..(Len(rest) + 3) : f2[i - 2] \in Nat
      BY <1>11, <2>2
    <2>4. QED
      BY <1>4, <1>8, <1>11, <2>1, <2>3
<1>13. \A i \in 1..(Len(rest) + 2) : f3[i] = pending'[i].count + f3[i + 1]
    <2>1. f3[1] = pending'[1].count + f3[2]
      BY <1>4, <1>5, <1>8, <1>10
    <2>2. f3[2] = pending'[2].count + f3[3]
      <3>1. f3[2] = f[1] - k /\ f3[3] = f2[1]
        BY <1>4
      <3>2. QED
        BY <1>3, <1>5, <1>8, <1>10, <3>1
    <2>3. ASSUME NEW i \in 3..(Len(rest) + 2)
          PROVE  f3[i] = pending'[i].count + f3[i + 1]
      <3>1. i - 2 \in 1..Len(rest) /\ pending'[i] = rest[i - 2] /\ (i + 1) - 2 = (i - 2) + 1
        BY <1>4, <1>10
      <3>2. f3[i] = f2[i - 2] /\ f3[i + 1] = f2[(i - 2) + 1]
        BY <1>4, <3>1
      <3>3. QED
        BY <1>11, <3>1, <3>2
    <2> HIDE DEF f3
    <2>4. \A i \in 1..(Len(rest) + 2) : i = 1 \/ i = 2 \/ i \in 3..(Len(rest) + 2)
      BY <1>4
    <2>5. 1 + 1 = 2 /\ 2 + 1 = 3
      OBVIOUS
    <2>6. QED
      BY <2>1, <2>2, <2>3, <2>4, <2>5
<1>14. Waiting(pending', f3)
    <2>1. Len(pending') + 1 = Len(rest) + 3
      BY <1>4, <1>10
    <2> HIDE DEF f3
    <2>2. QED
      BY <1>10, <1>12, <1>13, <2>1 DEF Waiting
<1>15. Ample => \A j \in 1..Len(pending') : Fits(pending'[j])
    <2>1. \A j \in 1..Len(pending') : j = 1 \/ j = 2 \/ j \in 3..(Len(rest) + 2)
      BY <1>4, <1>10
    <2>2. QED
      BY <1>9, <1>10, <2>1
<1>16. QED
    <2>1. Waiting(pending', f3) /\ Len(out') + f3[1] <= count'
          /\ (Ample' => Len(out') + f3[1] = count')
      BY <1>2, <1>7, <1>12, <1>14
    <2> HIDE DEF f3
    <2>2. QED
      BY <1>2, <1>15, <2>1 DEF PlacedInv, Fits

\* A wide area divided leaves room for all.
LEMMA SplitWidePlaced == DwindleInv /\ PlacedInv /\ SplitWide => PlacedInv'
<1> SUFFICES ASSUME DwindleInv, PlacedInv, SplitWide PROVE PlacedInv'
    OBVIOUS
<1> DEFINE a == Head(pending).area
           n == Head(pending).count
           k == LeftCount(a, n)
           s == Share(a.w, k, n)
           g == HalfGap
<1>1. TypeOK /\ pending # <<>> /\ g \in Nat
    BY HalfGapType DEF DwindleInv, SplitWide
<1>2. a.w \in Nat /\ a.h \in Nat /\ n \in Nat
    BY <1>1, RestOfStack DEF Call, Rect
<1>3. /\ n > 1 /\ a.w >= a.h
      /\ Divide(Left(a, s, g), Right(a, s, g), k, n)
      /\ UNCHANGED <<layout, usable, count, out>>
    BY DEF SplitWide, Wide
<1>4. k \in Halves(n) /\ 2 * k >= n /\ k \in 0..n
    BY <1>2, <1>3 DEF LeftCount, Wide, Halves
<1>5. ASSUME Ample
      PROVE  /\ Fits([area |-> Left(a, s, g), count |-> k])
             /\ Fits([area |-> Right(a, s, g), count |-> n - k])
    <2>1. RoomFor(a.w, a.h, n, g)
      <3>1. Fits(Head(pending))
        BY <1>1, <1>5, RestOfStack, LenProperties DEF PlacedInv, TypeOK
      <3>2. QED
        BY <1>3, <3>1 DEF Fits
    <2>2. RoomFor(s - g, a.h, k, g) /\ RoomFor(a.w - s - g, a.h, n - k, g)
      BY <1>1, <1>2, <1>3, <1>4, <2>1, CutFits
    <2>3. s \in Int
      <3>1. n > 0
        BY <1>2, <1>3
      <3> HIDE DEF a, n, k
      <3>2. s \in 0..a.w
        BY <1>2, <1>4, <3>1, ShareBounds
      <3>3. QED
        BY <1>2, <3>2
    <2>4. AtLeast(0, s - g) = s - g /\ AtLeast(0, a.w - s - g) = a.w - s - g
      <3> HIDE DEF s, g, a
      <3>1. QED
        BY <1>1, <1>2, <2>2, <2>3 DEF AtLeast, RoomFor
    <2>5. Left(a, s, g).w = s - g /\ Left(a, s, g).h = a.h
          /\ Right(a, s, g).w = a.w - s - g /\ Right(a, s, g).h = a.h
      BY <2>4 DEF Left, Right
    <2> HIDE DEF a, n, k, s
    <2>6. QED
      BY <2>2, <2>5 DEF Fits
<1>6. QED
    BY <1>1, <1>3, <1>4, <1>5, DividePlaced

\* A tall area divided leaves room for all.
LEMMA SplitTallPlaced == DwindleInv /\ PlacedInv /\ SplitTall => PlacedInv'
<1> SUFFICES ASSUME DwindleInv, PlacedInv, SplitTall PROVE PlacedInv'
    OBVIOUS
<1> DEFINE a == Head(pending).area
           n == Head(pending).count
           k == LeftCount(a, n)
           s == Share(a.h, k, n)
           g == HalfGap
<1>1. TypeOK /\ pending # <<>> /\ g \in Nat
    BY HalfGapType DEF DwindleInv, SplitTall
<1>2. a.w \in Nat /\ a.h \in Nat /\ n \in Nat
    BY <1>1, RestOfStack DEF Call, Rect
<1>3. /\ n > 1 /\ a.h > a.w
      /\ Divide(Top(a, s, g), Bottom(a, s, g), k, n)
      /\ UNCHANGED <<layout, usable, count, out>>
    BY <1>2 DEF SplitTall, Wide
<1>4. k \in Halves(n) /\ k \in 0..n
    BY <1>2, <1>3 DEF LeftCount, Wide, Halves
<1>5. ASSUME Ample
      PROVE  /\ Fits([area |-> Top(a, s, g), count |-> k])
             /\ Fits([area |-> Bottom(a, s, g), count |-> n - k])
    <2>1. RoomFor(a.h, a.w, n, g)
      <3>1. Fits(Head(pending))
        BY <1>1, <1>5, RestOfStack, LenProperties DEF PlacedInv, TypeOK
      <3>2. QED
        BY <1>3, <3>1, RoomTurned DEF Fits
    <2>2. RoomFor(s - g, a.w, k, g) /\ RoomFor(a.h - s - g, a.w, n - k, g)
      BY <1>1, <1>2, <1>3, <1>4, <2>1, CutFits
    <2>3. s \in Int
      <3>1. n > 0
        BY <1>2, <1>3
      <3> HIDE DEF a, n, k
      <3>2. s \in 0..a.h
        BY <1>2, <1>4, <3>1, ShareBounds
      <3>3. QED
        BY <1>2, <3>2
    <2>4. AtLeast(0, s - g) = s - g /\ AtLeast(0, a.h - s - g) = a.h - s - g
      <3> HIDE DEF s, g, a
      <3>1. QED
        BY <1>1, <1>2, <2>2, <2>3 DEF AtLeast, RoomFor
    <2>5. Top(a, s, g).h = s - g /\ Top(a, s, g).w = a.w
          /\ Bottom(a, s, g).h = a.h - s - g /\ Bottom(a, s, g).w = a.w
      BY <2>4 DEF Top, Bottom
    <2> HIDE DEF a, n, k, s
    <2>6. QED
      BY <2>2, <2>5, RoomTurned DEF Fits
<1>6. QED
    BY <1>1, <1>3, <1>4, <1>5, DividePlaced

\* dwindle never returns more rectangles than windows, and with ample room exactly
\* as many: for every size, gap and number of windows, no cut starves a window.
THEOREM EveryWindowPlaced == Spec => []AllPlaced
<1>1. DwindleInv /\ PlacedInv /\ [Next]_vars => PlacedInv'
  <2>1. PlacedInv /\ UNCHANGED vars => PlacedInv'
    BY DEF PlacedInv, Waiting, Fits, HalfGap, Ample, vars
  <2>2. QED
    BY SkipPlaced, PlacePlaced, SplitWidePlaced, SplitTallPlaced, <2>1 DEF Next
<1>2. DwindleInv /\ PlacedInv => AllPlaced
  <2>1. SUFFICES ASSUME DwindleInv, PlacedInv PROVE AllPlaced
    OBVIOUS
  <2>2. PICK f : /\ Waiting(pending, f)
                 /\ Len(out) + f[1] <= count
                 /\ Ample => Len(out) + f[1] = count
    BY <2>1 DEF PlacedInv
  <2>3. Len(pending) \in Nat /\ Len(out) \in Nat /\ count \in Nat
    BY <2>1, LenProperties DEF DwindleInv, TypeOK
  <2>4. f[1] \in Nat
    BY <2>2, <2>3 DEF Waiting
  <2>5. Done => f[1] = 0
    BY <2>2 DEF Done, Waiting
  <2>6. QED
    BY <2>2, <2>3, <2>4, <2>5 DEF AllPlaced
<1>3. QED
  BY InitPlaced, Invariance, <1>1, <1>2, PTL DEF Spec

-----------------------------------------------------------------------------
(* The configure handshake: types *)

\* A tiled window has a size to be told.
LEMMA DesiredType ==
    ASSUME NEW ts \in Seq(Window), NEW fl, NEW h \in Host, ToSet(ts) \ fl # {}
    PROVE  Desired(ts, fl, h) \in TileSize /\ Desired(ts, fl, h) \in Size
<1> DEFINE S == ToSet(ts) \ fl
<1>1. S \subseteq Window
  BY ElementOfSeq DEF ToSet
<1>2. IsFiniteSet(S) /\ Cardinality(S) <= Cardinality(Window) /\ Cardinality(Window) \in Nat
  <2> HIDE DEF S
  <2>1. QED
    BY <1>1, WindowAssumption, FS_Subset, FS_CardinalityType
<1>3. Cardinality(S) \in Nat /\ Cardinality(S) # 0
  <2> HIDE DEF S
  <2>1. S # {}
    BY DEF S
  <2>2. QED
    BY <1>2, <2>1, FS_CardinalityType, FS_EmptySet
<1>4. QED
  BY <1>2, <1>3 DEF Desired, Size, TileSize

\* The state last sent is a state.
LEMMA LastSentType ==
    ASSUME NEW c \in Client
    PROVE  LastSent(c) \in State
<1>1. c.sent \in Seq(State) /\ c.current \in State
  BY DEF Client
<1>2. CASE c.sent # <<>>
  <2>1. Len(c.sent) \in 1..Len(c.sent)
    BY <1>1, <1>2, LenProperties, EmptySeq
  <2>2. QED
    BY <1>1, <1>2, <2>1, ElementOfSeq DEF LastSent, Last
<1>3. QED
  BY <1>1, <1>2 DEF LastSent

\* Apart from what is prepared and sent, d is c.
Keeps(d, c) ==
    /\ d \in Client
    /\ d.current = c.current /\ d.geo = c.geo /\ d.last = c.last /\ d.acked = c.acked

\* Sending a configure sends what is pending.
LEMMA SendConfigureIs ==
    ASSUME NEW c \in Client
    PROVE  LET d == SendConfigure(c)
           IN  Keeps(d, c) /\ LastSent(d) = c.pending /\ d.pending = c.pending
<1> DEFINE d == SendConfigure(c)
<1>1. c.sent \in Seq(State) /\ c.pending \in State
  BY DEF Client
<1>2. /\ d = [c EXCEPT !.sent = Append(c.sent, c.pending), !.initial = TRUE]
      /\ d.sent = Append(c.sent, c.pending) /\ d.pending = c.pending
      /\ d.current = c.current /\ d.geo = c.geo /\ d.last = c.last /\ d.acked = c.acked
  BY DEF SendConfigure, Client
<1>3. /\ Append(c.sent, c.pending) \in Seq(State)
      /\ Len(Append(c.sent, c.pending)) = Len(c.sent) + 1
      /\ Append(c.sent, c.pending)[Len(c.sent) + 1] = c.pending
      /\ Append(c.sent, c.pending) # <<>>
  BY <1>1, AppendProperties
<1>4. d \in Client
  BY <1>2, <1>3 DEF Client
<1>5. LastSent(d) = c.pending
  BY <1>2, <1>3 DEF LastSent, Last
<1>6. QED
  BY <1>2, <1>4, <1>5 DEF Keeps

\* After send_pending_configure the state last sent is the pending one, and
\* nothing else changes.
LEMMA SendPendingIs ==
    ASSUME NEW c \in Client
    PROVE  LET d == SendPendingConfigure(c)
           IN  Keeps(d, c) /\ LastSent(d) = c.pending /\ d.pending = c.pending
BY SendConfigureIs DEF SendPendingConfigure, Keeps

\* So it is after a state is prepared and sent.
LEMMA TellIs ==
    ASSUME NEW c \in Client, NEW s \in State
    PROVE  LET d == Tell(c, s)
           IN  Keeps(d, c) /\ LastSent(d) = s /\ d.pending = s
<1> DEFINE p == [c EXCEPT !.pending = s]
<1>1. p \in Client /\ Keeps(p, c) /\ p.pending = s
  BY DEF Client, Keeps
<1> HIDE DEF p
<1>2. LET d == SendPendingConfigure(p)
      IN  Keeps(d, p) /\ LastSent(d) = s /\ d.pending = s
  BY <1>1, SendPendingIs
<1>3. QED
  BY <1>1, <1>2 DEF Tell, Keeps, p

\* What is prepared is a state.
LEMMA PendingType ==
    ASSUME NEW c \in Client
    PROVE  /\ \A s \in Size : /\ [c.pending EXCEPT !.size = s] \in State
                              /\ [c.pending EXCEPT !.size = s].size = s
                              /\ [c.pending EXCEPT !.size = s].active = c.pending.active
           /\ \A a \in BOOLEAN : /\ [c.pending EXCEPT !.active = a] \in State
                                 /\ [c.pending EXCEPT !.active = a].size = c.pending.size
                                 /\ [c.pending EXCEPT !.active = a].active = a
BY DEF Client, State

\* Telling a size.
LEMMA SizedIs ==
    ASSUME NEW c \in Client, NEW s \in Size, NEW force
    PROVE  LET d == Sized(c, s, force)
           IN  /\ Keeps(d, c)
               /\ \/ d = c /\ c.current.size = s
                  \/ /\ d.pending = LastSent(d)
                     /\ LastSent(d).size = s /\ LastSent(d).active = c.pending.active
<1> DEFINE p == [c.pending EXCEPT !.size = s]
<1>1. p \in State /\ p.size = s /\ p.active = c.pending.active /\ Keeps(c, c)
  BY PendingType DEF Keeps
<1>2. Sized(c, s, force) = IF force \/ c.current.size # s THEN Tell(c, p) ELSE c
  BY DEF Sized
<1> HIDE DEF p
<1>3. Keeps(Tell(c, p), c) /\ LastSent(Tell(c, p)) = p /\ Tell(c, p).pending = p
  BY <1>1, TellIs
<1>4. QED
  BY <1>1, <1>2, <1>3

\* Raising floats only prepares, and no size.
LEMMA RaisedIs ==
    ASSUME NEW c \in Client, NEW w, NEW ts, NEW fl
    PROVE  LET d == Raised(c, w, ts, fl)
           IN  /\ Keeps(d, c) /\ d.pending.size = c.pending.size
               /\ d.sent = c.sent /\ d.initial = c.initial
<1> DEFINE p(a) == [c EXCEPT !.pending.active = a]
<1>1. ASSUME NEW a \in BOOLEAN
      PROVE  /\ Keeps(p(a), c) /\ p(a).pending.size = c.pending.size
             /\ p(a).sent = c.sent /\ p(a).initial = c.initial
  BY DEF Client, State, Keeps
<1> HIDE DEF p
<1>2. /\ Keeps(c, c)
      /\ \/ Raised(c, w, ts, fl) = c
         \/ \E a \in BOOLEAN : Raised(c, w, ts, fl) = p(a)
  BY DEF Raised, Keeps, p
<1>3. QED
  BY <1>1, <1>2

\* Telling the activation.
LEMMA ActivatedIs ==
    ASSUME NEW c \in Client, NEW a \in BOOLEAN
    PROVE  LET d == Activated(c, a)
           IN  /\ Keeps(d, c)
               /\ \/ d = c /\ c.current.active = a
                  \/ /\ d.pending = LastSent(d)
                     /\ LastSent(d).size = c.pending.size /\ LastSent(d).active = a
<1> DEFINE p == [c.pending EXCEPT !.active = a]
<1>1. p \in State /\ p.active = a /\ p.size = c.pending.size /\ Keeps(c, c)
  BY PendingType DEF Keeps
<1>2. Activated(c, a) = IF c.current.active # a THEN Tell(c, p) ELSE c
  BY DEF Activated
<1> HIDE DEF p
<1>3. Keeps(Tell(c, p), c) /\ LastSent(Tell(c, p)) = p /\ Tell(c, p).pending = p
  BY <1>1, TellIs
<1>4. QED
  BY <1>1, <1>2, <1>3

\* Telling all of a workspace, window by window.
LEMMA UpdateActivatedIs ==
    ASSUME NEW cs \in [Window -> Client], NEW ts, NEW foc
    PROVE  /\ UpdateActivated(cs, ts, foc) \in [Window -> Client]
           /\ \A w \in Window :
                 UpdateActivated(cs, ts, foc)[w]
                     = IF w \in ToSet(ts) /\ life[w] # "dead"
                       THEN Activated(cs[w], w = foc) ELSE cs[w]
<1>1. \A w \in Window : Activated(cs[w], w = foc) \in Client
  BY ActivatedIs DEF Keeps
<1>2. QED
  BY <1>1 DEF UpdateActivated

\* The layout, window by window.
LEMMA LaidOutIs ==
    ASSUME NEW cs \in [Window -> Client], NEW ts \in Seq(Window), NEW fl, NEW mp,
           NEW h \in Host, NEW force
    PROVE  /\ LaidOut(cs, ts, fl, mp, h, force) \in [Window -> Client]
           /\ \A w \in Window :
                 \E c \in Client :
                    /\ \/ c = cs[w] /\ ~(w \in ToSet(ts) \ fl /\ life[w] # "dead")
                       \/ c = Sized(cs[w], Desired(ts, fl, h), force) /\ w \in ToSet(ts) \ fl
                    /\ \/ LaidOut(cs, ts, fl, mp, h, force)[w] = c
                       \/ LaidOut(cs, ts, fl, mp, h, force)[w] = Raised(c, w, ts, fl)
<1> DEFINE sized(w) == IF w \in ToSet(ts) \ fl THEN Sized(cs[w], Desired(ts, fl, h), force)
                                               ELSE cs[w]
           told(w) == IF life[w] = "dead" THEN cs[w]
                      ELSE IF w \in mp \union ToSet(ts) THEN Raised(sized(w), w, ts, fl)
                      ELSE cs[w]
<1>1. LaidOut(cs, ts, fl, mp, h, force) = [w \in Window |-> told(w)]
  BY DEF LaidOut
<1>2. ASSUME NEW w \in Window PROVE sized(w) \in Client
  <2>1. CASE w \in ToSet(ts) \ fl
    BY <2>1, DesiredType, SizedIs DEF Keeps
  <2>2. QED
    BY <2>1
<1>3. ASSUME NEW w \in Window PROVE told(w) \in Client
  <2> HIDE DEF sized
  <2>1. QED
    BY <1>2, RaisedIs DEF Keeps
<1>4. ASSUME NEW w \in Window
      PROVE  \E c \in Client :
                    /\ \/ c = cs[w] /\ ~(w \in ToSet(ts) \ fl /\ life[w] # "dead")
                       \/ c = Sized(cs[w], Desired(ts, fl, h), force) /\ w \in ToSet(ts) \ fl
                    /\ told(w) = c \/ told(w) = Raised(c, w, ts, fl)
  <2>1. CASE life[w] # "dead" /\ w \in mp \union ToSet(ts)
    <3>1. told(w) = Raised(sized(w), w, ts, fl)
      BY <2>1
    <3>2. \/ sized(w) = cs[w] /\ ~(w \in ToSet(ts) \ fl)
          \/ sized(w) = Sized(cs[w], Desired(ts, fl, h), force) /\ w \in ToSet(ts) \ fl
      OBVIOUS
    <3> HIDE DEF sized, told
    <3>3. QED
      BY <1>2, <3>1, <3>2
  <2>2. CASE ~(life[w] # "dead" /\ w \in mp \union ToSet(ts))
    <3>1. told(w) = cs[w] /\ ~(w \in ToSet(ts) \ fl /\ life[w] # "dead")
      BY <2>2
    <3> HIDE DEF sized, told
    <3>2. QED
      BY <3>1
  <2>3. QED
    BY <2>1, <2>2
<1> HIDE DEF sized, told
<1>5. QED
  BY <1>1, <1>3, <1>4

\* The layout keeps the types.
LEMMA ArrangedType ==
    ASSUME NEW cs \in [Window -> Client], NEW laid \in [Window -> Client], NEW ts, NEW foc
    PROVE  Arranged(cs, laid, ts, foc) \in [Window -> Client]
BY UpdateActivatedIs DEF Arranged

LEMMA ArrangeForceType ==
    ASSUME NEW cs \in [Window -> Client], NEW mp \in SUBSET Window, NEW force,
           tiles'[active] \in Seq(Window), host' \in Host, ArrangeForce(cs, mp, force)
    PROVE  client' \in [Window -> Client] /\ mapped' \subseteq Window
<1>1. PICK laid \in [Window -> Client] :
         client' = Arranged(cs, laid, tiles'[active], focused'[active])
  BY LaidOutIs DEF ArrangeForce
<1>2. client' \in [Window -> Client]
  BY <1>1, ArrangedType
<1>3. ToSet(tiles'[active]) \subseteq Window
  BY ElementOfSeq DEF ToSet
<1>4. mapped' = Mapped(mp, tiles'[active])
  BY DEF ArrangeForce
<1>5. QED
  BY <1>2, <1>3, <1>4 DEF Mapped

\* The tile lists t are in order, when life is l: no window has two tiles.
Tiled(l, t) ==
    /\ t \in [Workspace -> Seq(Window)]
    /\ \A ws \in Workspace :
          /\ Distinct(t[ws])
          /\ \A w \in ToSet(t[ws]) :
                /\ l[w] # "absent"
                /\ \A other \in Workspace \ {ws} : w \notin ToSet(t[other])

\* A list with one more tile.
LEMMA AppendTile ==
    ASSUME NEW ts \in Seq(Window), Distinct(ts), NEW w \in Window, w \notin ToSet(ts)
    PROVE  /\ Append(ts, w) \in Seq(Window)
           /\ ToSet(Append(ts, w)) = ToSet(ts) \union {w}
           /\ Distinct(Append(ts, w))
<1> DEFINE t == Append(ts, w)
<1>1. Len(ts) \in Nat /\ DOMAIN ts = 1..Len(ts)
  BY LenProperties
<1>2. /\ t \in Seq(Window) /\ DOMAIN t = 1..(Len(ts) + 1)
      /\ \A i \in 1..Len(ts) : t[i] = ts[i]
      /\ t[Len(ts) + 1] = w
  BY <1>1, AppendProperties, LenProperties
<1> HIDE DEF t
<1>3. ToSet(t) = ToSet(ts) \union {w}
  BY <1>1, <1>2 DEF ToSet
<1>4. Distinct(t)
  BY <1>1, <1>2 DEF Distinct, ToSet
<1>5. QED
  BY <1>2, <1>3, <1>4 DEF t

\* A list with one less.
LEMMA WithoutTile ==
    ASSUME NEW ts \in Seq(Window), Distinct(ts), NEW w
    PROVE  /\ Without(ts, w) \in Seq(Window)
           /\ ToSet(Without(ts, w)) = ToSet(ts) \ {w}
           /\ Distinct(Without(ts, w))
<1>1. ToSet(ts) \subseteq Window
  BY ElementOfSeq DEF ToSet
<1>2. QED
  BY <1>1, RetainElements, RetainOrder DEF Without

\* Lists that lose tiles, or get a tile no list has.
LEMMA FewerTiles ==
    ASSUME NEW l, NEW t, Tiled(l, t), NEW u \in [Workspace -> Seq(Window)],
           \A ws \in Workspace : Distinct(u[ws]) /\ ToSet(u[ws]) \subseteq ToSet(t[ws])
    PROVE  Tiled(l, u)
BY DEF Tiled

LEMMA OneMoreTile ==
    ASSUME NEW l, NEW t, Tiled(l, t), NEW ws \in Workspace, NEW w \in Window, l[w] # "absent",
           \A other \in Workspace : w \notin ToSet(t[other])
    PROVE  Tiled(l, [t EXCEPT ![ws] = Append(@, w)])
<1> DEFINE a == Append(t[ws], w)
           u == [t EXCEPT ![ws] = a]
<1>1. t[ws] \in Seq(Window) /\ Distinct(t[ws]) /\ w \notin ToSet(t[ws])
  BY DEF Tiled
<1>2. a \in Seq(Window) /\ ToSet(a) = ToSet(t[ws]) \union {w} /\ Distinct(a)
  BY <1>1, AppendTile
<1> HIDE DEF a
<1>3. /\ u \in [Workspace -> Seq(Window)] /\ u[ws] = a
      /\ \A v \in Workspace \ {ws} : u[v] = t[v]
  BY <1>2 DEF Tiled
<1> HIDE DEF u
<1>4. \A v \in Workspace : Distinct(u[v])
  BY <1>2, <1>3 DEF Tiled
<1>5. \A v \in Workspace : \A x \in ToSet(u[v]) :
         (x = w /\ v = ws) \/ (x # w /\ x \in ToSet(t[v]))
  BY <1>2, <1>3
<1>6. \A v \in Workspace : \A x \in ToSet(u[v]) :
         l[x] # "absent" /\ \A other \in Workspace \ {v} : x \notin ToSet(u[other])
  BY <1>5 DEF Tiled
<1>7. QED
  BY <1>3, <1>4, <1>6 DEF Tiled, u, a

\* What is left of the lists when a tile is taken out of one.
LEMMA OneTileLess ==
    ASSUME NEW l, NEW t, Tiled(l, t), NEW ws \in Workspace, NEW w \in ToSet(t[ws])
    PROVE  LET u == [t EXCEPT ![ws] = Without(@, w)]
           IN  /\ Tiled(l, u) /\ w \in Window /\ l[w] # "absent"
               /\ \A other \in Workspace : w \notin ToSet(u[other])
<1> DEFINE r == Without(t[ws], w)
           u == [t EXCEPT ![ws] = r]
<1>1. t[ws] \in Seq(Window) /\ Distinct(t[ws])
  BY DEF Tiled
<1>2. r \in Seq(Window) /\ ToSet(r) = ToSet(t[ws]) \ {w} /\ Distinct(r)
  BY <1>1, WithoutTile
<1> HIDE DEF r
<1>3. /\ u \in [Workspace -> Seq(Window)] /\ u[ws] = r
      /\ \A v \in Workspace \ {ws} : u[v] = t[v]
  BY <1>2 DEF Tiled
<1> HIDE DEF u
<1>4. \A v \in Workspace : Distinct(u[v]) /\ ToSet(u[v]) \subseteq ToSet(t[v])
  BY <1>2, <1>3 DEF Tiled
<1>5. Tiled(l, u)
  BY <1>3, <1>4, FewerTiles
<1>6. w \in Window /\ l[w] # "absent"
  BY <1>1, ElementOfSeq DEF Tiled, ToSet
<1>7. \A other \in Workspace : w \notin ToSet(u[other])
  BY <1>2, <1>3 DEF Tiled
<1>8. QED
  BY <1>5, <1>6, <1>7 DEF u, r

\* The types hold at the start.
LEMMA HandshakeInitTypes == HandshakeInit => HandshakeTypes
<1> SUFFICES ASSUME HandshakeInit PROVE HandshakeTypes
  OBVIOUS
<1>1. Unset \in State /\ None \in Size /\ Zero \in Size
  BY DEF Unset, State, Size
<1>2. Blank \in Client
  BY <1>1 DEF Blank, Client
<1>3. client \in [Window -> Client]
  BY <1>2 DEF HandshakeInit
<1>4. tiles \in [Workspace -> Seq(Window)]
  BY DEF HandshakeInit
<1>5. \A ws \in Workspace : Distinct(tiles[ws]) /\ ToSet(tiles[ws]) = {}
  BY DEF HandshakeInit, Distinct, ToSet
<1>6. changes \in 0..MaxChanges /\ nested \in BOOLEAN /\ active \in Workspace /\ host \in Host
  BY BoundsAssumption DEF HandshakeInit
<1>7. /\ life \in [Window -> {"absent", "alive", "dead"}] /\ floating \subseteq Window
      /\ focused \in [Workspace -> Window \union {None}] /\ mapped \subseteq Window
  BY DEF HandshakeInit
<1>8. QED
  BY <1>3, <1>4, <1>5, <1>6, <1>7 DEF HandshakeTypes

\* The lists after each step.
LEMMA TilesStep ==
    ASSUME HandshakeTypes, HandshakeNext
    PROVE  Tiled(life', tiles')
<1>0. /\ Tiled(life, tiles) /\ active \in Workspace /\ tiles \in [Workspace -> Seq(Window)]
      /\ life \in [Window -> {"absent", "alive", "dead"}]
  BY DEF HandshakeTypes, Tiled
<1>1. ASSUME NEW w \in Window, NewToplevel(w) PROVE Tiled(life', tiles')
  <2>1. /\ life[w] = "absent" /\ life' = [life EXCEPT ![w] = "alive"]
        /\ tiles' = [tiles EXCEPT ![active] = Append(@, w)]
    BY <1>1 DEF NewToplevel
  <2>2. \A ws \in Workspace : w \notin ToSet(tiles[ws])
    BY <1>0, <2>1 DEF Tiled
  <2>3. ToSet(tiles[active]) \subseteq Window /\ \A ws \in Workspace : ToSet(tiles[ws]) \subseteq Window
    BY <1>0, ElementOfSeq DEF ToSet
  <2>4. Tiled(life', tiles)
    BY <1>0, <2>1, <2>2, <2>3 DEF Tiled
  <2>5. QED
    BY <1>0, <2>1, <2>2, <2>4, OneMoreTile
<1>2. ASSUME NEW w \in Window, Die(w) PROVE Tiled(life', tiles')
  <2>1. /\ life' = [life EXCEPT ![w] = "dead"] /\ tiles' = tiles
    BY <1>2 DEF Die
  <2>2. \A ws \in Workspace : ToSet(tiles[ws]) \subseteq Window
    BY <1>0, ElementOfSeq DEF ToSet
  <2>3. QED
    BY <1>0, <2>1, <2>2 DEF Tiled
<1>3. ASSUME CleanupRemoved PROVE Tiled(life', tiles')
  <2>1. life' = life /\ tiles' = [ws \in Workspace |-> Retain(tiles[ws], Alive)]
    BY <1>3 DEF CleanupRemoved, TilesAlive
  <2>2. ASSUME NEW ws \in Workspace
        PROVE  /\ Retain(tiles[ws], Alive) \in Seq(Window)
               /\ Distinct(Retain(tiles[ws], Alive))
               /\ ToSet(Retain(tiles[ws], Alive)) \subseteq ToSet(tiles[ws])
    BY <1>0, RetainElements, RetainOrder DEF Tiled
  <2>3. QED
    BY <1>0, <2>1, <2>2, FewerTiles
<1>4. ASSUME ToggleFloating PROVE Tiled(life', tiles')
  <2> DEFINE w == focused[active]
             u == [tiles EXCEPT ![active] = Without(@, w)]
  <2>1. /\ life' = life /\ w \in ToSet(tiles[active])
        /\ \/ tiles' = tiles
           \/ tiles' = [tiles EXCEPT ![active] = Append(Without(@, w), w)]
    BY <1>4 DEF ToggleFloating
  <2>2. /\ Tiled(life, u) /\ w \in Window /\ life[w] # "absent"
        /\ \A other \in Workspace : w \notin ToSet(u[other])
    BY <1>0, <2>1, OneTileLess
  <2>3. Tiled(life, [u EXCEPT ![active] = Append(@, w)])
    <3> HIDE DEF u, w
    <3>1. QED
      BY <1>0, <2>2, OneMoreTile
  <2>4. [u EXCEPT ![active] = Append(@, w)] = [tiles EXCEPT ![active] = Append(Without(@, w), w)]
    BY <1>0
  <2>5. QED
    BY <1>0, <2>1, <2>3, <2>4
<1>5. ASSUME NEW ws \in Workspace, MoveFocused(ws) PROVE Tiled(life', tiles')
  <2> DEFINE w == focused[active]
             u == [tiles EXCEPT ![active] = Without(@, w)]
  <2>1. /\ life' = life /\ w \in ToSet(tiles[active]) /\ ws # active
        /\ tiles' = [tiles EXCEPT ![active] = Without(@, w), ![ws] = Append(@, w)]
    BY <1>5 DEF MoveFocused
  <2>2. /\ Tiled(life, u) /\ w \in Window /\ life[w] # "absent"
        /\ \A other \in Workspace : w \notin ToSet(u[other])
    BY <1>0, <2>1, OneTileLess
  <2>3. Tiled(life, [u EXCEPT ![ws] = Append(@, w)])
    <3> HIDE DEF u, w
    <3>1. QED
      BY <1>0, <2>2, OneMoreTile
  <2>4. [u EXCEPT ![ws] = Append(@, w)] = tiles'
    BY <1>0, <2>1
  <2>5. QED
    BY <2>1, <2>3, <2>4
<1>6. ASSUME UNCHANGED <<life, tiles>> PROVE Tiled(life', tiles')
  BY <1>0, <1>6
<1>7. QED
  BY <1>1, <1>2, <1>3, <1>4, <1>5, <1>6
     DEF HandshakeNext, CleanupNothing, Refresh, Click, SwitchWorkspace, HostResize,
         RequestDecoration, AnyCommit, Commit, OrphanCommit, desk

\* What an ack, if any, and a commit at size g make of a client's record.
LEMMA AckedIs ==
    ASSUME NEW c \in Client, NEW k \in 0..Len(c.sent), NEW g \in Size,
           NEW d, d = [Acked(c, k) EXCEPT !.geo = g]
    PROVE  /\ d \in Client /\ d.geo = g /\ d.last = c.last
           /\ d.pending = c.pending /\ d.initial = c.initial /\ LastSent(d) = LastSent(c)
           /\ \/ d.current = c.current /\ d.sent = c.sent /\ d.acked = c.acked
              \/ /\ k \in DOMAIN c.sent /\ d.current = c.sent[k]
                 /\ \A i \in DOMAIN d.sent : d.sent[i] = c.sent[k + i] /\ k + i \in DOMAIN c.sent
<1>1. c.sent \in Seq(State) /\ Len(c.sent) \in Nat /\ DOMAIN c.sent = 1..Len(c.sent)
  BY LenProperties DEF Client
<1>2. CASE k = 0
  <2>1. d = [c EXCEPT !.geo = g]
    BY <1>2 DEF Acked
  <2>2. /\ d \in Client /\ d.geo = g /\ d.pending = c.pending /\ d.sent = c.sent
        /\ d.current = c.current /\ d.initial = c.initial /\ d.last = c.last
        /\ d.acked = c.acked
    BY <2>1 DEF Client
  <2>3. LastSent(d) = LastSent(c)
    BY <2>2 DEF LastSent, Last
  <2>4. QED
    BY <2>2, <2>3
<1>3. CASE k # 0
  <2> DEFINE r == SubSeq(c.sent, k + 1, Len(c.sent))
  <2>1. k \in 1..Len(c.sent) /\ c.sent[k] \in State
    BY <1>1, <1>3, ElementOfSeq
  <2>2. /\ r \in Seq(State) /\ Len(r) = Len(c.sent) - k /\ DOMAIN r = 1..(Len(c.sent) - k)
        /\ \A i \in DOMAIN r : r[i] = c.sent[k + i] /\ k + i \in DOMAIN c.sent
    <3>1. \A i \in (k + 1)..Len(c.sent) : c.sent[i] \in State
      BY <1>1, <2>1, ElementOfSeq
    <3>2. r \in Seq(State) /\ Len(r) = Len(c.sent) - k
      BY <1>1, <2>1, <3>1, SubSeqProperties
    <3>3. DOMAIN r = 1..(Len(c.sent) - k)
      BY <3>2, LenProperties
    <3>4. \A i \in 1..(Len(c.sent) - k) : r[i] = c.sent[k + i] /\ k + i \in DOMAIN c.sent
      BY <1>1, <2>1, <3>1, SubSeqProperties
    <3>5. QED
      BY <3>2, <3>3, <3>4
  <2>3. d = [[c EXCEPT !.sent = r, !.current = c.sent[k], !.acked = TRUE] EXCEPT !.geo = g]
    BY <1>3 DEF Acked
  <2> HIDE DEF r
  <2>4. /\ d \in Client /\ d.geo = g /\ d.pending = c.pending /\ d.sent = r
        /\ d.current = c.sent[k] /\ d.initial = c.initial /\ d.last = c.last
    BY <2>1, <2>2, <2>3 DEF Client
  <2>5. LastSent(d) = LastSent(c)
    <3>1. c.sent # <<>> /\ LastSent(c) = c.sent[Len(c.sent)]
      BY <1>1, <2>1 DEF LastSent, Last
    <3>2. CASE k = Len(c.sent)
      <4>1. r = <<>>
        BY <1>1, <2>2, <3>2, EmptySeq
      <4>2. QED
        BY <2>4, <3>1, <3>2, <4>1 DEF LastSent
    <3>3. CASE k # Len(c.sent)
      <4>0. Len(r) \in 1..(Len(c.sent) - k) /\ k + Len(r) = Len(c.sent)
        <5>1. Len(r) = Len(c.sent) - k
          BY <2>2
        <5>2. Len(c.sent) \in Nat /\ k \in 1..Len(c.sent) /\ k # Len(c.sent)
          BY <1>1, <2>1, <3>3
        <5>3. QED
          BY <5>1, <5>2
      <4>1. r # <<>> /\ r[Len(r)] = c.sent[Len(c.sent)]
        BY <2>2, <4>0
      <4>2. QED
        BY <2>4, <3>1, <4>1 DEF LastSent, Last
    <3>4. QED
      BY <3>2, <3>3
  <2>6. QED
    BY <1>1, <2>1, <2>2, <2>4, <2>5
<1>4. QED
  BY <1>2, <1>3

\* Any commit is a commit at some size.
LEMMA CommitIs ==
    ASSUME HandshakeTypes, NEW w \in Window, AnyCommit(w)
    PROVE  \E k \in 0..Len(client[w].sent) : \E g \in Size :
              /\ Commit(w, k, g)
              /\ [Acked(client[w], k) EXCEPT !.geo = g] \in Client
              /\ Committable([Acked(client[w], k) EXCEPT !.geo = g])
              /\ OnWindowCommit(w, [Acked(client[w], k) EXCEPT !.geo = g])
<1>0. PICK k \in 0..Len(client[w].sent) :
         \E g \in OwnSizes \union {Zero, Acked(client[w], k).current.size} : Commit(w, k, g)
  BY DEF AnyCommit
<1>1. PICK g \in OwnSizes \union {Zero, Acked(client[w], k).current.size} : Commit(w, k, g)
  BY <1>0
<1>2. client[w] \in Client /\ client[w].geo \in Size
  BY DEF HandshakeTypes, Client
<1>3. Acked(client[w], k).current.size \in Size
  <2>1. [Acked(client[w], k) EXCEPT !.geo = client[w].geo] \in Client
    BY <1>2, AckedIs
  <2>2. [Acked(client[w], k) EXCEPT !.geo = client[w].geo].current = Acked(client[w], k).current
    BY <1>2 DEF Acked, Client
  <2>3. QED
    BY <2>1, <2>2 DEF Client, State
<1>4. g \in Size
  BY <1>1, <1>3 DEF Size
<1>5. [Acked(client[w], k) EXCEPT !.geo = g] \in Client
  BY <1>2, <1>4, AckedIs
<1>6. QED
  BY <1>1, <1>4, <1>5 DEF Commit

\* The clients' records after each step.
LEMMA ClientsStep ==
    ASSUME HandshakeTypes, HandshakeNext, Tiled(life', tiles'), host' \in Host
    PROVE  client' \in [Window -> Client] /\ mapped' \subseteq Window
<1>0. /\ tiles \in [Workspace -> Seq(Window)] /\ tiles' \in [Workspace -> Seq(Window)]
      /\ active \in Workspace /\ mapped \subseteq Window /\ client \in [Window -> Client]
      /\ host \in Host /\ tiles'[active] \in Seq(Window)
  BY DEF HandshakeTypes, Tiled
<1>1. ASSUME NEW cs \in [Window -> Client], NEW force, ArrangeForce(cs, mapped, force)
      PROVE  client' \in [Window -> Client] /\ mapped' \subseteq Window
  BY <1>0, <1>1, ArrangeForceType
<1>2. ASSUME NEW ts, NEW foc
      PROVE  UpdateActivated(client, ts, foc) \in [Window -> Client]
  BY <1>0, UpdateActivatedIs
<1>3. ASSUME NEW w \in Window, NewToplevel(w) \/ OrphanCommit(w)
      PROVE  client' \in [Window -> Client] /\ mapped' \subseteq Window
  BY <1>0, <1>1, <1>3 DEF NewToplevel, OrphanCommit
<1>4. ASSUME NEW w \in Window, Die(w)
      PROVE  client' \in [Window -> Client] /\ mapped' \subseteq Window
  <2>1. Blank \in Client
    BY DEF Blank, Unset, Client, State, Size
  <2>2. QED
    BY <1>0, <1>4, <2>1 DEF Die
<1>5. ASSUME CleanupRemoved
      PROVE  client' \in [Window -> Client] /\ mapped' \subseteq Window
  <2>1. PICK foc : ArrangeForce(UpdateActivated(client, tiles'[active], foc), mapped, FALSE)
    BY <1>5 DEF CleanupRemoved
  <2>2. QED
    BY <1>1, <1>2, <2>1
<1>6. ASSUME Refresh \/ CleanupNothing
      PROVE  client' \in [Window -> Client] /\ mapped' \subseteq Window
  BY <1>0, <1>6 DEF Refresh, CleanupNothing
<1>7. ASSUME NEW w \in Window \union {None}, Click(w)
      PROVE  client' \in [Window -> Client] /\ mapped' \subseteq Window
  BY <1>0, <1>2, <1>7 DEF Click
<1>8. ASSUME ToggleFloating
      PROVE  client' \in [Window -> Client] /\ mapped' \subseteq Window
  BY <1>0, <1>1, <1>8 DEF ToggleFloating
<1>9. ASSUME NEW ws \in Workspace, MoveFocused(ws)
      PROVE  client' \in [Window -> Client] /\ mapped' \subseteq Window
  BY <1>1, <1>2, <1>9 DEF MoveFocused
<1>10. ASSUME NEW ws \in Workspace, SwitchWorkspace(ws)
       PROVE  client' \in [Window -> Client] /\ mapped' \subseteq Window
  <2> DEFINE left == mapped \ ToSet(tiles[active])
             laid == LaidOut(client, tiles[ws], floating, left, host, TRUE)
  <2>1. /\ client' = UpdateActivated(Arranged(client, laid, tiles[ws], focused[ws]),
                                     tiles[ws], ArrivalFocus(ws))
        /\ mapped' = Mapped(left, tiles[ws])
    BY <1>10 DEF SwitchWorkspace
  <2>2. laid \in [Window -> Client]
    <3>1. tiles[ws] \in Seq(Window)
      BY <1>0
    <3> HIDE DEF left
    <3>2. LaidOut(client, tiles[ws], floating, left, host, TRUE) \in [Window -> Client]
      BY <1>0, <3>1, LaidOutIs
    <3>3. QED
      BY <3>2
  <2> HIDE DEF laid
  <2>3. Arranged(client, laid, tiles[ws], focused[ws]) \in [Window -> Client]
    BY <1>0, <2>2, ArrangedType
  <2>4. client' \in [Window -> Client]
    BY <2>1, <2>3, UpdateActivatedIs
  <2>5. ToSet(tiles[ws]) \subseteq Window
    BY <1>0, ElementOfSeq DEF ToSet
  <2>6. QED
    BY <1>0, <2>1, <2>4, <2>5 DEF Mapped
<1>11. ASSUME NEW h \in Host, HostResize(h)
       PROVE  client' \in [Window -> Client] /\ mapped' \subseteq Window
  BY <1>0, <1>1, <1>11 DEF HostResize
<1>12. ASSUME NEW w \in Window, RequestDecoration(w)
       PROVE  client' \in [Window -> Client] /\ mapped' \subseteq Window
  <2>1. client[w] \in Client /\ [client[w] EXCEPT !.decorated = TRUE] \in Client
    BY <1>0 DEF Client
  <2>2. Decorated(client[w]) \in Client
    BY <2>1, SendPendingIs, SendConfigureIs DEF Decorated, Keeps
  <2>3. QED
    BY <1>0, <1>12, <2>2 DEF RequestDecoration, desk
<1>13. ASSUME NEW w \in Window, AnyCommit(w)
       PROVE  client' \in [Window -> Client] /\ mapped' \subseteq Window
  <2>1. PICK c \in Client : OnWindowCommit(w, c)
    BY <1>13, CommitIs
  <2>2. [c EXCEPT !.last = c.geo] \in Client /\ SendConfigure(c) \in Client
    BY SendConfigureIs DEF Client, Keeps
  <2>3. /\ [client EXCEPT ![w] = [c EXCEPT !.last = c.geo]] \in [Window -> Client]
        /\ [client EXCEPT ![w] = SendConfigure(c)] \in [Window -> Client]
    BY <1>0, <2>2
  <2>4. QED
    BY <1>0, <1>1, <2>1, <2>3 DEF OnWindowCommit
<1>14. QED
  BY <1>3, <1>4, <1>5, <1>6, <1>7, <1>8, <1>9, <1>10, <1>11, <1>12, <1>13 DEF HandshakeNext

\* The rest.
LEMMA DeskStep ==
    ASSUME HandshakeTypes, HandshakeNext, Tiled(life', tiles')
    PROVE  /\ nested' \in BOOLEAN /\ life' \in [Window -> {"absent", "alive", "dead"}]
           /\ floating' \subseteq Window /\ focused' \in [Workspace -> Window \union {None}]
           /\ active' \in Workspace /\ host' \in Host /\ changes' \in 0..MaxChanges
<1>0. /\ nested \in BOOLEAN /\ life \in [Window -> {"absent", "alive", "dead"}]
      /\ tiles \in [Workspace -> Seq(Window)] /\ tiles' \in [Workspace -> Seq(Window)]
      /\ floating \subseteq Window /\ focused \in [Workspace -> Window \union {None}]
      /\ active \in Workspace /\ mapped \subseteq Window
      /\ host \in Host /\ changes \in 0..MaxChanges
  BY DEF HandshakeTypes, Tiled
<1>1. nested' = nested
  BY DEF HandshakeNext, NewToplevel, Die, CleanupNothing, CleanupRemoved, Refresh, Click,
         ToggleFloating, MoveFocused, SwitchWorkspace, HostResize, RequestDecoration,
         AnyCommit, Commit, OrphanCommit, desk
<1>2. life' \in [Window -> {"absent", "alive", "dead"}]
  BY <1>0 DEF HandshakeNext, NewToplevel, Die, CleanupNothing, CleanupRemoved, Refresh, Click,
         ToggleFloating, MoveFocused, SwitchWorkspace, HostResize, RequestDecoration,
         AnyCommit, Commit, OrphanCommit, desk
<1>3. focused[active] \in ToSet(tiles[active]) => focused[active] \in Window
  BY <1>0, ElementOfSeq DEF ToSet
<1>4. floating' \subseteq Window
  BY <1>0, <1>3 DEF HandshakeNext, NewToplevel, Die, CleanupNothing, CleanupRemoved, Refresh, Click,
         ToggleFloating, MoveFocused, SwitchWorkspace, HostResize, RequestDecoration,
         AnyCommit, Commit, OrphanCommit, desk
<1>5. ASSUME NEW ws \in Workspace, NEW t \in [Workspace -> Seq(Window)]
      PROVE  LastOrNone(t[ws]) \in Window \union {None}
  <2>1. t[ws] \in Seq(Window)
    OBVIOUS
  <2>2. CASE t[ws] # <<>>
    <3>1. Len(t[ws]) \in 1..Len(t[ws])
      BY <2>1, <2>2, LenProperties, EmptySeq
    <3>2. QED
      BY <2>1, <2>2, <3>1, ElementOfSeq DEF LastOrNone, Last
  <2>3. QED
    BY <2>2 DEF LastOrNone
<1>6. FocusAlive \in [Workspace -> Window \union {None}]
  BY DEF FocusAlive, Alive
<1>7. focused' \in [Workspace -> Window \union {None}]
  <2>1. ASSUME CleanupRemoved PROVE focused' \in [Workspace -> Window \union {None}]
    <3>1. tiles' = TilesAlive
      BY <2>1 DEF CleanupRemoved
    <3>2. LastOrNone(TilesAlive[active]) \in Window \union {None}
      BY <1>0, <1>5, <3>1
    <3>3. PICK foc \in Window \union {None} : focused' = [FocusAlive EXCEPT ![active] = foc]
      BY <1>0, <1>6, <2>1, <3>2 DEF CleanupRemoved
    <3>4. QED
      BY <1>6, <3>3
  <2>2. ASSUME NEW ws \in Workspace, SwitchWorkspace(ws)
        PROVE  focused' \in [Workspace -> Window \union {None}]
    <3>1. ArrivalFocus(ws) \in Window \union {None}
      BY <1>0, <1>5 DEF ArrivalFocus
    <3>2. focused' = [focused EXCEPT ![ws] = ArrivalFocus(ws)]
      BY <2>2 DEF SwitchWorkspace
    <3>3. QED
      BY <1>0, <3>1, <3>2
  <2>3. ASSUME NEW ws \in Workspace, MoveFocused(ws)
        PROVE  focused' \in [Workspace -> Window \union {None}]
    BY <1>0, <2>3 DEF MoveFocused
  <2>4. ASSUME NEW w \in Window, NewToplevel(w) \/ Click(w)
        PROVE  focused' \in [Workspace -> Window \union {None}]
    BY <1>0, <2>4 DEF NewToplevel, Click
  <2>5. ASSUME Click(None) PROVE focused' \in [Workspace -> Window \union {None}]
    BY <1>0, <2>5 DEF Click
  <2>6. ASSUME CleanupNothing PROVE focused' \in [Workspace -> Window \union {None}]
    BY <1>6, <2>6 DEF CleanupNothing
  <2>7. ASSUME UNCHANGED focused PROVE focused' \in [Workspace -> Window \union {None}]
    BY <1>0, <2>7
  <2>8. QED
    BY <2>1, <2>2, <2>3, <2>4, <2>5, <2>6, <2>7
       DEF HandshakeNext, Die, Refresh, ToggleFloating, HostResize, RequestDecoration,
           AnyCommit, Commit, OrphanCommit, desk
<1>8. active' \in Workspace /\ host' \in Host
  BY <1>0 DEF HandshakeNext, NewToplevel, Die, CleanupNothing, CleanupRemoved, Refresh, Click,
         ToggleFloating, MoveFocused, SwitchWorkspace, HostResize, RequestDecoration,
         AnyCommit, Commit, OrphanCommit, desk
<1>9. changes' = changes \/ (changes < MaxChanges /\ changes' = changes + 1)
  BY DEF HandshakeNext, NewToplevel, Die, CleanupNothing, CleanupRemoved, Refresh, Click,
         ToggleFloating, MoveFocused, SwitchWorkspace, HostResize, RequestDecoration,
         AnyCommit, Commit, OrphanCommit, desk, Change
<1>10. changes' \in 0..MaxChanges
  BY <1>0, <1>9, BoundsAssumption
<1>11. QED
  BY <1>0, <1>1, <1>2, <1>4, <1>7, <1>8, <1>10

\* Every step keeps the types.
LEMMA HandshakeTypesStep == HandshakeTypes /\ [HandshakeNext]_handshake => HandshakeTypes'
<1> SUFFICES ASSUME HandshakeTypes, [HandshakeNext]_handshake PROVE HandshakeTypes'
  OBVIOUS
<1>1. CASE HandshakeNext
  <2>1. Tiled(life', tiles')
    BY <1>1, TilesStep
  <2>2. /\ nested' \in BOOLEAN /\ life' \in [Window -> {"absent", "alive", "dead"}]
        /\ floating' \subseteq Window /\ focused' \in [Workspace -> Window \union {None}]
        /\ active' \in Workspace /\ host' \in Host /\ changes' \in 0..MaxChanges
    BY <1>1, <2>1, DeskStep
  <2>3. client' \in [Window -> Client] /\ mapped' \subseteq Window
    BY <1>1, <2>1, <2>2, ClientsStep
  <2>4. QED
    BY <2>1, <2>2, <2>3 DEF HandshakeTypes, Tiled
<1>2. CASE UNCHANGED handshake
  BY <1>2 DEF handshake, desk, HandshakeTypes
<1>3. QED
  BY <1>1, <1>2

\* Whatever is opened, destroyed, moved, toggled, resized, switched, acked and
\* committed, no window has two tiles, and every client is told states it can take.
THEOREM HandshakeTypesHold == HandshakeSpec => []HandshakeTypes
BY HandshakeInitTypes, HandshakeTypesStep, PTL DEF HandshakeSpec

-----------------------------------------------------------------------------
(* The configure handshake: a change of focus *)

\* What c was last sent about its activation is what it acked, or a; and nothing
\* else is prepared.
Heard(c, a) == LastSent(c).active = c.current.active \/ LastSent(c).active = a
Informed(c, a) == Heard(c, a) /\ c.pending.active = LastSent(c).active

\* Told its activation, such a client was last sent it.
LEMMA ActivatedTells ==
    ASSUME NEW c \in Client, NEW a \in BOOLEAN, Heard(c, a)
    PROVE  /\ Activated(c, a) \in Client
           /\ LastSent(Activated(c, a)).active = a
           /\ Heard(Activated(c, a), a)
           /\ Informed(c, a) => Informed(Activated(c, a), a)
<1> DEFINE d == Activated(c, a)
<1>1. /\ Keeps(d, c)
      /\ \/ d = c /\ c.current.active = a
         \/ d.pending = LastSent(d) /\ LastSent(d).active = a
  BY ActivatedIs
<1> HIDE DEF d
<1>2. LastSent(d).active = a
  BY <1>1 DEF Heard
<1>3. Informed(c, a) => Informed(d, a)
  BY <1>1, <1>2 DEF Informed, Heard
<1>4. QED
  BY <1>1, <1>2, <1>3 DEF d, Keeps, Heard

\* Raising is not telling.
LEMMA RaisedHeard ==
    ASSUME NEW c \in Client, NEW w, NEW ts, NEW fl, NEW a, Heard(c, a)
    PROVE  Heard(Raised(c, w, ts, fl), a)
<1> DEFINE d == Raised(c, w, ts, fl)
<1>1. d.sent = c.sent /\ d.current = c.current
  BY RaisedIs DEF Keeps
<1> HIDE DEF d
<1>2. LastSent(d) = LastSent(c)
  BY <1>1 DEF LastSent
<1>3. QED
  BY <1>1, <1>2 DEF Heard, d

\* Nor is a size.
LEMMA SizedHeard ==
    ASSUME NEW c \in Client, NEW s \in Size, NEW force, NEW a, Informed(c, a)
    PROVE  Heard(Sized(c, s, force), a)
<1> DEFINE d == Sized(c, s, force)
<1>1. /\ Keeps(d, c)
      /\ d = c \/ LastSent(d).active = c.pending.active
  BY SizedIs
<1> HIDE DEF d
<1>2. QED
  BY <1>1 DEF Informed, Heard, Keeps, d

\* A layout of informed clients leaves each one heard; telling them all then
\* tells each one the truth.
LEMMA LaidOutHeard ==
    ASSUME NEW cs \in [Window -> Client], NEW ts \in Seq(Window), NEW fl, NEW mp,
           NEW h \in Host, NEW force, NEW foc, \A w \in Window : Informed(cs[w], w = foc)
    PROVE  /\ LaidOut(cs, ts, fl, mp, h, force) \in [Window -> Client]
           /\ \A w \in Window : Heard(LaidOut(cs, ts, fl, mp, h, force)[w], w = foc)
<1>1. ASSUME NEW w \in Window
      PROVE  Heard(LaidOut(cs, ts, fl, mp, h, force)[w], w = foc)
  <2>1. PICK c \in Client :
           /\ \/ c = cs[w]
              \/ c = Sized(cs[w], Desired(ts, fl, h), force) /\ w \in ToSet(ts) \ fl
           /\ \/ LaidOut(cs, ts, fl, mp, h, force)[w] = c
              \/ LaidOut(cs, ts, fl, mp, h, force)[w] = Raised(c, w, ts, fl)
    BY LaidOutIs
  <2>2. Heard(c, w = foc)
    <3>1. CASE c = cs[w]
      BY <3>1 DEF Informed
    <3>2. CASE c = Sized(cs[w], Desired(ts, fl, h), force) /\ w \in ToSet(ts) \ fl
      BY <3>2, DesiredType, SizedHeard
    <3>3. QED
      BY <2>1, <3>1, <3>2
  <2>3. QED
    BY <2>1, <2>2, RaisedHeard
<1>2. QED
  BY <1>1, LaidOutIs

LEMMA UpdateTells ==
    ASSUME NEW cs \in [Window -> Client], NEW ts, NEW foc,
           \A w \in Window : Heard(cs[w], w = foc)
    PROVE  /\ UpdateActivated(cs, ts, foc) \in [Window -> Client]
           /\ \A w \in Window :
                 /\ Heard(UpdateActivated(cs, ts, foc)[w], w = foc)
                 /\ Informed(cs[w], w = foc) => Informed(UpdateActivated(cs, ts, foc)[w], w = foc)
                 /\ w \in ToSet(ts) /\ life[w] # "dead"
                       => LastSent(UpdateActivated(cs, ts, foc)[w]).active = (w = foc)
<1> DEFINE u == UpdateActivated(cs, ts, foc)
<1>1. /\ u \in [Window -> Client]
      /\ \A w \in Window : u[w] = IF w \in ToSet(ts) /\ life[w] # "dead"
                                  THEN Activated(cs[w], w = foc) ELSE cs[w]
  BY UpdateActivatedIs
<1> HIDE DEF u
<1>2. ASSUME NEW w \in Window
      PROVE  /\ Heard(u[w], w = foc)
             /\ Informed(cs[w], w = foc) => Informed(u[w], w = foc)
             /\ w \in ToSet(ts) /\ life[w] # "dead" => LastSent(u[w]).active = (w = foc)
  <2>1. /\ LastSent(Activated(cs[w], w = foc)).active = (w = foc)
        /\ Heard(Activated(cs[w], w = foc), w = foc)
        /\ Informed(cs[w], w = foc) => Informed(Activated(cs[w], w = foc), w = foc)
    BY ActivatedTells
  <2>2. CASE w \in ToSet(ts) /\ life[w] # "dead"
    <3>1. u[w] = Activated(cs[w], w = foc)
      BY <1>1, <2>2
    <3>2. QED
      BY <2>1, <3>1
  <2>3. CASE ~(w \in ToSet(ts) /\ life[w] # "dead")
    <3>1. u[w] = cs[w]
      BY <1>1, <2>3
    <3>2. QED
      BY <2>3, <3>1
  <2>4. QED
    BY <2>2, <2>3
<1>3. QED
  BY <1>1, <1>2 DEF u

LEMMA UpdateTellsOne ==
    ASSUME NEW cs \in [Window -> Client], NEW ts, NEW foc,
           NEW v \in Window, \A w \in Window : Heard(cs[w], w = foc),
           v \in ToSet(ts), life[v] # "dead"
    PROVE  LastSent(UpdateActivated(cs, ts, foc)[v]).active = (v = foc)
BY UpdateTells

\* So a layout of informed clients tells each live window of the workspace.
LEMMA ArrangeForceTells ==
    ASSUME NEW cs \in [Window -> Client], NEW mp, NEW force, nested,
           tiles'[active] \in Seq(Window), host' \in Host, ArrangeForce(cs, mp, force),
           \A w \in Window : Informed(cs[w], w = focused'[active]),
           NEW v \in Window, v \in ToSet(tiles'[active]), life[v] # "dead"
    PROVE  LastSent(client'[v]).active = (v = focused'[active])
<1>1. PICK laid : /\ laid = LaidOut(cs, tiles'[active], floating', mp, host', force)
                  /\ client' = Arranged(cs, laid, tiles'[active], focused'[active])
  BY DEF ArrangeForce
<1>2. /\ laid \in [Window -> Client]
      /\ \A w \in Window : Heard(laid[w], w = focused'[active])
  BY <1>1, LaidOutHeard
<1>3. client' = UpdateActivated(laid, tiles'[active], focused'[active])
  BY <1>1 DEF Arranged
<1>4. QED
  BY <1>2, <1>3, UpdateTells

\* At rest every client is informed of whatever comes.
LEMMA InformedAtRest ==
    ASSUME AtRest, NEW w \in Window, NEW a
    PROVE  Informed(client[w], a)
BY DEF AtRest, Quiet, Informed, Heard, LastSent

\* A change of focus from rest tells every live window of the workspace then
\* shown whether it is the focused one, for any number of clients and workspaces.
THEOREM FocusTold == HandshakeSpec => FocusFromRest
<1>1. ASSUME HandshakeTypes, HandshakeTypes', [HandshakeNext]_handshake, nested, AtRest,
             focused'[active'] # focused[active] \/ active' # active,
             ~CleanupNothing, active' = active \/ focused[active'] # None,
             NEW v \in ToSet(tiles'[active']) \intersect Alive'
      PROVE  LastSent(client'[v]).active = (v = focused'[active'])
  <2>0. /\ tiles \in [Workspace -> Seq(Window)] /\ tiles' \in [Workspace -> Seq(Window)]
        /\ client \in [Window -> Client] /\ active \in Workspace /\ active' \in Workspace
        /\ host \in Host /\ host' \in Host /\ v \in Window /\ life'[v] = "alive"
        /\ v \in ToSet(tiles'[active']) /\ tiles'[active] \in Seq(Window)
        /\ focused \in [Workspace -> Window \union {None}]
        /\ life \in [Window -> {"absent", "alive", "dead"}]
    BY <1>1 DEF HandshakeTypes, Alive
  <2>1. ASSUME NEW foc
        PROVE  \A w \in Window : /\ Informed(client[w], w = foc)
                                  /\ Heard(client[w], w = foc)
    BY <1>1, InformedAtRest DEF Informed
  <2>2. ASSUME NEW w \in Window, NewToplevel(w)
        PROVE  LastSent(client'[v]).active = (v = focused'[active'])
    <3>1. /\ active' = active /\ life[v] # "dead" /\ ArrangeForce(client, mapped, FALSE)
      BY <2>0, <2>2 DEF NewToplevel
    <3>2. QED
      BY <1>1, <2>0, <2>1, <3>1, ArrangeForceTells
  <2>3. ASSUME CleanupRemoved \/ \E ws \in Workspace : MoveFocused(ws)
        PROVE  LastSent(client'[v]).active = (v = focused'[active'])
    <3>1. PICK foc : /\ foc = focused'[active] /\ active' = active /\ life' = life
                     /\ ArrangeForce(UpdateActivated(client, tiles'[active], foc), mapped, FALSE)
      <4>1. FocusAlive \in [Workspace -> Window \union {None}]
        BY DEF FocusAlive, Alive
      <4>2. CASE CleanupRemoved
        BY <2>0, <4>1, <4>2 DEF CleanupRemoved
      <4>3. ASSUME NEW ws \in Workspace, MoveFocused(ws)
            PROVE  /\ focused'[active] = None /\ active' = active /\ life' = life
                   /\ ArrangeForce(UpdateActivated(client, tiles'[active], None), mapped, FALSE)
        BY <2>0, <4>3 DEF MoveFocused
      <4>4. QED
        BY <2>3, <4>2, <4>3
    <3> DEFINE cs == UpdateActivated(client, tiles'[active], foc)
    <3>2. /\ cs \in [Window -> Client]
          /\ \A w \in Window : Informed(cs[w], w = foc)
      <4>1. \A w \in Window : Informed(client[w], w = foc) /\ Heard(client[w], w = foc)
        BY <2>1
      <4>2. QED
        BY <2>0, <4>1, UpdateTells
    <3> HIDE DEF cs
    <3>3. life[v] # "dead" /\ ArrangeForce(cs, mapped, FALSE) /\ v \in ToSet(tiles'[active])
      BY <2>0, <3>1 DEF cs
    <3>4. LastSent(client'[v]).active = (v = focused'[active])
      BY <1>1, <2>0, <3>1, <3>2, <3>3, ArrangeForceTells
    <3>5. QED
      BY <3>1, <3>4
  <2>4. ASSUME NEW w \in Window \union {None}, Click(w)
        PROVE  LastSent(client'[v]).active = (v = focused'[active'])
    <3>1. /\ active' = active /\ focused'[active] = w /\ tiles' = tiles /\ life' = life
          /\ client' = UpdateActivated(client, tiles[active], w)
      BY <2>0, <2>4 DEF Click
    <3>2. LastSent(client'[v]).active = (v = w)
      <4>1. \A x \in Window : Heard(client[x], x = w)
        BY <2>1
      <4>2. v \in ToSet(tiles[active]) /\ life[v] # "dead"
        BY <2>0, <3>1
      <4>3. LastSent(UpdateActivated(client, tiles[active], w)[v]).active = (v = w)
        BY <2>0, <4>1, <4>2, UpdateTellsOne
      <4>4. QED
        BY <3>1, <4>3
    <3>3. QED
      BY <3>1, <3>2
  <2>5. ASSUME NEW ws \in Workspace, SwitchWorkspace(ws)
        PROVE  LastSent(client'[v]).active = (v = focused'[active'])
    <3> DEFINE laid == LaidOut(client, tiles[ws], floating, mapped \ ToSet(tiles[active]),
                               host, TRUE)
               told == UpdateActivated(laid, tiles[ws], focused[ws])
    <3>1. /\ active' = ws /\ ws # active /\ tiles' = tiles /\ life' = life
          /\ focused' = [focused EXCEPT ![ws] = ArrivalFocus(ws)]
          /\ client' = UpdateActivated(Arranged(client, laid, tiles[ws], focused[ws]),
                                       tiles[ws], ArrivalFocus(ws))
      BY <2>5 DEF SwitchWorkspace
    <3>2. focused[ws] # None /\ ArrivalFocus(ws) = focused[ws] /\ focused'[ws] = focused[ws]
      BY <1>1, <2>0, <3>1 DEF ArrivalFocus
    <3>3. /\ laid \in [Window -> Client]
          /\ \A w \in Window : Heard(laid[w], w = focused[ws])
      <4>1. tiles[ws] \in Seq(Window)
        BY <2>0
      <4>2. \A w \in Window : Informed(client[w], w = focused[ws])
        BY <2>1
      <4>3. QED
        BY <2>0, <4>1, <4>2, LaidOutHeard
    <3> HIDE DEF laid
    <3>4. /\ told \in [Window -> Client]
          /\ \A w \in Window : Heard(told[w], w = focused[ws])
      BY <3>3, UpdateTells
    <3>5. client' = UpdateActivated(told, tiles[ws], focused[ws])
      BY <1>1, <3>1, <3>2 DEF Arranged
    <3> HIDE DEF told
    <3>6. LastSent(client'[v]).active = (v = focused[ws])
      <4>1. v \in ToSet(tiles[ws]) /\ life[v] # "dead"
        BY <2>0, <3>1
      <4>2. LastSent(UpdateActivated(told, tiles[ws], focused[ws])[v]).active = (v = focused[ws])
        <5>1. \A w \in Window : Heard(told[w], w = focused[ws])
          BY <3>4
        <5>2. told \in [Window -> Client] /\ v \in Window
          BY <2>0, <3>4
        <5>3. QED
          BY <4>1, <5>1, <5>2, UpdateTellsOne
      <4>3. QED
        BY <3>5, <4>2
    <3>7. QED
      BY <3>1, <3>2, <3>6
  <2>6. ASSUME UNCHANGED <<active, focused>> PROVE FALSE
    BY <1>1, <2>6
  <2>7. QED
    BY <1>1, <2>2, <2>3, <2>4, <2>5, <2>6
       DEF HandshakeNext, handshake, Die, Refresh, ToggleFloating, HostResize,
           RequestDecoration, AnyCommit, Commit, OrphanCommit, desk
<1>2. HandshakeTypes /\ HandshakeTypes' /\ [HandshakeNext]_handshake
       => [/\ nested /\ AtRest
           /\ focused'[active'] # focused[active] \/ active' # active
           => \/ CleanupNothing
              \/ active' # active /\ focused[active'] = None
              \/ \A w \in ToSet(tiles'[active']) \intersect Alive' :
                    Tells(w, w = focused'[active'])]_handshake
  BY <1>1 DEF Tells
<1>3. QED
  BY HandshakeTypesHold, <1>2, PTL DEF HandshakeSpec, FocusFromRest

-----------------------------------------------------------------------------
(* The configure handshake: what SizesConverge says of the long run,       *)
(* without the fairness of the clients that brings it about                *)

\* The sizes there are to tell.
ToldSizes == TileSize \union {None}

\* No client chooses, by itself, the size of a tile.
SizesApart == OwnSizes \intersect TileSize = {}

\* What a client was, is and will be told are sizes of tiles, and before its initial
\* configure it is told nothing.
Sane(c) ==
    /\ c.pending.size \in ToldSizes /\ c.current.size \in ToldSizes
    /\ \A i \in DOMAIN c.sent : c.sent[i].size \in ToldSizes
    /\ ~c.initial => c.sent = <<>> /\ ~c.acked /\ c.last = None

\* No size is prepared that was not sent.
Orderly(c) == Sane(c) /\ c.pending.size = LastSent(c).size

\* A client draws at a size it chose or acked, and the compositor has seen it.
Drawn(c) ==
    /\ c.geo = c.last \/ (c.geo = Zero /\ c.last = None)
    /\ c.geo # Zero => c.geo \in OwnSizes \union {c.current.size}

\* A client that has the size it acked has been told size s.
Answered(c, s) ==
    c.geo # Zero /\ c.geo = c.current.size => c.current.size = s \/ LastSent(c).size = s

SizesInv == \A w \in Window : Orderly(client[w]) /\ Drawn(client[w])

SizesTold ==
    nested => \A w \in (ToSet(tiles[active]) \ floating) \intersect Alive :
                 Answered(client[w], Desired(tiles[active], floating, host))

\* d is c after an operation that says nothing out of order.
Follows(d, c) == Keeps(d, c) /\ Orderly(d)

\* Sending what is pending.
LEMMA SendSane ==
    ASSUME NEW c \in Client, Sane(c)
    PROVE  Orderly(SendConfigure(c)) /\ Orderly(SendPendingConfigure(c))
<1> DEFINE d == SendConfigure(c)
<1>1. c.sent \in Seq(State) /\ Len(c.sent) \in Nat /\ DOMAIN c.sent = 1..Len(c.sent)
  BY LenProperties DEF Client
<1>2. /\ d.sent = Append(c.sent, c.pending) /\ d.initial = TRUE
      /\ d.current = c.current /\ d.pending = c.pending
  BY DEF SendConfigure, Client
<1>3. LastSent(d) = c.pending
  BY SendConfigureIs
<1> HIDE DEF d
<1>4. \A i \in DOMAIN d.sent : d.sent[i] = c.pending \/ (i \in DOMAIN c.sent /\ d.sent[i] = c.sent[i])
  <2>1. c.pending \in State
    BY DEF Client
  <2>2. /\ DOMAIN d.sent = 1..(Len(c.sent) + 1) /\ d.sent[Len(c.sent) + 1] = c.pending
        /\ \A i \in 1..Len(c.sent) : d.sent[i] = c.sent[i]
    BY <1>1, <1>2, <2>1, AppendProperties, LenProperties
  <2>3. QED
    BY <1>1, <2>2
<1>5. Orderly(d)
  BY <1>2, <1>3, <1>4 DEF Orderly, Sane
<1>6. c.pending = LastSent(c) => Orderly(c)
  BY DEF Orderly
<1>7. QED
  BY <1>5, <1>6 DEF SendPendingConfigure, d

\* Preparing and sending.
LEMMA TellSane ==
    ASSUME NEW c \in Client, Sane(c), NEW s \in State, s.size \in ToldSizes
    PROVE  Follows(Tell(c, s), c)
<1> DEFINE p == [c EXCEPT !.pending = s]
<1>1. /\ p \in Client /\ p.pending = s /\ p.sent = c.sent /\ p.initial = c.initial
      /\ p.current = c.current /\ p.acked = c.acked /\ p.last = c.last
  BY DEF Client
<1> HIDE DEF p
<1>2. Sane(p)
  BY <1>1 DEF Sane
<1>3. QED
  BY <1>1, <1>2, SendSane, TellIs DEF Tell, Follows, p

\* Told its size, a client has acked it or was last sent it.
LEMMA SizedTells ==
    ASSUME NEW c \in Client, Orderly(c), NEW s \in Size, s \in ToldSizes, NEW force
    PROVE  /\ Follows(Sized(c, s, force), c)
           /\ \/ Sized(c, s, force).current.size = s
              \/ LastSent(Sized(c, s, force)).size = s
<1> DEFINE p == [c.pending EXCEPT !.size = s]
<1>1. p \in State /\ p.size = s
  BY PendingType
<1>2. Sized(c, s, force) = IF force \/ c.current.size # s THEN Tell(c, p) ELSE c
  BY DEF Sized
<1> HIDE DEF p
<1>3. Follows(Tell(c, p), c) /\ LastSent(Tell(c, p)) = p
  BY <1>1, TellSane, TellIs DEF Orderly
<1>4. Follows(c, c)
  BY DEF Follows, Keeps
<1>5. QED
  BY <1>1, <1>2, <1>3, <1>4

\* Raising a float says nothing about sizes.
LEMMA RaisedFollows ==
    ASSUME NEW c \in Client, Orderly(c), NEW w, NEW ts, NEW fl
    PROVE  Follows(Raised(c, w, ts, fl), c) /\ LastSent(Raised(c, w, ts, fl)) = LastSent(c)
<1> DEFINE d == Raised(c, w, ts, fl)
<1>1. /\ Keeps(d, c) /\ d.pending.size = c.pending.size
      /\ d.sent = c.sent /\ d.initial = c.initial
  BY RaisedIs
<1> HIDE DEF d
<1>2. LastSent(d) = LastSent(c)
  BY <1>1 DEF LastSent, Keeps
<1>3. Orderly(d)
  BY <1>1, <1>2 DEF Orderly, Sane, Keeps
<1>4. QED
  BY <1>1, <1>2, <1>3 DEF Follows, d

\* Nor does the activation.
LEMMA ActivatedFollows ==
    ASSUME NEW c \in Client, Orderly(c), NEW a \in BOOLEAN
    PROVE  /\ Follows(Activated(c, a), c)
           /\ LastSent(Activated(c, a)).size = LastSent(c).size
<1> DEFINE p == [c.pending EXCEPT !.active = a]
<1>1. p \in State /\ p.size = c.pending.size
  BY PendingType
<1>2. Activated(c, a) = IF c.current.active # a THEN Tell(c, p) ELSE c
  BY DEF Activated
<1> HIDE DEF p
<1>3. Follows(Tell(c, p), c) /\ LastSent(Tell(c, p)) = p
  BY <1>1, TellSane, TellIs DEF Orderly, Sane
<1>4. Follows(c, c) /\ c.pending.size = LastSent(c).size
  BY DEF Follows, Keeps, Orderly
<1>5. QED
  BY <1>1, <1>2, <1>3, <1>4

\* Nor does telling it to all windows.
LEMMA UpdateFollows ==
    ASSUME NEW cs \in [Window -> Client], NEW ts, NEW foc, NEW w \in Window, Orderly(cs[w])
    PROVE  /\ Follows(UpdateActivated(cs, ts, foc)[w], cs[w])
           /\ LastSent(UpdateActivated(cs, ts, foc)[w]).size = LastSent(cs[w]).size
<1>1. UpdateActivated(cs, ts, foc)[w]
          = IF w \in ToSet(ts) /\ life[w] # "dead" THEN Activated(cs[w], w = foc) ELSE cs[w]
  BY DEF UpdateActivated
<1>2. cs[w] \in Client /\ (w = foc) \in BOOLEAN /\ Follows(cs[w], cs[w])
  BY DEF Follows, Keeps
<1>3. QED
  BY <1>1, <1>2, ActivatedFollows

\* What was answered stays so.
LEMMA UpdateAnswers ==
    ASSUME NEW cs \in [Window -> Client], NEW ts, NEW foc,
           \A w \in Window : Orderly(cs[w]) /\ Drawn(cs[w])
    PROVE  /\ UpdateActivated(cs, ts, foc) \in [Window -> Client]
           /\ \A w \in Window :
                 /\ Orderly(UpdateActivated(cs, ts, foc)[w])
                 /\ Drawn(UpdateActivated(cs, ts, foc)[w])
                 /\ \A s : Answered(cs[w], s) => Answered(UpdateActivated(cs, ts, foc)[w], s)
<1>1. UpdateActivated(cs, ts, foc) \in [Window -> Client]
  BY UpdateActivatedIs
<1>2. ASSUME NEW w \in Window
      PROVE  /\ Orderly(UpdateActivated(cs, ts, foc)[w])
             /\ Drawn(UpdateActivated(cs, ts, foc)[w])
             /\ \A s : Answered(cs[w], s) => Answered(UpdateActivated(cs, ts, foc)[w], s)
  BY UpdateFollows DEF Follows, Keeps, Drawn, Answered
<1>3. QED
  BY <1>1, <1>2

\* After a layout every tiled window has acked its size or was last sent it, whatever
\* was on its way before.
LEMMA LaidOutAnswers ==
    ASSUME NEW cs \in [Window -> Client], NEW ts \in Seq(Window), NEW fl, NEW mp,
           NEW h \in Host, NEW force, \A w \in Window : Orderly(cs[w]) /\ Drawn(cs[w])
    PROVE  /\ LaidOut(cs, ts, fl, mp, h, force) \in [Window -> Client]
           /\ \A w \in Window :
                 /\ Orderly(LaidOut(cs, ts, fl, mp, h, force)[w])
                 /\ Drawn(LaidOut(cs, ts, fl, mp, h, force)[w])
                 /\ w \in ToSet(ts) \ fl /\ life[w] # "dead"
                       => Answered(LaidOut(cs, ts, fl, mp, h, force)[w], Desired(ts, fl, h))
<1> DEFINE laid == LaidOut(cs, ts, fl, mp, h, force)
           D == Desired(ts, fl, h)
<1>1. ASSUME NEW w \in Window
      PROVE  /\ Orderly(laid[w]) /\ Drawn(laid[w])
             /\ w \in ToSet(ts) \ fl /\ life[w] # "dead" => Answered(laid[w], D)
  <2>1. PICK c \in Client :
           /\ \/ c = cs[w] /\ ~(w \in ToSet(ts) \ fl /\ life[w] # "dead")
              \/ c = Sized(cs[w], D, force) /\ w \in ToSet(ts) \ fl
           /\ laid[w] = c \/ laid[w] = Raised(c, w, ts, fl)
    <3>1. \A v \in Window :
             \E c \in Client :
                /\ \/ c = cs[v] /\ ~(v \in ToSet(ts) \ fl /\ life[v] # "dead")
                   \/ c = Sized(cs[v], D, force) /\ v \in ToSet(ts) \ fl
                /\ \/ laid[v] = c
                   \/ laid[v] = Raised(c, v, ts, fl)
      BY LaidOutIs
    <3> HIDE DEF laid, D
    <3>2. QED
      BY <3>1
  <2> HIDE DEF laid
  <2>2. /\ Follows(c, cs[w])
        /\ w \in ToSet(ts) \ fl /\ life[w] # "dead" => c.current.size = D \/ LastSent(c).size = D
    <3>1. CASE c = cs[w] /\ ~(w \in ToSet(ts) \ fl /\ life[w] # "dead")
      BY <3>1 DEF Follows, Keeps
    <3>2. CASE c = Sized(cs[w], D, force) /\ w \in ToSet(ts) \ fl
      <4>1. D \in Size /\ D \in ToldSizes
        BY <3>2, DesiredType DEF ToldSizes
      <4> HIDE DEF D
      <4>2. QED
        BY <3>2, <4>1, SizedTells
    <3>3. QED
      BY <2>1, <3>1, <3>2
  <2> HIDE DEF D
  <2>3. Follows(laid[w], c) /\ LastSent(laid[w]) = LastSent(c)
    BY <2>1, <2>2, RaisedFollows DEF Follows, Keeps
  <2>4. QED
    BY <2>2, <2>3 DEF Follows, Keeps, Drawn, Answered
<1>2. laid \in [Window -> Client]
  BY LaidOutIs
<1>3. QED
  BY <1>1, <1>2

\* A layout of the active workspace answers all its clients.
LEMMA ArrangeForceAnswers ==
    ASSUME NEW cs \in [Window -> Client], NEW mp, NEW force, active \in Workspace,
           tiles'[active] \in Seq(Window), host' \in Host, ArrangeForce(cs, mp, force),
           \A w \in Window : Orderly(cs[w]) /\ Drawn(cs[w]),
           nested' = nested, active' = active, life' \in [Window -> {"absent", "alive", "dead"}],
           \A w \in Window : life'[w] = "alive" => life[w] # "dead"
    PROVE  SizesInv' /\ SizesTold'
<1> DEFINE ts == tiles'[active]
           laid == LaidOut(cs, ts, floating', mp, host', force)
           D == Desired(ts, floating', host')
<1>1. client' = Arranged(cs, laid, ts, focused'[active])
  BY DEF ArrangeForce
<1>2. /\ laid \in [Window -> Client]
      /\ \A w \in Window :
            /\ Orderly(laid[w]) /\ Drawn(laid[w])
            /\ w \in ToSet(ts) \ floating' /\ life[w] # "dead" => Answered(laid[w], D)
  BY LaidOutAnswers
<1> HIDE DEF laid
<1>3. /\ \A w \in Window : Orderly(client'[w]) /\ Drawn(client'[w])
      /\ nested => \A w \in Window :
                      w \in ToSet(ts) \ floating' /\ life[w] # "dead" => Answered(client'[w], D)
  <2>1. CASE nested
    <3>1. client' = UpdateActivated(laid, ts, focused'[active])
      BY <1>1, <2>1 DEF Arranged
    <3> HIDE DEF D, ts
    <3>2. QED
      BY <1>2, <3>1, UpdateAnswers
  <2>2. CASE ~nested
    BY <1>1, <2>2 DEF Arranged
  <2>3. QED
    BY <2>1, <2>2
<1>4. SizesInv'
  BY <1>3 DEF SizesInv
<1>5. SizesTold'
  BY <1>3 DEF SizesTold, Alive
<1>6. QED
  BY <1>4, <1>5

\* A commit: either the compositor lays out again, or the client has the size it had.
LEMMA CommitTold ==
    ASSUME SizesApart, HandshakeTypes, HandshakeTypes', SizesInv, SizesTold,
           NEW w \in Window, AnyCommit(w)
    PROVE  SizesInv' /\ SizesTold'
<1>1. PICK k \in 0..Len(client[w].sent) : \E g \in Size :
         /\ Commit(w, k, g)
         /\ [Acked(client[w], k) EXCEPT !.geo = g] \in Client
         /\ Committable([Acked(client[w], k) EXCEPT !.geo = g])
         /\ OnWindowCommit(w, [Acked(client[w], k) EXCEPT !.geo = g])
  BY CommitIs
<1>2. PICK g \in Size :
         /\ Commit(w, k, g)
         /\ Committable([Acked(client[w], k) EXCEPT !.geo = g])
         /\ OnWindowCommit(w, [Acked(client[w], k) EXCEPT !.geo = g])
  BY <1>1
<1> DEFINE c == client[w]
           d == [Acked(c, k) EXCEPT !.geo = g]
           recorded == [client EXCEPT ![w] = [d EXCEPT !.last = d.geo]]
           D == Desired(tiles[active], floating, host)
<1>3. /\ UNCHANGED <<nested, life, tiles, floating, focused, active, host, changes>>
      /\ life[w] = "alive"
  BY <1>2 DEF Commit
<1>4. /\ client \in [Window -> Client] /\ c \in Client /\ Orderly(c) /\ Drawn(c)
      /\ tiles'[active] \in Seq(Window) /\ host' \in Host /\ active \in Workspace
      /\ ToSet(tiles[active]) \subseteq Window /\ life' \in [Window -> {"absent", "alive", "dead"}]
  <2>1. tiles[active] \in Seq(Window)
    BY DEF HandshakeTypes
  <2>2. ToSet(tiles[active]) \subseteq Window
    BY <2>1, ElementOfSeq DEF ToSet
  <2>3. QED
    BY <1>3, <2>1, <2>2 DEF HandshakeTypes, SizesInv
<1>5. /\ d \in Client /\ d.geo = g /\ d.last = c.last
      /\ d.pending = c.pending /\ d.initial = c.initial /\ LastSent(d) = LastSent(c)
      /\ \/ d.current = c.current /\ d.sent = c.sent /\ d.acked = c.acked
         \/ /\ k \in DOMAIN c.sent /\ d.current = c.sent[k]
            /\ \A i \in DOMAIN d.sent : d.sent[i] = c.sent[k + i] /\ k + i \in DOMAIN c.sent
  BY <1>2, <1>4, AckedIs
<1>6. /\ Committable(d)
      /\ OnWindowCommit(w, d)
  BY <1>2
<1> HIDE DEF d, c
<1>7. Orderly(d)
  <2>1. d.current.size \in ToldSizes
    BY <1>4, <1>5 DEF Orderly, Sane
  <2>2. \A i \in DOMAIN d.sent : d.sent[i].size \in ToldSizes
    BY <1>4, <1>5 DEF Orderly, Sane
  <2>3. ~d.initial => d.sent = <<>> /\ ~d.acked /\ d.last = None
    BY <1>4, <1>5 DEF Orderly, Sane
  <2>4. QED
    BY <1>4, <1>5, <2>1, <2>2, <2>3 DEF Orderly, Sane
<1>8. /\ d.geo # Zero => d.acked /\ d.geo # None /\ d.geo \in OwnSizes \union {d.current.size}
  BY <1>6 DEF Committable
<1>9. ASSUME NEW e \in Client, client' = [client EXCEPT ![w] = e],
             Orderly(e), Drawn(e), e.geo = d.geo, e.current = d.current, LastSent(e).size = LastSent(d).size,
             w \in ToSet(tiles[active]) => (Answered(c, D) => Answered(d, D))
      PROVE  SizesInv' /\ SizesTold'
  <2>1. client'[w] = e /\ \A v \in Window \ {w} : client'[v] = client[v]
    BY <1>4, <1>9
  <2>2. SizesInv'
    BY <1>9, <2>1 DEF SizesInv
  <2>3. ASSUME nested, NEW v \in (ToSet(tiles[active]) \ floating) \intersect Alive
        PROVE  Answered(client'[v], D)
    <3>1. Answered(client[v], D) /\ v \in Window
      BY <2>3 DEF SizesTold, Alive
    <3> HIDE DEF D
    <3>2. CASE v = w
      <4>1. Answered(d, D)
        BY <1>9, <2>3, <3>1, <3>2 DEF c
      <4>2. QED
        BY <1>9, <2>1, <3>2, <4>1 DEF Answered
    <3>3. CASE v # w
      BY <2>1, <3>1, <3>3
    <3>4. QED
      BY <3>2, <3>3
  <2>4. SizesTold'
    BY <1>3, <2>3 DEF SizesTold, Alive
  <2>5. QED
    BY <2>2, <2>4
<1>10. CASE ~d.initial
  <2>1. client' = [client EXCEPT ![w] = SendConfigure(d)]
    BY <1>6, <1>10 DEF OnWindowCommit
  <2>2. d.geo = Zero /\ d.last = None
    BY <1>7, <1>8, <1>10 DEF Orderly, Sane
  <2>3. /\ Keeps(SendConfigure(d), d) /\ LastSent(SendConfigure(d)) = d.pending
        /\ Orderly(SendConfigure(d))
    BY <1>5, <1>7, SendConfigureIs, SendSane DEF Orderly
  <2>4. Drawn(SendConfigure(d)) /\ Answered(d, D)
    BY <2>2, <2>3 DEF Keeps, Drawn, Answered
  <2>5. LastSent(SendConfigure(d)).size = LastSent(d).size
    BY <1>7, <2>3 DEF Orderly
  <2>6. QED
    BY <1>9, <2>1, <2>3, <2>4, <2>5 DEF Keeps
<1> DEFINE e == [d EXCEPT !.last = d.geo]
<1>11. /\ e \in Client /\ e.geo = d.geo /\ e.last = d.geo /\ e.current = d.current
       /\ LastSent(e) = LastSent(d) /\ (d.initial => Orderly(e)) /\ Drawn(e)
  <2>1. /\ e \in Client /\ e.geo = d.geo /\ e.last = d.geo /\ e.current = d.current
        /\ e.pending = d.pending /\ e.sent = d.sent /\ e.initial = d.initial /\ e.acked = d.acked
    BY <1>5 DEF Client
  <2> HIDE DEF e
  <2>2. LastSent(e) = LastSent(d)
    BY <2>1 DEF LastSent
  <2>3. QED
    BY <1>7, <1>8, <2>1, <2>2 DEF Orderly, Sane, Drawn
<1>12. recorded = [client EXCEPT ![w] = e]
  OBVIOUS
<1> HIDE DEF e, recorded
<1>13. CASE d.initial /\ ~(d.geo # d.last /\ w \in ToSet(tiles[active]))
  <2>1. client' = recorded
    BY <1>6, <1>13 DEF OnWindowCommit, recorded
  <2>2. ASSUME w \in ToSet(tiles[active]), Answered(c, D) PROVE Answered(d, D)
    <3> HIDE DEF D
    <3> SUFFICES ASSUME d.geo # Zero, d.geo = d.current.size
                 PROVE  d.current.size = D \/ LastSent(d).size = D
      BY DEF Answered
    <3>1. d.geo = c.last
      BY <1>5, <1>13, <2>2
    <3>2. d.geo \notin OwnSizes
      <4>1. d.geo \in TileSize
        BY <1>7, <1>8 DEF Orderly, Sane, ToldSizes
      <4>2. QED
        BY <4>1 DEF SizesApart
    <3>3. c.geo = d.geo
      BY <1>4, <1>8, <3>1 DEF Drawn
    <3>4. QED
      BY <1>4, <1>5, <2>2, <3>1, <3>2, <3>3 DEF Drawn, Answered
  <2>3. QED
    BY <1>9, <1>11, <1>12, <1>13, <2>1, <2>2
<1>14. CASE d.initial /\ d.geo # d.last /\ w \in ToSet(tiles[active])
  <2>1. PICK force : ArrangeForce(recorded, mapped, force)
    BY <1>6, <1>14 DEF OnWindowCommit, recorded
  <2>2. /\ recorded \in [Window -> Client] /\ recorded[w] = e
        /\ \A v \in Window \ {w} : recorded[v] = client[v]
    BY <1>4, <1>11, <1>12
  <2>3. \A v \in Window : Orderly(recorded[v]) /\ Drawn(recorded[v])
    BY <1>11, <1>14, <2>2 DEF SizesInv
  <2>4. \A v \in Window : life'[v] = "alive" => life[v] # "dead"
    BY <1>3
  <2>5. QED
    BY <1>3, <1>4, <2>1, <2>2, <2>3, <2>4, ArrangeForceAnswers
<1>15. QED
  BY <1>10, <1>13, <1>14

\* Every step keeps every client told.
LEMMA SizesStep ==
    ASSUME SizesApart, HandshakeTypes, HandshakeTypes', SizesInv, SizesTold,
           [HandshakeNext]_handshake
    PROVE  SizesInv' /\ SizesTold'
<1>1. /\ client \in [Window -> Client] /\ host' \in Host /\ active \in Workspace
      /\ tiles \in [Workspace -> Seq(Window)] /\ tiles'[active] \in Seq(Window)
      /\ life' \in [Window -> {"absent", "alive", "dead"}]
      /\ \A v \in Window : Orderly(client[v]) /\ Drawn(client[v])
      /\ host \in Host
  BY DEF HandshakeTypes, SizesInv
<1>2. ASSUME NEW foc, NEW ts
      PROVE  LET cs == UpdateActivated(client, ts, foc)
             IN  /\ cs \in [Window -> Client]
                 /\ \A v \in Window : Orderly(cs[v]) /\ Drawn(cs[v])
  BY <1>1, UpdateAnswers
<1>3. ASSUME NEW cs \in [Window -> Client], NEW force, ArrangeForce(cs, mapped, force),
             \A v \in Window : Orderly(cs[v]) /\ Drawn(cs[v]),
             nested' = nested, active' = active,
             \A v \in Window : life'[v] = "alive" => life[v] # "dead"
      PROVE  SizesInv' /\ SizesTold'
  BY <1>1, <1>3, ArrangeForceAnswers
<1>4. ASSUME NEW w \in Window, NewToplevel(w) PROVE SizesInv' /\ SizesTold'
  <2>1. /\ ArrangeForce(client, mapped, FALSE) /\ nested' = nested /\ active' = active
        /\ life[w] = "absent" /\ life' = [life EXCEPT ![w] = "alive"]
    BY <1>4 DEF NewToplevel
  <2>2. \A v \in Window : life'[v] = "alive" => life[v] # "dead"
    BY <2>1 DEF HandshakeTypes
  <2>3. QED
    BY <1>1, <1>3, <2>1, <2>2
<1>5. ASSUME NEW w \in Window, Die(w) PROVE SizesInv' /\ SizesTold'
  <2>1. /\ UNCHANGED <<nested, tiles, floating, active, host>>
        /\ client' = [client EXCEPT ![w] = Blank] /\ life' = [life EXCEPT ![w] = "dead"]
    BY <1>5 DEF Die
  <2>2. Orderly(Blank) /\ Drawn(Blank)
    BY DEF Blank, Unset, Orderly, Sane, Drawn, LastSent, ToldSizes
  <2>3. \A v \in Window : client'[v] = IF v = w THEN Blank ELSE client[v]
    BY <1>1, <2>1
  <2>4. SizesInv'
    BY <2>2, <2>3 DEF SizesInv
  <2>5. \A v \in Window : life'[v] = "alive" => v # w /\ life[v] = "alive"
    BY <2>1 DEF HandshakeTypes
  <2>6. SizesTold'
    BY <2>1, <2>3, <2>5 DEF SizesTold, Alive
  <2>7. QED
    BY <2>4, <2>6
<1>6. ASSUME CleanupNothing \/ Refresh \/ UNCHANGED handshake PROVE SizesInv' /\ SizesTold'
  <2>1. UNCHANGED <<nested, life, tiles, floating, active, host, client>>
    BY <1>6 DEF CleanupNothing, Refresh, handshake, desk
  <2>2. QED
    BY <2>1 DEF SizesInv, SizesTold, Alive
<1>7. ASSUME CleanupRemoved \/ \E ws \in Workspace : MoveFocused(ws)
      PROVE  SizesInv' /\ SizesTold'
  <2>1. /\ UNCHANGED <<nested, life, active>>
        /\ \E foc : ArrangeForce(UpdateActivated(client, tiles'[active], foc), mapped, FALSE)
    BY <1>7 DEF CleanupRemoved, MoveFocused
  <2>2. PICK foc : ArrangeForce(UpdateActivated(client, tiles'[active], foc), mapped, FALSE)
    BY <2>1
  <2> DEFINE cs == UpdateActivated(client, tiles'[active], foc)
  <2>3. cs \in [Window -> Client] /\ \A v \in Window : Orderly(cs[v]) /\ Drawn(cs[v])
    BY <1>2
  <2> HIDE DEF cs
  <2>4. ArrangeForce(cs, mapped, FALSE)
    BY <2>2 DEF cs
  <2>5. \A v \in Window : life'[v] = "alive" => life[v] # "dead"
    BY <2>1
  <2>6. QED
    BY <1>3, <2>1, <2>3, <2>4, <2>5
<1>8. ASSUME NEW w \in Window \union {None}, Click(w) PROVE SizesInv' /\ SizesTold'
  <2>1. /\ client' = UpdateActivated(client, tiles[active], w)
        /\ UNCHANGED <<nested, life, tiles, floating, active, host>>
    BY <1>8 DEF Click
  <2>2. \A v \in Window : /\ Orderly(client'[v]) /\ Drawn(client'[v])
                          /\ \A s : Answered(client[v], s) => Answered(client'[v], s)
    BY <1>1, <2>1, UpdateAnswers
  <2>3. QED
    BY <2>1, <2>2 DEF SizesInv, SizesTold, Alive
<1>9. ASSUME ToggleFloating \/ (\E h \in Host : HostResize(h)) \/ (\E w \in Window : OrphanCommit(w))
      PROVE  SizesInv' /\ SizesTold'
  <2>1. /\ ArrangeForce(client, mapped, FALSE) /\ UNCHANGED <<nested, life, active>>
    BY <1>9 DEF ToggleFloating, HostResize, OrphanCommit
  <2>2. \A v \in Window : life'[v] = "alive" => life[v] # "dead"
    BY <2>1
  <2>3. QED
    BY <1>1, <1>3, <2>1, <2>2
<1>10. ASSUME NEW ws \in Workspace, SwitchWorkspace(ws) PROVE SizesInv' /\ SizesTold'
  <2> DEFINE laid == LaidOut(client, tiles[ws], floating, mapped \ ToSet(tiles[active]),
                             host, TRUE)
             cs == Arranged(client, laid, tiles[ws], focused[ws])
             D == Desired(tiles[ws], floating, host)
  <2>1. /\ active' = ws /\ UNCHANGED <<nested, life, tiles, floating, host>>
        /\ client' = UpdateActivated(cs, tiles[ws], ArrivalFocus(ws))
    BY <1>10 DEF SwitchWorkspace
  <2>2. tiles[ws] \in Seq(Window)
    BY <1>1
  <2>3. /\ laid \in [Window -> Client]
        /\ \A v \in Window : /\ Orderly(laid[v]) /\ Drawn(laid[v])
                             /\ v \in ToSet(tiles[ws]) \ floating /\ life[v] # "dead"
                                   => Answered(laid[v], D)
    BY <1>1, <2>2, LaidOutAnswers
  <2> HIDE DEF laid
  <2>4. /\ cs \in [Window -> Client]
        /\ \A v \in Window : /\ Orderly(cs[v]) /\ Drawn(cs[v])
                             /\ nested /\ v \in ToSet(tiles[ws]) \ floating /\ life[v] # "dead"
                                   => Answered(cs[v], D)
    <3> HIDE DEF D
    <3>1. CASE nested
      <4>1. cs = UpdateActivated(laid, tiles[ws], focused[ws])
        BY <3>1 DEF Arranged
      <4> HIDE DEF cs
      <4>2. QED
        BY <2>3, <4>1, UpdateAnswers
    <3>2. CASE ~nested
      BY <1>1, <3>2 DEF Arranged
    <3>3. QED
      BY <3>1, <3>2
  <2> HIDE DEF cs, D
  <2>5. \A v \in Window : /\ Orderly(client'[v]) /\ Drawn(client'[v])
                          /\ nested /\ v \in ToSet(tiles[ws]) \ floating /\ life[v] # "dead"
                                => Answered(client'[v], D)
    BY <2>1, <2>4, UpdateAnswers
  <2>6. QED
    BY <2>1, <2>5 DEF SizesInv, SizesTold, Alive, D
<1>11. ASSUME NEW w \in Window, RequestDecoration(w) PROVE SizesInv' /\ SizesTold'
  <2> DEFINE c == client[w]
             d == Decorated(c)
             p == [c EXCEPT !.decorated = TRUE]
  <2>1. /\ UNCHANGED <<nested, life, tiles, floating, active, host>>
        /\ client' = [client EXCEPT ![w] = d]
    BY <1>11 DEF RequestDecoration, desk
  <2>2. c \in Client /\ Orderly(c) /\ Drawn(c)
    BY <1>1
  <2> HIDE DEF c
  <2>3. /\ p \in Client /\ Keeps(p, c) /\ p.pending = c.pending /\ p.sent = c.sent
        /\ p.initial = c.initial
    BY <2>2 DEF Client, Keeps
  <2>4. Sane(p) /\ Sane(c)
    BY <2>2, <2>3 DEF Sane, Orderly, Keeps
  <2>5. Follows(d, c) /\ LastSent(d).size = LastSent(c).size
    <3>1. CASE c.decorated
      BY <2>2, <2>4, <3>1, SendPendingIs, SendSane DEF Decorated, Follows, Orderly
    <3>2. CASE ~c.decorated
      <4> HIDE DEF p
      <4>1. Keeps(SendConfigure(p), p) /\ LastSent(SendConfigure(p)) = p.pending
            /\ Orderly(SendConfigure(p))
        BY <2>3, <2>4, SendConfigureIs, SendSane
      <4>2. d = SendConfigure(p)
        BY <3>2 DEF Decorated, p
      <4> HIDE DEF d
      <4>3. QED
        BY <2>2, <2>3, <4>1, <4>2 DEF Follows, Keeps, Orderly
    <3>3. QED
      BY <3>1, <3>2
  <2> HIDE DEF d
  <2>6. /\ Orderly(d) /\ Drawn(d)
        /\ \A s : Answered(c, s) => Answered(d, s)
    BY <2>2, <2>5 DEF Follows, Keeps, Drawn, Answered
  <2>7. /\ \A v \in Window : Orderly(client'[v]) /\ Drawn(client'[v])
        /\ \A v \in Window : \A s : Answered(client[v], s) => Answered(client'[v], s)
    BY <1>1, <2>1, <2>6 DEF c
  <2>8. QED
    BY <2>1, <2>7 DEF SizesInv, SizesTold, Alive
<1>12. QED
  BY <1>4, <1>5, <1>6, <1>7, <1>8, <1>9, <1>10, <1>11, CommitTold DEF HandshakeNext

\* On the active workspace, a live tiled client that draws at the size it acked has
\* been told the size of its tile: it has acked it, or it is the last one on its way.
\* No resize, move in or out of the layout or between workspaces, switch, death or
\* ack loses it, however many of them cross each other; as long as no client draws,
\* of its own choice, at a size some layout gives.
THEOREM EverySizeTold ==
    ASSUME SizesApart
    PROVE  HandshakeSpec => []SizesTold
<1>1. HandshakeInit => SizesInv /\ SizesTold
  <2> SUFFICES ASSUME HandshakeInit PROVE SizesInv /\ SizesTold
    OBVIOUS
  <2>1. Orderly(Blank) /\ Drawn(Blank)
    BY DEF Blank, Unset, Orderly, Sane, Drawn, LastSent, ToldSizes
  <2>2. \A w \in Window : client[w] = Blank /\ life[w] = "absent"
    BY DEF HandshakeInit
  <2>3. QED
    BY <2>1, <2>2 DEF SizesInv, SizesTold, Alive
<1>2. HandshakeTypes /\ HandshakeTypes' /\ SizesInv /\ SizesTold /\ [HandshakeNext]_handshake
          => SizesInv' /\ SizesTold'
  BY SizesStep
<1>3. QED
  BY <1>1, <1>2, HandshakeTypesHold, PTL DEF HandshakeSpec
=============================================================================
