------------------------------ MODULE Dwindle ------------------------------
(***************************************************************************)
(* The tiling layout (katnip-core/src/layout.rs) and the use arrange_force *)
(* (katnip/src/state.rs) makes of it.  The recursion of split_recursive is *)
(* unrolled: `pending` is its call stack, the next call first, and each    *)
(* step is the body of one call.  Coordinates are logical pixels; the i32  *)
(* arithmetic is exact because every value lies between those of the       *)
(* output, and the one product is computed in i64 by the code.             *)
(***************************************************************************)
EXTENDS Integers, Sequences

CONSTANTS
    Outputs,    \* output sizes: records [w, h]
    Layouts,    \* validated settings: records [outer, inner, border, bar]
    MaxWindows  \* tiled windows on the active workspace, at most

ASSUME OutputsAssumption ==
    /\ Outputs # {}
    /\ Outputs \subseteq [w : Nat, h : Nat]
ASSUME LayoutsAssumption ==
    /\ Layouts # {}
    /\ Layouts \subseteq [outer : Nat, inner : Nat, border : Nat, bar : Nat]
    \* Shrink's 2 * px is computed in i32.  validate() only raises a negative
    \* border to 0, so a configured border above this bound overflows there.
    /\ \A l \in Layouts : l.border <= 1073741823
ASSUME MaxWindowsAssumption == MaxWindows \in Nat

VARIABLES
    layout,    \* the settings in use
    usable,    \* the area handed to dwindle
    count,     \* the number of tiled windows
    pending,   \* calls of split_recursive still to be made
    out        \* rectangles produced so far

vars == <<layout, usable, count, pending, out>>

Rect == [x : Int, y : Int, w : Nat, h : Nat]
Call == [area : Rect, count : Nat]

AtLeast(m, n) == IF n < m THEN m ELSE n

\* The rect less px on every side; its size, not its origin, saturates.
Shrink(r, px) ==
    [x |-> r.x + px, y |-> r.y + px,
     w |-> AtLeast(0, r.w - 2 * px), h |-> AtLeast(0, r.h - 2 * px)]

\* What arrange_force gives dwindle: the output less the outer gaps and bar.
Usable(o, l) ==
    [x |-> l.outer, y |-> l.outer + l.bar,
     w |-> AtLeast(0, o.w - 2 * l.outer), h |-> AtLeast(0, o.h - 2 * l.outer - l.bar)]

Solid(r) == r.w > 0 /\ r.h > 0
Wide(r) == r.w >= r.h

\* Windows given to the left half of a wide area, to the top of a tall one.
LeftCount(a, n) == IF Wide(a) THEN (n + 1) \div 2 ELSE n \div 2

\* Mutation: divided before it is multiplied.
ShareOfEach(side, k, n) == (side \div n) * k

\* The share of a side that goes to k of n windows.
Share(side, k, n) == (side * k) \div n

HalfGap == layout.inner \div 2

\* Mutation: the size of the right piece ignores the gap.
RightUnshrunk(a, s, g) == [a EXCEPT !.x = a.x + s + g, !.w = AtLeast(0, a.w - s)]

\* Mutation: a piece is never narrower than a pixel.
LeftOnePixel(a, s, g) == [a EXCEPT !.w = AtLeast(1, s - g)]

Left(a, s, g) == [x |-> a.x, y |-> a.y, w |-> AtLeast(0, s - g), h |-> a.h]
Right(a, s, g) ==
    [x |-> a.x + s + g, y |-> a.y, w |-> AtLeast(0, a.w - s - g), h |-> a.h]
Top(a, s, g) == [x |-> a.x, y |-> a.y, w |-> a.w, h |-> AtLeast(0, s - g)]
Bottom(a, s, g) ==
    [x |-> a.x, y |-> a.y + s + g, w |-> a.w, h |-> AtLeast(0, a.h - s - g)]

-----------------------------------------------------------------------------
Init ==
    /\ layout \in Layouts
    /\ \E o \in Outputs : usable = Usable(o, layout)
    /\ count \in 0..MaxWindows
    /\ pending = <<[area |-> usable, count |-> count]>>
    /\ out = <<>>

\* No window to place, or no room for any: all windows of the call are skipped.
Skip ==
    /\ pending # <<>>
    /\ Head(pending).count = 0 \/ ~Solid(Head(pending).area)
    /\ pending' = Tail(pending)
    /\ UNCHANGED <<layout, usable, count, out>>

\* One window takes the whole area.
Place ==
    /\ pending # <<>>
    /\ Head(pending).count = 1
    /\ Solid(Head(pending).area)
    /\ out' = Append(out, Head(pending).area)
    /\ pending' = Tail(pending)
    /\ UNCHANGED <<layout, usable, count>>

\* Two calls in place of the first one.
Divide(first, second, k, n) ==
    pending' = <<[area |-> first, count |-> k], [area |-> second, count |-> n - k]>>
                   \o Tail(pending)

SplitWide ==
    /\ pending # <<>>
    /\ LET a == Head(pending).area
           n == Head(pending).count
           k == LeftCount(a, n)
           s == Share(a.w, k, n)
       IN  /\ n > 1
           /\ Solid(a)
           /\ Wide(a)
           /\ Divide(Left(a, s, HalfGap), Right(a, s, HalfGap), k, n)
    /\ UNCHANGED <<layout, usable, count, out>>

SplitTall ==
    /\ pending # <<>>
    /\ LET a == Head(pending).area
           n == Head(pending).count
           k == LeftCount(a, n)
           s == Share(a.h, k, n)
       IN  /\ n > 1
           /\ Solid(a)
           /\ ~Wide(a)
           /\ Divide(Top(a, s, HalfGap), Bottom(a, s, HalfGap), k, n)
    /\ UNCHANGED <<layout, usable, count, out>>

Next == Skip \/ Place \/ SplitWide \/ SplitTall

Spec == Init /\ [][Next]_vars
-----------------------------------------------------------------------------
(* Properties *)

Done == pending = <<>>

TypeOK ==
    /\ layout \in Layouts
    /\ usable \in Rect
    /\ count \in Nat
    /\ pending \in Seq(Call)
    /\ out \in Seq(Rect)

Within(r, s) ==
    /\ s.x <= r.x /\ r.x + r.w <= s.x + s.w
    /\ s.y <= r.y /\ r.y + r.h <= s.y + s.h

\* On one axis at least, the rectangles are d pixels from each other.
Apart(r, s, d) ==
    \/ r.x + r.w + d <= s.x
    \/ s.x + s.w + d <= r.x
    \/ r.y + r.h + d <= s.y
    \/ s.y + s.h + d <= r.y

\* "pairwise non-overlapping" (layout.rs:62), with the inner gap (rounded down
\* to an even number) between any two, not only between siblings.
GapsKept ==
    \A i, j \in DOMAIN out : i # j => Apart(out[i], out[j], 2 * HalfGap)

\* "contained within `usable`" (layout.rs:63), and never degenerate, so no
\* tile reaches under the bar or off the output.
InsideUsable ==
    \A i \in DOMAIN out : Solid(out[i]) /\ Within(out[i], usable)

\* The geometry arrange_force asks of the window in tile r: the tile inside
\* its border, at least one pixel.
WindowIn(r) ==
    LET inner == Shrink(r, layout.border)
    IN  [inner EXCEPT !.w = AtLeast(1, inner.w), !.h = AtLeast(1, inner.h)]

\* Two windows never share a pixel, not even where tiles are narrower than
\* their borders and the geometry is forced up to one pixel.
WindowsDisjoint ==
    \A i, j \in DOMAIN out : i # j => Apart(WindowIn(out[i]), WindowIn(out[j]), 0)

Separate(r, s, d) == Solid(r) /\ Solid(s) => Apart(r, s, d)

PendingInside ==
    \A k \in DOMAIN pending :
        Solid(pending[k].area) => Within(pending[k].area, usable)

PendingApart ==
    \A k, l \in DOMAIN pending :
        k # l => Separate(pending[k].area, pending[l].area, 2 * HalfGap)

TilesApartFromPending ==
    \A i \in DOMAIN out, k \in DOMAIN pending :
        Separate(out[i], pending[k].area, 2 * HalfGap)

\* At every point of the recursion the tiles are apart and inside, and so are
\* the areas still to be divided, from each other and from the tiles: a
\* division disturbs nothing outside the area it divides.
DwindleInv ==
    /\ TypeOK
    /\ GapsKept
    /\ InsideUsable
    /\ PendingInside
    /\ PendingApart
    /\ TilesApartFromPending

\* Both sides hold a row of half of the windows, and a half, with their gaps.
Ample ==
    LET row == (count + 1) * (1 + 2 * HalfGap)
    IN  2 * usable.w >= row /\ 2 * usable.h >= row

\* There is never a rectangle too many, and with ample room every window gets
\* its own, whatever the order of the cuts.
AllPlaced == Len(out) <= count /\ (Done /\ Ample => Len(out) = count)

\* "Returns exactly `count` rects" (layout.rs:62).
ExactlyCount == Done => Len(out) = count
=============================================================================
