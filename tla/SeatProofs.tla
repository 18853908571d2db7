----------------------------- MODULE SeatProofs -----------------------------
(***************************************************************************)
(* Proofs about Seat, for any keys, chords, windows, buttons and outputs:  *)
(* what clients believe about the keys, that the pointer stays on even     *)
(* outputs, and that the grabs of src/ are out of reach.                   *)
(***************************************************************************)
EXTENDS Seat, ListProofs

\* Forwarded keys are down, and what clients believe is about keys.
KeysHeld ==
    /\ forwarded \subseteq down
    /\ view \in [Window -> SUBSET down]

KeyboardInv == KeysHeld /\ ClientsSeeTheKeys

-----------------------------------------------------------------------------
(* The keyboard *)

\* A change of focus with the keys pressed, some of which are forwarded,
\* tells the new window about all or about those, and every other about none.
LEMMA RefocusStep ==
    ASSUME KeyboardInv, NEW w, NEW pressed, down \subseteq pressed,
           Refocus(w, pressed, forwarded), down' = pressed, forwarded' = forwarded
    PROVE  KeyboardInv'
<1> USE DEF KeyboardInv, KeysHeld, ClientsSeeTheKeys
<1>1. forwarded \subseteq pressed
  OBVIOUS
<1>2. PICK ks \in {pressed, forwarded} :
          view' = [v \in Window |-> IF w = focus THEN view[v]
                                    ELSE IF v = w THEN ks ELSE {}]
  BY DEF Refocus
<1>3. focus' = w
  BY DEF Refocus
<1>4. CASE w = focus
  BY <1>2, <1>3, <1>4
<1>5. CASE w # focus
  BY <1>1, <1>2, <1>3, <1>5
<1>6. QED
  BY <1>4, <1>5

\* No event of the keyboard, and no change of focus, confuses a client.
LEMMA KeyboardStep == KeyboardInv /\ [Next]_vars => KeyboardInv'
<1> SUFFICES ASSUME KeyboardInv, [Next]_vars PROVE KeyboardInv'
  OBVIOUS
<1>1. ASSUME NEW k \in Key, PressBound(k) PROVE KeyboardInv'
  <2> DEFINE pressed == down \union {k}
  <2>1. down \subseteq pressed /\ down' = pressed /\ forwarded' = forwarded
    BY <1>1 DEF PressBound
  <2>2. CASE UNCHANGED <<focus, view>>
    BY <2>1, <2>2 DEF KeyboardInv, KeysHeld, ClientsSeeTheKeys
  <2>3. CASE \E w \in Window \union {NoWindow} : Refocus(w, pressed, forwarded)
    BY <2>1, <2>3, RefocusStep
  <2>4. QED
    BY <1>1, <2>2, <2>3 DEF PressBound
<1>2. ASSUME NEW k \in Key, PressUnbound(k) PROVE KeyboardInv'
  BY <1>2 DEF PressUnbound, KeyboardInv, KeysHeld, ClientsSeeTheKeys
<1>3. ASSUME NEW k \in Key, Release(k) PROVE KeyboardInv'
  BY <1>3 DEF Release, KeyboardInv, KeysHeld, ClientsSeeTheKeys
<1>4. ASSUME NEW w \in Window \union {NoWindow}, FocusMoves(w) PROVE KeyboardInv'
  BY <1>4, RefocusStep DEF FocusMoves
<1>5. CASE UNCHANGED vars
  BY <1>5 DEF vars, KeyboardInv, KeysHeld, ClientsSeeTheKeys
<1>6. QED
  BY <1>1, <1>2, <1>3, <1>4, <1>5 DEF Next

\* What an event of the seat does to the keyboard is a step of module Keyboard.
LEMMA SeatStepsKeyboard == [SeatNext]_seat => [Next]_vars
<1> SUFFICES ASSUME [SeatNext]_seat PROVE [Next]_vars
  OBVIOUS
<1>1. CASE KeyEvent
  BY <1>1 DEF KeyEvent, Next
<1>2. CASE FocusEvent
  BY <1>2 DEF FocusEvent, Next
<1>3. CASE MotionEvent \/ OutputEvent
  BY <1>3 DEF MotionEvent, OutputEvent
<1>4. CASE ButtonEvent
  BY <1>4 DEF ButtonEvent, ButtonPress, Next
<1>5. CASE UNCHANGED seat
  BY <1>5 DEF seat
<1>6. QED
  BY <1>1, <1>2, <1>3, <1>4, <1>5 DEF SeatNext

\* No client is left with a stuck key or without one that was meant for it, for
\* any keybind table and any order of keys, clicks and other focus changes.
THEOREM NoStuckKeys == SeatSpec => []ClientsSeeTheKeys
<1>1. SeatInit => KeyboardInv
  BY DEF SeatInit, Init, KeyboardInv, KeysHeld, ClientsSeeTheKeys
<1>2. KeyboardInv /\ [SeatNext]_seat => KeyboardInv'
  BY KeyboardStep, SeatStepsKeyboard
<1>3. KeyboardInv => ClientsSeeTheKeys
  BY DEF KeyboardInv
<1>4. QED
  BY <1>1, <1>2, <1>3, PTL DEF SeatSpec

-----------------------------------------------------------------------------
(* The pointer *)

\* All grabs are clicks.
NoGrab == grab \in {"none", "click"}

\* A press looks for a grab under its own serial while there is no grab at all,
\* so what it leads to is a click.
LEMMA GrabStep == NoGrab /\ [SeatNext]_seat => NoGrab'
<1> SUFFICES ASSUME NoGrab, [SeatNext]_seat PROVE NoGrab'
  OBVIOUS
<1> USE DEF NoGrab
<1>1. ASSUME NEW b \in Button, NEW w \in Window \union {NoWindow}, P!Press(b, w)
      PROVE  NoGrab'
  <2>1. CASE grab = "none"
    <3>1. ~P!HasGrab(serial')
      BY <2>1 DEF P!HasGrab
    <3>2. P!DragKind(b, w, serial') = "none"
      BY <2>1, <3>1 DEF P!DragKind
    <3>3. QED
      BY <1>1, <2>1, <3>2 DEF P!Press
  <2>2. CASE grab = "click"
    BY <1>1, <2>2 DEF P!Press
  <2>3. QED
    BY <2>1, <2>2
<1>2. ASSUME NEW b \in Button, P!Release(b) PROVE NoGrab'
  BY <1>2 DEF P!Release
<1>3. CASE UNCHANGED grab
  BY <1>3
<1>4. CASE KeyEvent \/ FocusEvent
  BY <1>3, <1>4 DEF KeyEvent, FocusEvent, pointer
<1>5. CASE MotionEvent
  BY <1>3, <1>5 DEF MotionEvent, P!Motion, P!MotionAbsolute
<1>6. CASE ButtonEvent
  BY <1>1, <1>2, <1>6 DEF ButtonEvent, ButtonPress
<1>7. CASE OutputEvent
  BY <1>3, <1>7 DEF OutputEvent, P!LayoutChanges
<1>8. CASE UNCHANGED seat
  BY <1>3, <1>8 DEF seat, pointer
<1>9. QED
  BY <1>4, <1>5, <1>6, <1>7, <1>8 DEF SeatNext

\* No order of SUPER and buttons ever starts a drag, for which a single press would
\* have to do (SuperDragGrabs): the states of the move and the resize grab are never
\* reached, and that is why module Desktop has no drags.
THEOREM GrabsUnreachable == SeatSpec => []NoGrab
<1>1. SeatInit => NoGrab
  BY DEF SeatInit, P!Init, NoGrab
<1>2. QED
  BY <1>1, GrabStep, PTL DEF SeatSpec

-----------------------------------------------------------------------------
(* The pointer on even outputs *)

PointerTypes ==
    /\ outputs \in Layouts
    /\ pos.x \in Int /\ pos.y \in Int

\* Every step keeps the types of the pointer.
LEMMA PointerTypesStep == PointerTypes /\ [SeatNext]_seat => PointerTypes'
<1> SUFFICES ASSUME PointerTypes, [SeatNext]_seat PROVE PointerTypes'
  OBVIOUS
<1> USE DEF PointerTypes
<1>1. \A p \in P!Pixel : p.x \in Int /\ p.y \in Int
  BY BoundsAssumption DEF P!Pixel
<1>2. CASE MotionEvent
  BY <1>1, <1>2 DEF MotionEvent, P!Motion, P!MotionAbsolute
<1>3. CASE KeyEvent \/ FocusEvent \/ UNCHANGED seat
  BY <1>3 DEF KeyEvent, FocusEvent, seat, pointer
<1>4. CASE ButtonEvent
  BY <1>4 DEF ButtonEvent, ButtonPress, P!Press, P!Release
<1>5. CASE OutputEvent
  BY <1>5 DEF OutputEvent, P!LayoutChanges
<1>6. QED
  BY <1>2, <1>3, <1>4, <1>5 DEF SeatNext

\* The least and the greatest of finitely many numbers are among them.
LEMMA LeastMost ==
    ASSUME NEW S \in SUBSET Int, IsFiniteSet(S), S # {}
    PROVE  /\ P!Least(S) \in S /\ \A n \in S : P!Least(S) <= n
           /\ P!Most(S) \in S /\ \A n \in S : P!Most(S) >= n
<1>1. /\ \E m \in S : \A x \in S : m <= x
      /\ \E m \in S : \A x \in S : m >= x
  BY Extremes
<1>2. QED
  BY <1>1 DEF P!Least, P!Most

\* Of the outputs that end beyond the clipped coordinate v, the leftmost one begins
\* at v or before: were it beyond, the one it begins at would end beyond v as well.
LEMMA EvenRow ==
    ASSUME PointerTypes, P!Even, NEW v \in Int, v >= 0,
           NEW q \in outputs, v <= q.x + q.w - 1
    PROVE  \E o \in outputs : v \in o.x..(o.x + o.w - 1)
<1> DEFINE beyond == {o \in outputs : v < o.x + o.w}
           starts == {o.x : o \in beyond}
           f == [o \in beyond |-> o.x]
<1>1. /\ IsFiniteSet(outputs)
      /\ \A o \in outputs : o.x \in Nat /\ o.w \in Nat \ {0}
  BY LayoutsAssumption DEF PointerTypes
<1>2. IsFiniteSet(beyond)
  BY <1>1, FS_Subset
<1>3. IsFiniteSet(starts)
  <2>1. f \in Surjection(beyond, starts)
    BY DEF Surjection
  <2> HIDE DEF f, beyond, starts
  <2>2. QED
    BY <1>2, <2>1, FS_Surjection
<1>4. q \in beyond
  BY <1>1
<1>5. starts \in SUBSET Int /\ starts # {}
  BY <1>1, <1>4
<1>6. PICK m \in starts : \A x \in starts : m <= x
  <2> HIDE DEF starts
  <2>1. QED
    BY <1>3, <1>5, Extremes
<1>7. PICK o \in beyond : o.x = m
  OBVIOUS
<1>8. ASSUME o.x > v PROVE FALSE
  <2>1. o \in outputs /\ o.x \in Nat /\ o.x > 0
    BY <1>1, <1>7, <1>8
  <2>2. PICK o2 \in outputs : o2.x + o2.w = o.x
    BY <2>1 DEF P!Even
  <2>3. o2.x \in Nat /\ o2.w \in Nat \ {0}
    BY <1>1
  <2>4. o2 \in beyond
    BY <1>8, <2>2
  <2>5. o.x <= o2.x
    BY <1>6, <1>7, <2>4
  <2>6. QED
    BY <2>2, <2>3, <2>5
<1>9. QED
  BY <1>1, <1>7, <1>8

\* A clipped coordinate is between the bounds.
LEMMA ClipBounds ==
    ASSUME NEW v \in Int, NEW lo \in Int, NEW hi \in Int, lo <= hi
    PROVE  P!Clip(v, lo, hi) \in lo..hi
BY DEF P!Clip

\* On even outputs the bounding box is what they cover.
LEMMA ClampedOnScreen ==
    ASSUME PointerTypes, P!Even, outputs # {}, NEW p, p.x \in Int, p.y \in Int
    PROVE  P!OnScreen(P!Clamped(p))
<1>1. /\ IsFiniteSet(outputs)
      /\ \A o \in outputs : /\ o.x \in Nat /\ o.w \in Nat \ {0}
                            /\ o.y \in Nat /\ o.h \in Nat \ {0}
  BY LayoutsAssumption DEF PointerTypes
<1> DEFINE left == {o.x : o \in outputs}
           right == {o.x + o.w - 1 : o \in outputs}
           top == {o.y : o \in outputs}
           bottom == {o.y + o.h - 1 : o \in outputs}
           c == P!Clamped(p)
<1>2. IsFiniteSet(left) /\ IsFiniteSet(right) /\ IsFiniteSet(top) /\ IsFiniteSet(bottom)
  <2>1. [o \in outputs |-> o.x] \in Surjection(outputs, left)
    BY DEF Surjection
  <2>2. [o \in outputs |-> o.x + o.w - 1] \in Surjection(outputs, right)
    BY DEF Surjection
  <2>3. [o \in outputs |-> o.y] \in Surjection(outputs, top)
    BY DEF Surjection
  <2>4. [o \in outputs |-> o.y + o.h - 1] \in Surjection(outputs, bottom)
    BY DEF Surjection
  <2> HIDE DEF left, right, top, bottom
  <2>5. QED
    BY <1>1, <2>1, <2>2, <2>3, <2>4, FS_Surjection
<1>3. /\ left \in SUBSET Int /\ right \in SUBSET Int /\ top \in SUBSET Int /\ bottom \in SUBSET Int
      /\ left # {} /\ right # {} /\ top # {} /\ bottom # {}
  BY <1>1
<1>4. /\ P!Least(left) \in left /\ \A n \in left : P!Least(left) <= n
      /\ P!Most(right) \in right /\ \A n \in right : P!Most(right) >= n
      /\ P!Least(top) \in top /\ \A n \in top : P!Least(top) <= n
      /\ P!Most(bottom) \in bottom /\ \A n \in bottom : P!Most(bottom) >= n
  <2> HIDE DEF left, right, top, bottom
  <2>1. QED
    BY <1>2, <1>3, LeastMost
<1>5. /\ c.x = P!Clip(p.x, P!Least(left), P!Most(right))
      /\ c.y = P!Clip(p.y, P!Least(top), P!Most(bottom))
  BY DEF P!Clamped
<1>6. PICK q \in outputs : P!Most(right) = q.x + q.w - 1
  BY <1>4
<1>7. P!Least(left) \in Nat /\ P!Least(left) <= q.x
  BY <1>1, <1>4
<1>8. c.x \in Int /\ c.x >= 0 /\ c.x <= q.x + q.w - 1
  <2>1. P!Least(left) <= q.x + q.w - 1 /\ q.x + q.w - 1 \in Int
    BY <1>1, <1>7
  <2> HIDE DEF left, right, c
  <2>2. P!Least(left) \in Int
    BY <1>7
  <2>3. c.x = P!Clip(p.x, P!Least(left), q.x + q.w - 1)
    BY <1>5, <1>6
  <2>4. c.x \in P!Least(left)..(q.x + q.w - 1)
    BY <2>1, <2>2, <2>3, ClipBounds
  <2>5. QED
    BY <1>7, <2>1, <2>4
<1>9. PICK o \in outputs : c.x \in o.x..(o.x + o.w - 1)
  <2> HIDE DEF c
  <2>1. QED
    BY <1>8, EvenRow
<1>10. \A o2 \in outputs : o2.y = o.y /\ o2.h = o.h
  BY DEF P!Even
<1>11. P!Least(top) = o.y /\ P!Most(bottom) = o.y + o.h - 1
  BY <1>4, <1>10
<1>12. c.y \in o.y..(o.y + o.h - 1)
  <2>1. o.y \in Int /\ o.y + o.h - 1 \in Int /\ o.y <= o.y + o.h - 1
    BY <1>1
  <2> HIDE DEF c, top, bottom
  <2>2. QED
    BY <1>5, <1>11, <2>1, ClipBounds
<1>13. QED
  BY <1>9, <1>12 DEF P!OnScreen, P!Contains

\* On outputs of one height side by side every motion ends on one of them, for any
\* number of outputs, also when a hotplug has left the pointer outside of all.
THEOREM PointerStays == SeatSpec => EvenOutputsKeepPointer
<1>1. SeatInit => PointerTypes
  BY DEF SeatInit, P!Init, PointerTypes
<1>2. ASSUME PointerTypes, [SeatNext]_seat, P!Moves, P!Even, outputs # {}
      PROVE  P!OnScreen(pos')
  <2>1. pos' # pos
    BY <1>2 DEF P!Moves
  <2>2. MotionEvent
    BY <1>2, <2>1 DEF SeatNext, KeyEvent, FocusEvent, ButtonEvent, ButtonPress, P!Press, P!Release,
                      OutputEvent, P!LayoutChanges, seat, pointer
  <2>3. ASSUME NEW dx \in -Step..Step, NEW dy \in -Step..Step, P!Motion(dx, dy)
        PROVE  P!OnScreen(pos')
    <3> DEFINE p == [x |-> pos.x + dx, y |-> pos.y + dy]
    <3>1. p.x \in Int /\ p.y \in Int /\ pos' = P!Clamped(p)
      BY <1>2, <2>3, BoundsAssumption DEF PointerTypes, P!Motion
    <3> HIDE DEF p
    <3>2. QED
      BY <1>2, <3>1, ClampedOnScreen
  <2>4. ASSUME NEW p \in P!Pixel, P!MotionAbsolute(p) PROVE P!OnScreen(pos')
    BY <2>4 DEF P!MotionAbsolute, P!OnScreen
  <2>5. QED
    BY <2>2, <2>3, <2>4 DEF MotionEvent
<1>3. PointerTypes /\ [SeatNext]_seat
         => [P!Moves /\ P!Even /\ outputs # {} => P!OnScreen(pos')]_(P!vars)
  BY <1>2
<1>4. QED
  BY <1>1, PointerTypesStep, <1>3, PTL DEF SeatSpec, EvenOutputsKeepPointer, P!EvenOutputsKeepPointer
=============================================================================
