-------------------------------- MODULE Seat --------------------------------
(***************************************************************************)
(* The seat: process_input_event with a keyboard and a pointer.  The two   *)
(* meet in the keyboard focus, which clicks and the actions of keys move,  *)
(* and in SUPER, which makes a press the start of a drag.                  *)
(***************************************************************************)
EXTENDS Keyboard, Integers, FiniteSets

CONSTANTS
    Super,       \* the key of the logo modifier
    Button,      \* the rest as in module Pointer
    Layouts,
    Step,
    Reach,
    MaxSerial

ASSUME SuperAssumption == Super \in Modifier
ASSUME ButtonAssumption == {"left", "right"} \subseteq Button
ASSUME BoundsAssumption == Step \in Nat /\ Reach \in Nat /\ MaxSerial \in Nat
ASSUME LayoutsAssumption ==
    \A l \in Layouts :
        /\ IsFiniteSet(l)
        /\ l \subseteq [x : Nat, y : Nat, w : Nat \ {0}, h : Nat \ {0}]

VARIABLES outputs, pos, held, grab, started, serial

pointer == <<outputs, pos, held, grab, started, serial>>
seat == <<vars, pointer>>

P == INSTANCE Pointer WITH logo <- Super \in down

SeatInit == Init /\ P!Init

KeyEvent ==
    /\ \E k \in Key : PressBound(k) \/ PressUnbound(k) \/ Release(k)
    /\ UNCHANGED pointer

\* An IPC command, a cleanup or a new window moves the focus.
FocusEvent ==
    /\ \E w \in Window \union {NoWindow} : FocusMoves(w)
    /\ UNCHANGED pointer

MotionEvent ==
    /\ UNCHANGED vars
    /\ \/ \E dx, dy \in -Step..Step : P!Motion(dx, dy)
       \/ \E p \in P!Pixel : P!MotionAbsolute(p)

\* A press over w, or over none.  set_focus sends nothing if the focus stays.
ButtonPress(b, w) ==
    /\ \E v \in Window \union {NoWindow} :
          IF v = focus THEN UNCHANGED vars ELSE FocusMoves(v)
    /\ P!Press(b, w)

ButtonEvent ==
    \/ \E b \in Button, w \in Window \union {NoWindow} : ButtonPress(b, w)
    \/ \E b \in Button : UNCHANGED vars /\ P!Release(b)

OutputEvent ==
    /\ UNCHANGED vars
    /\ \E l \in Layouts : P!LayoutChanges(l)

SeatNext ==
    \/ KeyEvent
    \/ FocusEvent
    \/ MotionEvent
    \/ ButtonEvent
    \/ OutputEvent

SeatSpec == SeatInit /\ [][SeatNext]_seat
-----------------------------------------------------------------------------
(* Properties of module Pointer, with a keyboard beside it *)

\* On even outputs every motion ends on one of them.
EvenOutputsKeepPointer == P!EvenOutputsKeepPointer

\* A motion ends on an output, also on uneven ones.
MotionStaysOnOutputs == P!MotionStaysOnOutputs

\* SUPER and a button over a window start a drag.
SuperDragGrabs == P!SuperDragGrabs
=============================================================================
