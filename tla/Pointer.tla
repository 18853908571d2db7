------------------------------ MODULE Pointer ------------------------------
(***************************************************************************)
(* Pointer input (katnip/src/input.rs): relative motion kept on the        *)
(* outputs (clamp_to_outputs) while they come and go, buttons that move    *)
(* the focus, and SUPER+drag, which is to start a grab.                    *)
(*                                                                         *)
(* The pointer shares the keyboard focus and the state of SUPER with module *)
(* Keyboard; module Seat puts the two together and says what steps there   *)
(* are.                                                                    *)
(*                                                                         *)
(* Of smithay's pointer: the press of a button without a grab starts a     *)
(* click grab under the serial of that event, which lasts until every      *)
(* button is released; has_grab(s) holds when the grab in force was        *)
(* started under the serial s.                                             *)
(***************************************************************************)
EXTENDS Integers, FiniteSets

CONSTANTS
    Window, NoWindow,
    Button,      \* among them "left" and "right"
    Layouts,     \* sets of output rectangles [x, y, w, h] the space may hold
    Step,        \* bound: pixels of one relative motion, in each axis
    Reach,       \* bound: coordinates without any output to clamp to
    MaxSerial    \* bound: button events

VARIABLES
    outputs,  \* the rectangles of space.outputs()
    pos,      \* the pointer location
    held,     \* buttons that are down
    logo,     \* SUPER is down
    focus,    \* the keyboard focus
    grab,     \* the kind of the pointer's grab
    started,  \* the serial the grab was started under
    serial    \* serial of the last button event

vars == <<outputs, pos, held, logo, focus, grab, started, serial>>

Pixel == [x : -Reach..Reach, y : -Reach..Reach]

Contains(o, p) == p.x \in o.x..(o.x + o.w - 1) /\ p.y \in o.y..(o.y + o.h - 1)

Clip(v, lo, hi) == IF v < lo THEN lo ELSE IF v > hi THEN hi ELSE v

Least(S) == CHOOSE n \in S : \A m \in S : n <= m
Most(S) == CHOOSE n \in S : \A m \in S : n >= m

\* Mutation: the far edges count as inside.
ClampedInclusive(p) ==
    IF outputs = {} THEN p
    ELSE [x |-> Clip(p.x, Least({o.x : o \in outputs}), Most({o.x + o.w : o \in outputs})),
          y |-> Clip(p.y, Least({o.y : o \in outputs}), Most({o.y + o.h : o \in outputs}))]

\* clamp_to_outputs: into the bounding box of all outputs.
Clamped(p) ==
    IF outputs = {} THEN p
    ELSE [x |-> Clip(p.x, Least({o.x : o \in outputs}), Most({o.x + o.w - 1 : o \in outputs})),
          y |-> Clip(p.y, Least({o.y : o \in outputs}), Most({o.y + o.h - 1 : o \in outputs}))]

-----------------------------------------------------------------------------
Init ==
    /\ outputs \in Layouts
    /\ pos = [x |-> 0, y |-> 0]
    /\ held = {}
    /\ logo = FALSE
    /\ focus = NoWindow
    /\ grab = "none"
    /\ started = 0
    /\ serial = 0

\* PointerMotion
Motion(dx, dy) ==
    /\ pos' = Clamped([x |-> pos.x + dx, y |-> pos.y + dy])
    /\ pos' \in Pixel
    /\ UNCHANGED <<outputs, held, logo, focus, grab, started, serial>>

\* PointerMotionAbsolute: a point of the first output.
MotionAbsolute(p) ==
    /\ \E o \in outputs : Contains(o, p)
    /\ pos' = p
    /\ UNCHANGED <<outputs, held, logo, focus, grab, started, serial>>

HasGrab(s) == grab # "none" /\ started = s

\* start_move_grab, start_resize_grab: what the press b with the serial s over
\* w starts, if valid_grab_start allows.
DragKind(b, w, s) ==
    IF logo /\ w # NoWindow /\ b = "left" /\ HasGrab(s) THEN "move"
    ELSE IF logo /\ w # NoWindow /\ b = "right" /\ HasGrab(s) THEN "resize"
    ELSE grab

\* PointerButton, a press over the window w or over none: without a grab it
\* focuses and tries to start a drag, then pointer.button sees the event.
Press(b, w) ==
    /\ serial < MaxSerial
    /\ b \notin held
    /\ serial' = serial + 1
    /\ held' = held \union {b}
    /\ LET kind == IF grab = "none" THEN DragKind(b, w, serial') ELSE grab
       IN  /\ focus' = IF grab = "none" THEN w ELSE focus
           /\ grab' = IF kind = "none" THEN "click" ELSE kind
           /\ started' = IF grab = "none" THEN serial' ELSE started
    /\ UNCHANGED <<outputs, pos, logo>>

\* PointerButton, a release: only pointer.button sees it.
Release(b) ==
    /\ serial < MaxSerial
    /\ b \in held
    /\ serial' = serial + 1
    /\ held' = held \ {b}
    /\ grab' = IF held' = {} THEN "none" ELSE grab
    /\ started' = IF held' = {} THEN 0 ELSE started
    /\ UNCHANGED <<outputs, pos, logo, focus>>

\* Outputs come and go, or change size (module Outputs): the pointer stays.
LayoutChanges(l) ==
    /\ l # outputs
    /\ outputs' = l
    /\ UNCHANGED <<pos, held, logo, focus, grab, started, serial>>
-----------------------------------------------------------------------------
(* Properties *)

Moves == pos' # pos

OnScreen(p) == \E o \in outputs : Contains(o, p)

\* Outputs of one height side by side, from the left and without gaps: what
\* create_output makes of equal displays until one of them goes.
Even ==
    /\ \A o1, o2 \in outputs : o1.y = o2.y /\ o1.h = o2.h
    /\ \A o \in outputs : o.x > 0 => \E o2 \in outputs : o2.x + o2.w = o.x

\* On even outputs a motion always ends on one of them, also when a hotplug
\* has left the pointer outside of all.
EvenOutputsKeepPointer ==
    [][Moves /\ Even /\ outputs # {} => OnScreen(pos')]_vars

(* What comments and docs say and the code does not do *)

\* "Clamps a pointer position to the union of all output geometries so the
\* cursor cannot wander off into unmapped coordinate space" (input.rs:299).
MotionStaysOnOutputs ==
    [][Moves /\ outputs # {} => OnScreen(pos')]_vars

\* "`SUPER+LMB` drag-move (auto-floats tiled windows), `SUPER+RMB` quadrant
\* resize" (README.md:42), "focus, float if needed, start move" (input.rs:131): the
\* first press of the seat, with SUPER over a window, starts a grab of that kind.
SuperDragGrabs ==
    [][logo /\ held = {} /\ focus' \in Window
          => /\ held' = {"left"} => grab' = "move"
             /\ held' = {"right"} => grab' = "resize"]_vars
=============================================================================
