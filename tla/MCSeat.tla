------------------------------- MODULE MCSeat -------------------------------
(***************************************************************************)
(* Seat with SUPER, a key that is bound under it and one that is not, two  *)
(* buttons, and a space of no output, of one, of two even ones, of two of  *)
(* which the second is lower, or of the second of two alone.               *)
(***************************************************************************)
EXTENDS Seat

MCLevel1 == [super |-> "Super_L", one |-> "1", x |-> "x"]
MCChords == {[mods |-> {"super"}, key |-> "one", action |-> "workspace"]}

Screen(x, w, h) == [x |-> x, y |-> 0, w |-> w, h |-> h]

MCLayouts ==
    {{}, {Screen(0, 2, 2)}, {Screen(0, 2, 2), Screen(2, 2, 2)},
     {Screen(0, 2, 2), Screen(2, 1, 1)}, {Screen(2, 2, 2)}}

\* What the last key event did decides nothing of what comes.
View == <<down, forwarded, focus, view, pointer>>
=============================================================================
