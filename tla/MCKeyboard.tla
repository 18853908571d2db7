----------------------------- MODULE MCKeyboard -----------------------------
(***************************************************************************)
(* Keyboard with three of the default binds, on a keyboard of two modifiers*)
(* and three other keys, one of which is bound to nothing.                 *)
(***************************************************************************)
EXTENDS Keyboard

MCLevel1 == [super |-> "Super_L", shift |-> "Shift_L",
             one |-> "1", c |-> "c", x |-> "x"]
MCLevel2 == [super |-> "Super_L", shift |-> "Shift_L",
             one |-> "exclam", c |-> "C", x |-> "X"]
MCKey == DOMAIN MCLevel1
MCModifier == {"super", "shift"}

Bind(mods, key, action) == [mods |-> mods, key |-> key, action |-> action]

MCChords == {Bind({"super"}, "one", "workspace"), Bind({"super"}, "c", "close"),
             Bind({"super", "shift"}, "one", "move-to-workspace")}

MCRefocusing == {"workspace", "move-to-workspace"}
=============================================================================
