----------------------------- MODULE MCPlugins -----------------------------
(***************************************************************************)
(* Plugins with two spellings of one chord, an alias of its key, another   *)
(* chord, one with a key name xkb does not know, and a text that does not  *)
(* parse; and with files that fail before or after they register an entry, *)
(* register a bad one, or have a hook that fails.                          *)
(***************************************************************************)
EXTENDS Plugins

CONSTANTS NoText, NoSym, close, quit

Chord(name) == [mods |-> {"logo"}, name |-> name]

MCTexts == <<NoText, Chord("page_up"), Chord("nosuchkey"), Chord("prior"), Chord("prior"),
             Chord("c")>>
MCKeysym == [page_up |-> "Prior", prior |-> "Prior", nosuchkey |-> NoSym, c |-> "c"]
MCDefaults == <<[text |-> 6, action |-> close], [text |-> 4, action |-> quit]>>

E(t, a) == [text |-> t, action |-> a]
File(binds, loads, hook) == [binds |-> binds, loads |-> loads, hook |-> hook]

MCScriptFile == {
    File(<<E(5, close), E(2, quit)>>, TRUE, "none"),
    File(<<E(4, quit)>>, TRUE, "returns"),
    File(<<E(1, quit), E(3, close)>>, TRUE, "fails"),
    File(<<E(4, close)>>, FALSE, "returns") }
MCNativeFile == {
    [binds |-> <<E(4, close), E(2, NoAction)>>, loads |-> TRUE],
    [binds |-> <<E(5, quit)>>, loads |-> FALSE] }
=============================================================================
