------------------------------ MODULE KeyTable ------------------------------
(***************************************************************************)
(* How the keybind table comes to be at startup (katnip/src/main.rs): a    *)
(* config is loaded (module ConfigFile has how); its entries, or the       *)
(* defaults if it has none, then those of the plugins are inserted one by  *)
(* one (KeybindTable::insert), and at last key names are resolved to       *)
(* keysyms (ResolvedBinds::build).                                         *)
(*                                                                         *)
(* A text is what a user writes for a chord: different texts may parse to  *)
(* the same chord ("SUPER+q", "mod4+Q"), and different key names may name  *)
(* the same keysym ("Prior", "Page_Up").                                   *)
(***************************************************************************)
EXTENDS Lists

CONSTANTS
    Texts,       \* chord texts in alphabetical order, each as what it parses to
    NoChord,     \* what parse_chord makes of a bad text
    Keysym,      \* key name |-> keysym
    NoKeysym,    \* keysym of a name xkb does not know
    Action,      \* actions that parse
    NoAction,    \* what parse_action makes of any other string
    Defaults,    \* entries of Config::with_defaults
    MaxConfig    \* bound: entries of a user's config

Entry == [text : DOMAIN Texts, action : Action \union {NoAction}]

ASSUME TextsAssumption ==
    /\ Len(Texts) \in Nat /\ DOMAIN Texts = 1..Len(Texts)
    /\ \A i \in DOMAIN Texts : Texts[i] = NoChord \/ Texts[i].name \in DOMAIN Keysym
ASSUME BoundsAssumption == MaxConfig \in Nat

VARIABLES
    declared,  \* Config.keybinds, in the order keybind_table walks it: by text
    plugged,   \* entries the plugins registered, in load order
    stage,     \* where main is
    todo,      \* what is left of the sequence being walked
    table,     \* KeybindTable.binds
    resolved   \* ResolvedBinds.by_chord, as a set of pairs <<chord, action>>

vars == <<declared, plugged, stage, todo, table, resolved>>

Valid(e) == Texts[e.text] # NoChord /\ e.action # NoAction

\* What a key press looks up an entry by; none for an unknown key name.
PressedAs(e) ==
    [mods |-> Texts[e.text].mods, sym |-> Keysym[Texts[e.text].name]]

\* The built-in entries are valid and for different keys, which xkb knows.
ASSUME DefaultsAssumption ==
    /\ Defaults \in Seq(Entry) /\ Defaults # <<>>
    /\ \A i \in DOMAIN Defaults :
          Valid(Defaults[i]) /\ PressedAs(Defaults[i]).sym # NoKeysym
    /\ \A i, j \in DOMAIN Defaults :
          PressedAs(Defaults[i]) = PressedAs(Defaults[j]) => i = j

\* A list as the BTreeMap of a parsed config gives it: by text, each text once.
\* Only the defaults of a config that was not parsed come in another order.
ByText(es) == \A i, j \in DOMAIN es : i < j => es[i].text < es[j].text

Bind(e) == [chord |-> Texts[e.text], action |-> e.action]

\* Mutation: an entry for a known chord keeps the place of the old one.
InsertedInPlace(tb, e) ==
    IF \E i \in DOMAIN tb : tb[i].chord = Texts[e.text]
    THEN [i \in DOMAIN tb |-> IF tb[i].chord = Texts[e.text] THEN Bind(e) ELSE tb[i]]
    ELSE Append(tb, Bind(e))

\* KeybindTable::insert
Inserted(tb, e) ==
    Append(Retain(tb, {b \in ToSet(tb) : b.chord # Texts[e.text]}), Bind(e))

\* HashMap::insert under the chord with its key resolved.
Resolve(rs, b) ==
    LET chord == [mods |-> b.chord.mods, sym |-> Keysym[b.chord.name]]
    IN  {r \in rs : r.chord # chord} \union {[chord |-> chord, action |-> b.action]}

-----------------------------------------------------------------------------
Init ==
    /\ declared = <<>>
    /\ plugged \in Seq(Entry)
    /\ stage = "load"
    /\ todo = <<>>
    /\ table = <<>>
    /\ resolved = {}

\* load_config, or the defaults when it fails.
LoadConfig ==
    /\ stage = "load"
    /\ declared' \in Seq(Entry)
    /\ ByText(declared') \/ declared' = Defaults
    /\ stage' = "config"
    /\ todo' = declared'
    /\ UNCHANGED <<plugged, table, resolved>>

\* keybind_table, one entry: the first bad one ends the program.
InsertConfig ==
    /\ stage \in {"config", "defaults"}
    /\ todo # <<>>
    /\ todo' = Tail(todo)
    /\ IF Valid(Head(todo))
       THEN table' = Inserted(table, Head(todo)) /\ UNCHANGED stage
       ELSE stage' = "failed" /\ UNCHANGED table
    /\ UNCHANGED <<declared, plugged, resolved>>

\* Mutation: a config without entries is taken as it is.
ConfigDoneEmpty ==
    /\ stage \in {"config", "defaults"}
    /\ todo = <<>>
    /\ stage' = "plugins"
    /\ todo' = plugged
    /\ UNCHANGED <<declared, plugged, table, resolved>>

\* The config had entries, or keybind_table is called on the defaults.
ConfigDone ==
    /\ stage \in {"config", "defaults"}
    /\ todo = <<>>
    /\ IF table # <<>> THEN stage' = "plugins" /\ todo' = plugged
                       ELSE stage' = "defaults" /\ todo' = Defaults
    /\ UNCHANGED <<declared, plugged, table, resolved>>

\* One plugin entry: a bad one is skipped with a warning.
InsertPlugin ==
    /\ stage = "plugins"
    /\ todo # <<>>
    /\ todo' = Tail(todo)
    /\ table' = IF Valid(Head(todo)) THEN Inserted(table, Head(todo)) ELSE table
    /\ UNCHANGED <<declared, plugged, stage, resolved>>

PluginsDone ==
    /\ stage = "plugins"
    /\ todo = <<>>
    /\ stage' = "resolve"
    /\ todo' = table
    /\ UNCHANGED <<declared, plugged, table, resolved>>

\* ResolvedBinds::build, one chord: an unknown key name is skipped.
ResolveOne ==
    /\ stage = "resolve"
    /\ todo # <<>>
    /\ todo' = Tail(todo)
    /\ resolved' = IF Keysym[Head(todo).chord.name] = NoKeysym THEN resolved
                   ELSE Resolve(resolved, Head(todo))
    /\ UNCHANGED <<declared, plugged, stage, table>>

Started ==
    /\ stage = "resolve"
    /\ todo = <<>>
    /\ stage' = "running"
    /\ UNCHANGED <<declared, plugged, todo, table, resolved>>

Next ==
    \/ LoadConfig
    \/ InsertConfig
    \/ ConfigDone
    \/ InsertPlugin
    \/ PluginsDone
    \/ ResolveOne
    \/ Started

Spec == Init /\ [][Next]_vars
-----------------------------------------------------------------------------
(* Properties *)

\* Every chord some known entry of the list names, bound to the last entry that
\* names it, in whatever spelling or alias; and no other chord.
Bindings(list) ==
    LET known == {i \in DOMAIN list :
                     Valid(list[i]) /\ PressedAs(list[i]).sym # NoKeysym}
        last == {i \in known : \A j \in known :
                    j > i => PressedAs(list[j]) # PressedAs(list[i])}
    IN  {[chord |-> PressedAs(list[i]), action |-> list[i].action] : i \in last}

\* What the keybinds start from.
Source == IF declared = <<>> THEN Defaults ELSE declared

\* In the end the last entry for a chord has it, of those of the config in the order
\* of their texts, whichever was written last (module ConfigFile has what comes of
\* that), and of those of the plugins after them in the order of registration.
LastEntryWins ==
    stage = "running" =>
        resolved = Bindings(Source \o plugged)
=============================================================================
