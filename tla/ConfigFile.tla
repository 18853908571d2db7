----------------------------- MODULE ConfigFile -----------------------------
(***************************************************************************)
(* How Katnip comes by its configuration (load_config in main.rs,          *)
(* Config::load and parse in katnip-config): a first start writes the      *)
(* default file and reads it back, while another instance may be at its    *)
(* own first start; what cannot be read gives way to the defaults.         *)
(*                                                                         *)
(* A file is what is in it: the lines of [keybinds] in their order,        *)
(* whether its other settings are the built-in ones, and whether it has an *)
(* [env].                                                                  *)
(***************************************************************************)
EXTENDS KeyTable

VARIABLES
    file,    \* the file at default_config_path
    load,    \* where load_config is
    other,   \* where the load_config of another instance is
    general, \* whose [general] and [bar] are in use
    env      \* whose [env] is set for autostart programs

fileVars == <<file, load, other, general, env>>

None == [kind |-> "none", entries |-> <<>>]
Empty == [kind |-> "empty", entries |-> <<>>]
Bad == [kind |-> "bad", entries |-> <<>>]
Written == [kind |-> "default", entries |-> Defaults]

\* The default file, cut short after k lines of its [keybinds].
Cut(k) == [kind |-> "cut", entries |-> SubSeq(Defaults, 1, k)]

\* What a user may have written; TOML refuses a text written twice.
UserFiles ==
    LET oneEach(es) == \A i, j \in DOMAIN es : es[i].text = es[j].text => i = j
        some == {es \in UNION {[1..n -> Entry] : n \in 0..MaxConfig} : oneEach(es)}
    IN  {[kind |-> "user", entries |-> es] : es \in some}

\* BTreeMap: sorted by text, whatever the order of the lines.
Sorted(entries) ==
    LET texts == Retain([i \in DOMAIN Texts |-> i], {e.text : e \in entries})
    IN  [k \in DOMAIN texts |-> CHOOSE e \in entries : e.text = texts[k]]

FileInit ==
    /\ file \in UserFiles \union {None, Empty, Bad} \union {Cut(k) : k \in 0..Len(Defaults) - 1}
    /\ load = "start"
    /\ other = "start"
    /\ general = "default"
    /\ env = "default"

-----------------------------------------------------------------------------
(* load_config: afterwards declared is set, and load is "done" *)

\* The file is there or not, for now.
LookForFile ==
    /\ load = "start"
    /\ load' = IF file = None THEN "missing" ELSE "ready"
    /\ UNCHANGED <<file, other, general, env, declared>>

\* fs::write opens the file, and cuts it if it has come to be meanwhile.
CreateFile ==
    /\ load = "missing"
    /\ file' = Empty
    /\ load' = "created"
    /\ UNCHANGED <<other, general, env, declared>>

WriteFile ==
    /\ load = "created"
    /\ file' = Written
    /\ load' = "ready"
    /\ UNCHANGED <<other, general, env, declared>>

\* Every error of load_config ends here: the built-in defaults.
UseDefaults ==
    /\ load' = "done"
    /\ declared' = Defaults
    /\ UNCHANGED <<general, env>>

\* The directory or the file cannot be made.
CreateFails ==
    /\ load = "missing"
    /\ UseDefaults
    /\ UNCHANGED <<file, other>>

\* The file system has no room for all of it.
WriteFails ==
    /\ load = "created"
    /\ UseDefaults
    /\ \E k \in 0..Len(Defaults) - 1 : file' \in {Cut(k), Bad, Empty}
    /\ UNCHANGED other

\* Config::load: a file that is gone again or does not parse or validate gives
\* the defaults as a whole.  Of one that parses, what [general] and [bar] leave
\* out is the default, what [env] and [keybinds] leave out is not there.
ReadFile ==
    /\ load = "ready"
    /\ IF file \in {None, Bad}
       THEN UseDefaults
       ELSE /\ load' = "done"
            /\ declared' = Sorted(ToSet(file.entries))
            /\ general' = IF file.kind = "user" THEN "own" ELSE "default"
            /\ env' = IF file.kind = "user" THEN "own"
                      ELSE IF file = Empty THEN "none" ELSE "default"
    /\ UNCHANGED <<file, other>>

\* The other instance, whose steps matter until this one has read the file.
OtherInstance ==
    /\ load # "done"
    /\ \/ other = "start" /\ file = None /\ other' = "missing" /\ UNCHANGED file
       \/ other = "missing" /\ other' = "created" /\ file' = Empty
       \/ other = "created" /\ other' = "ready" /\ file' = Written
    /\ UNCHANGED <<load, general, env, declared>>

FileNext ==
    \/ LookForFile
    \/ CreateFile
    \/ WriteFile
    \/ CreateFails
    \/ WriteFails
    \/ ReadFile
    \/ OtherInstance
-----------------------------------------------------------------------------
(* Properties *)

\* However two first starts interleave, and whether or not the default file
\* could be made or was left empty by a crash between its creation and its
\* writing, Katnip starts with the built-in keybinds below the plugins' and
\* with the built-in settings: "a missing file yields the default config"
\* (katnip-config/src/lib.rs:84).
FirstStartsAlike ==
    stage = "running" /\ file \in {None, Empty, Written} =>
        /\ resolved = Bindings(Defaults \o plugged)
        /\ general = "default"

(* What comments and tests say and the code does not do *)

\* "empty_file_yields_defaults" (katnip-config/src/lib.rs:381): an empty file,
\* which a first start in progress is as well, sets the default environment.
EmptyMeansDefaults == load = "done" => env # "none"

\* "Raw keybind entries in declaration order" (katnip-config/src/lib.rs:23): of the
\* lines of a user that name one key, the one written last has it, unless a plugin
\* takes it.
DeclaredOrderWins ==
    stage = "running" /\ file.kind = "user" /\ file.entries # <<>> =>
        resolved = Bindings(file.entries \o plugged)

\* "creating a documented default file on first run" (main.rs:155): what a first
\* run left behind starts Katnip as that run did, also when the disk was full.
LeftoverStartsAlike ==
    stage = "running" /\ file.kind = "cut" =>
        resolved = Bindings(Defaults \o plugged)
=============================================================================
