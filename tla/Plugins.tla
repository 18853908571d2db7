------------------------------ MODULE Plugins ------------------------------
(***************************************************************************)
(* The plugin host (katnip-plugins) in the startup of KeyTable: once the   *)
(* config is loaded (ConfigFile) main loads every script of the plugin     *)
(* directory, then every native plugin, and hands the entries they         *)
(* registered to the keybind table; later each new window fires the        *)
(* on_window_open hook of the scripts.                                     *)
(*                                                                         *)
(* A file is what loading it does: the entries it registers before it ends *)
(* or fails, whether it loads, and what its hook does.  A file that cannot *)
(* be read or compiled, and a native one refused before its init, fails    *)
(* with no entry.                                                          *)
(***************************************************************************)
EXTENDS ConfigFile

CONSTANTS
    ScriptFile,  \* the .rhai files a user may have
    NativeFile,  \* the .so files a user may have
    MaxScripts,  \* bound: scripts in the directory
    MaxNatives,  \* bound: native plugins in the directory
    MaxOpens     \* bound: windows opened

ASSUME FilesAssumption ==
    /\ MaxScripts \in Nat /\ MaxNatives \in Nat /\ MaxOpens \in Nat
    /\ \A f \in ScriptFile :
           /\ f.binds \in Seq(Entry)
           /\ f.loads \in BOOLEAN
           /\ f.hook \in {"none", "returns", "fails"}
    /\ \A f \in NativeFile : f.binds \in Seq(Entry) /\ f.loads \in BOOLEAN

VARIABLES
    scripts,   \* the .rhai files of the directory, sorted by path
    natives,   \* its .so files, sorted by path
    host,      \* ScriptHost.plugins
    reported,  \* files that have an entry in one of the error lists
    evaluated, \* host's plugins: how often each one's top level has run
    called,    \* host's plugins: how often each one's hook was called
    opened     \* windows opened so far

pluginVars == <<scripts, natives, host, reported, evaluated, called, opened>>
allVars == <<vars, fileVars, pluginVars>>

\* A file gets a report if it fails or an entry of it is invalid.
Faulty(f) == ~f.loads \/ \E i \in DOMAIN f.binds : ~Valid(f.binds[i])

PInit ==
    /\ FileInit
    /\ declared = <<>>
    /\ scripts \in UNION {[1..n -> ScriptFile] : n \in 0..MaxScripts}
    /\ natives \in UNION {[1..n -> NativeFile] : n \in 0..MaxNatives}
    /\ plugged = <<>>
    /\ stage = "load"
    /\ todo = <<>>
    /\ table = <<>>
    /\ resolved = {}
    /\ host = <<>>
    /\ reported = <<>>
    /\ evaluated = <<>>
    /\ called = <<>>
    /\ opened = 0

\* Loading the config; then the scripts are next.
LoadStep ==
    /\ stage = "load"
    /\ FileNext
    /\ IF load' = "done"
       THEN stage' = "scripts" /\ todo' = scripts
       ELSE UNCHANGED <<stage, todo>>
    /\ UNCHANGED <<plugged, table, resolved, pluginVars>>

Report(f) == reported' = IF Faulty(f) THEN Append(reported, f) ELSE reported

\* Mutation: the scripts share one list, what a failing one registered stays.
LoadScriptShared ==
    /\ stage = "scripts"
    /\ todo # <<>>
    /\ LET f == Head(todo)
       IN  /\ Report(f)
           /\ plugged' = plugged \o f.binds
           /\ IF f.loads
              THEN /\ host' = Append(host, f)
                   /\ evaluated' = Append(evaluated, 1)
                   /\ called' = Append(called, 0)
              ELSE UNCHANGED <<host, evaluated, called>>
    /\ todo' = Tail(todo)
    /\ UNCHANGED <<declared, stage, table, resolved, scripts, natives, opened>>

\* ScriptHost::load for one file, and load_scripts' report: the entries of a
\* script are only aggregated once it has run to its end.
LoadScript ==
    /\ stage = "scripts"
    /\ todo # <<>>
    /\ LET f == Head(todo)
       IN  /\ Report(f)
           /\ IF f.loads
              THEN /\ host' = Append(host, f)
                   /\ evaluated' = Append(evaluated, 1)
                   /\ called' = Append(called, 0)
                   /\ plugged' = plugged \o f.binds
              ELSE UNCHANGED <<host, evaluated, called, plugged>>
    /\ todo' = Tail(todo)
    /\ UNCHANGED <<declared, stage, table, resolved, scripts, natives, opened>>

ScriptsDone ==
    /\ stage = "scripts"
    /\ todo = <<>>
    /\ stage' = "natives"
    /\ todo' = natives
    /\ UNCHANGED <<declared, plugged, table, resolved, pluginVars>>

\* native::load for one file: its entries come after those of the scripts.
LoadNative ==
    /\ stage = "natives"
    /\ todo # <<>>
    /\ LET f == Head(todo)
       IN  /\ Report(f)
           /\ plugged' = IF f.loads THEN plugged \o f.binds ELSE plugged
    /\ todo' = Tail(todo)
    /\ UNCHANGED <<declared, stage, table, resolved,
                   scripts, natives, host, evaluated, called, opened>>

NativesDone ==
    /\ stage = "natives"
    /\ todo = <<>>
    /\ stage' = "config"
    /\ todo' = declared
    /\ UNCHANGED <<declared, plugged, table, resolved, pluginVars>>

\* add_tile: a window opens, and fire walks the plugins that have the hook.
OpenWindow ==
    /\ stage = "running"
    /\ opened < MaxOpens
    /\ opened' = opened + 1
    /\ stage' = "hooks"
    /\ todo' = Retain([i \in DOMAIN host |-> i], {i \in DOMAIN host : host[i].hook # "none"})
    /\ UNCHANGED <<declared, plugged, table, resolved,
                   scripts, natives, host, reported, evaluated, called>>

\* Mutation: the first hook that fails ends the walk.
FireHookOrStop ==
    /\ stage = "hooks"
    /\ todo # <<>>
    /\ LET i == Head(todo)
       IN  /\ evaluated' = [evaluated EXCEPT ![i] = @ + 1]
           /\ called' = [called EXCEPT ![i] = @ + 1]
           /\ todo' = IF host[i].hook = "fails" THEN <<>> ELSE Tail(todo)
    /\ UNCHANGED <<declared, plugged, stage, table, resolved,
                   scripts, natives, host, reported, opened>>

\* One turn of fire: call_fn evaluates the script again before it calls the
\* hook, so that its entries are registered once more, in a list nobody reads
\* any longer; a hook that fails is logged.
FireHook ==
    /\ stage = "hooks"
    /\ todo # <<>>
    /\ LET i == Head(todo)
       IN  /\ evaluated' = [evaluated EXCEPT ![i] = @ + 1]
           /\ called' = [called EXCEPT ![i] = @ + 1]
    /\ todo' = Tail(todo)
    /\ UNCHANGED <<declared, plugged, stage, table, resolved,
                   scripts, natives, host, reported, opened>>

HooksDone ==
    /\ stage = "hooks"
    /\ todo = <<>>
    /\ stage' = "running"
    /\ UNCHANGED <<declared, plugged, todo, table, resolved, pluginVars>>

\* Next but for its LoadConfig, which the steps of ConfigFile are.
BuildTable ==
    /\ InsertConfig \/ ConfigDone \/ InsertPlugin \/ PluginsDone \/ ResolveOne \/ Started
    /\ UNCHANGED pluginVars

PNext ==
    \/ LoadStep
    \/ /\ \/ LoadScript
          \/ ScriptsDone
          \/ LoadNative
          \/ NativesDone
          \/ BuildTable
          \/ OpenWindow
          \/ FireHook
          \/ HooksDone
       /\ UNCHANGED fileVars

PSpec == PInit /\ [][PNext]_allVars
-----------------------------------------------------------------------------
(* Properties *)

Loading == stage \in {"scripts", "natives"}

\* The files that load, and those that have something to report.
Sound == {f \in ScriptFile \union NativeFile : f.loads}
Reportable == {f \in ScriptFile \union NativeFile : Faulty(f)}

\* The entries of some files, one after the other.
Entries(files) == FlattenSeq([i \in DOMAIN files |-> files[i].binds])

Startup == INSTANCE KeyTable WITH
    plugged <- Entries(Retain(scripts, Sound) \o Retain(natives, Sound)),
    stage <- IF Loading THEN "config" ELSE IF stage = "hooks" THEN "running" ELSE stage,
    todo <- IF Loading THEN declared ELSE IF stage = "hooks" THEN <<>> ELSE todo

\* With plugins Katnip starts exactly as it would with the entries of the files
\* that load, written one after the other: a file that fails leaves no trace
\* in the keybinds, whatever it registered before it failed, and no hook ever
\* changes them.
ImplementsKeyTable == Startup!Spec

\* "A failing script is reported and skipped" (katnip-plugins/src/lib.rs:5):
\* once the files are loaded every faulty one has its report, and the scripts
\* that load are all in the host, those after a failing one too.
FailuresReported ==
    stage # "load" /\ ~Loading =>
        /\ reported = Retain(scripts \o natives, Reportable)
        /\ host = Retain(scripts, Sound)

\* Every hook is called once for every window, a failing one as well as those
\* of the plugins loaded after it.
HooksReachAll ==
    stage = "running" =>
        \A i \in DOMAIN host : called[i] = IF host[i].hook = "none" THEN 0 ELSE opened

\* A plugin that fails, while it is loaded or in its hook, takes nothing from the
\* other plugins.
FailuresIsolated == FailuresReported /\ HooksReachAll

(* What comments of the code say and the code does not do *)

\* "Each .rhai file runs once" (katnip-plugins/src/script.rs:3).
RunsOnce == \A i \in DOMAIN evaluated : evaluated[i] = 1
=============================================================================
