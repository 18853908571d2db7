# A TLA+ model of Katnip

Katnip (`src/`) is a Wayland compositor in Rust on top of the smithay library:
a tiling layout, ten workspaces, keybinds, a bar, plugins and a control socket,
with two backends: *nested* (a window of another desktop, through winit) and
*DRM* (the hardware, through udev, libinput and KMS). This directory holds TLA+
modules of its parts, TLC configurations that check them, and TLAPS proofs.

Paths such as `state.rs:604` are under `src/crates/katnip/src/` unless they
name another crate.

## 1. The system

Everything runs on one thread, in a calloop event loop: a *source* becomes
ready (a client's socket, input, a vblank, a timer, the control socket, udev),
its handler runs to its end, then the idle callback runs
(`Space::refresh`, popups, flush; `main.rs:144`, `hardware_mode.rs:373`).
Interleaving is therefore that of whole handlers, with clients, kernel and user
acting in between. That is what makes it hard: between any two handlers a
client may die, ack an old configure, or commit a size nobody asked for; a
cable may move in the middle of a scan; the VT may be switched with a frame
in flight.

| Part | State | Operations | Hard behaviour | Correct when |
|---|---|---|---|---|
| Desktop (`state.rs`) | tile list and remembered focus of each workspace, active workspace, space (what is mapped, in which order), keyboard focus | new toplevel, commit, click, switch, move, toggle floating, cleanup, host resize | clients die at any time, the cleanup comes later; three places remember focus | no window is lost or listed twice; what is tracked, focused and mapped agree |
| Layout (`katnip-core/src/layout.rs`) | none: output size, gaps, count to rectangles | recursive halving | rounding, gaps, no room | apart, inside, one rectangle per window |
| Configure handshake (`state.rs`, `handlers/`) | pending, sent and acked state of each toplevel (in smithay), last size of each surface | configure, ack, commit, decoration requests | configures in flight; clients with a mind of their own | sizes settle, focus is told, the exchange ends when the clients let it |
| DRM outputs (`hardware_mode.rs`) | connector to CRTC, CRTC to surface, outputs in the space, open GPUs | udev events, scan, create, destroy, reopen | cables move during a scan, creation fails half-way, CRTCs run out | the books agree; what is lit follows the cables, as far as the CRTCs go |
| DRM repaint (`hardware_mode.rs`) | timers, frames in the compositor, vblanks to come | render, vblank, kick, pause, resume | the chain continues itself; nothing supervises it | never stalls, never doubles |
| Keybinds (`katnip-config`, `katnip-core/src/keybinds.rs`, `binds.rs`, `main.rs`) | entries, chord table, keysym table | insert, resolve, fall back, abort | three tables with three notions of "the same chord"; the config's entries are sorted | the last entry inserted wins; bad ones harm nobody else |
| Keyboard input (`input.rs`) | keys down, focus, what each client saw | press, release | the action of a press moves the focus before its release | no stuck key, bound keys stay with Katnip |
| Pointer input (`input.rs`) | location, buttons, grab | motion, press, release, start of grabs | outputs change under the pointer; several buttons, SUPER held or not | on an output when the outputs allow it; drags start when they should |
| Grabs (`grabs/`) | start data, resize state of a surface | drag, end, commit during a resize | race of acks and the end of the drag | never reached, see below |
| Control socket (`ipc.rs`), `katnipc` | backlog, the connection served | accept, read a line, execute, answer | blocks the event loop; client and server time out separately | success means executed; the loop resumes |
| Socket discovery (`katnip-core/src/ipc.rs`, `main.rs`) | display names held, socket files in the runtime directory | take a name, clear, bind, remove, find | instances that crash, start and stop around each other; calls of `katnipc` that timed out and run later | each running instance keeps its socket, `katnipc` never picks the wrong one |
| Configuration file (`katnip-config`, `main.rs`) | the file, the config in use | look, create, write, read, fall back | two first starts at once, a full disk, a crash in between | first starts end alike |
| Plugins (`katnip-plugins`, `katnip-api`) | scripts in the host, registered entries, error lists | load scripts, load libraries, aggregate, fire hooks | a file that fails after it registered something; a hook evaluates its script again | one bad plugin harms nobody else |
| Startup (`main.rs`) | - | config, plugins, binds, backend, display name, socket, autostart | order | |
| Bar and text (`bar.rs`, `text.rs`), drawing (`output.rs`) | textures | draw | - | |

How they interact: protocol handlers and input call methods of the desktop; the
desktop calls the layout, sends configures and maps windows into the space; the
space is read by pointer focus (`element_under`), by drawing and by the clamp of
the pointer, and written by the outputs; input and arranges kick the repaint
chain; keybinds and the control socket share `execute_action`; the idle callback
drops dead windows from the space behind the desktop's back.

## 2. Modules

One module per component, an MC module where TLC needs definitions for its
constants, and the proofs in modules of their own (section 6). Bounds are
constants and named in the module that has them.

| Module | Models | Composes with |
|---|---|---|
| `Lists` | `Vec::retain` by explicit positions, the sum of a list of widths | used by `Desktop`, `Configure`, `Outputs`, `KeyTable`, `ConfigFile`, `Plugins` |
| `Desktop` | `state.rs` in both backends, one action per handler | takes the layout as the constant `RectCounts` (how many rectangles come back for n windows at a host size), whose assumption `r[n] <= n` is part of `AllPlaced` of `Dwindle`; implements `WorkspaceMap` |
| `WorkspaceMap` | abstract: each window is on one workspace, and moves only from the shown one | refined by `Desktop` |
| `Dwindle` | `dwindle`, `shrink` and the usable area; a stack of calls still to be made in place of the recursion | gives `Desktop` its assumption |
| `Configure` | the handshake with the clients of all workspaces in both backends, and the end of dead windows | `Desktop` has the rest of the same handlers |
| `Outputs` | connector hotplug | gives `Seat` its output rectangles, `Repaint` its `lit` |
| `Repaint` | the chain of one CRTC | |
| `KeyTable` | startup, from texts to the table by keysym | gives `Keyboard` its chords; refined by `Plugins` |
| `ConfigFile` | `load_config`, with another instance at its own first start | in place of the abstract `LoadConfig` of `KeyTable` |
| `Plugins` | script host, native plugins, window hooks | extends `ConfigFile` and `KeyTable` to the whole startup, and implements `KeyTable` |
| `Keyboard` | key events and what the clients see of them | focus moves as in `Desktop` |
| `Pointer` | motion, buttons, the start of grabs (which never succeeds) | |
| `Seat` | `process_input_event`: `Keyboard` and an instance of `Pointer` | a press moves the keyboard's focus; the SUPER of a drag is the key that is down; that no grab ever exists is proved here, so `Desktop` may leave grabs out |
| `Ipc` | control socket and any number of `katnipc`, byte by byte | `execute_action` as in `Desktop` |
| `Discovery` | several instances, their names, socket files and crashes; calls and retries of `katnipc` | a connection of `Ipc` is three steps here: accepted, read, executed |

Correspondence with the code, in short (the comments of each definition name
the function; `PROJECT.json` "map" has the lines):

* `Desktop`: `tiles`, `focused`, `active` are `workspaces[i].tiles`,
  `workspaces[i].focused` and `active_workspace`; `stack` is the space's element
  list, bottom to top; `keyboard` is the seat's focus; `life` stands for
  `Window::alive()`. `arrange_force` is the operator `Arranged`: every caller in
  the code makes the call as part of its handler, and so does the action.
  Positions are left out; floating positions decide nothing the properties see.
  A press over `w` is allowed for every mapped `w`, which covers every position.
* `Dwindle`: `pending` is the call stack of `split_recursive`, `out` its output
  vector. Arithmetic is unbounded; the code multiplies in `i64`, and the border
  is assumed to stay where its double still fits an `i32`.
* `Configure` (`HandshakeSpec`, over `handshake`): a client record has the pending
  state, the list of configures sent and not acked, the acked state, whether the
  initial configure and the decoration mode have been sent, the size committed
  last (`geo`) and its entry in `last_sizes` (`last`: `None` is no entry, `Zero`
  the entry of a surface without a buffer; a first commit without one makes an
  entry and, on the active workspace, a layout). `Commit(w, k, g)` acks the k-th
  configure in flight (or none) and commits at the size g, or without a buffer:
  clients may skip configures and unmap themselves, as the protocol allows.
  `RequestDecoration` is all three handlers of `XdgDecorationHandler`;
  `CleanupRemoved`, `MoveFocused`, `SwitchWorkspace` (with the fallback to the
  last tile) and `Click(None)` are what `state.rs` sends from there. The size of
  a tile is the size of the host and the number of tiled windows, which is what
  it depends on besides the place in the list.
* `Outputs`: `known` and `surfaces` are the maps of `DeviceCtx`; `space` lists
  the outputs mapped. A scan first asks the kernel for each connector (`ask`),
  then looks at each connected one (`todo`), then destroys what it has not seen:
  cables move between any two answers and any two of these steps. `NodeKinds`
  says whether the primary node is the card node (what `udev` names) or the
  render node (what `select_primary_gpu` prefers).
* `Repaint` (`RepaintSpec`, over `chain`): `timers` counts the calloop timers that will call
  `render_surface`; `pending` and `queued` are the two frames a `DrmCompositor`
  may hold; `flips` are vblank events the kernel owes. `dot` says that the cursor,
  which is drawn at its global coordinates, is within what this output shows: its
  element is new in each frame, so such a frame is never empty. `damage` says that
  anything else has changed. A frame with neither is retried, not queued.
* `KeyTable`: a text is an element of an ordered list with the chord it parses
  to; `todo` is the sequence that `main` walks at each `stage`. An empty table
  of a config leads to stage `defaults`, the second call of `keybind_table`.
* `ConfigFile`: a file is what parsing it gives, for a user's file the lines of
  its `[keybinds]` in their order, which `ReadFile` sorts by text as the
  `BTreeMap` of the code does; `load` is where `load_config` is, `other` where that
  of another instance is. Looking, creating (which truncates), writing and
  reading are steps of their own, as in the file system.
* `Plugins`: a plugin file is what loading it does: the entries it registers
  before it ends or fails, whether it loads, what its hook does. `host` is
  `ScriptHost.plugins`; `reported` stands for the error lists; `evaluated` and
  `called` count what `call_fn` does, which runs the top level of a script again
  before the hook.
* `Keyboard`: `view` is what a client must conclude from the `wl_keyboard`
  events it was sent.
* `Pointer`: pixels; a motion of a fraction of a pixel behaves as one of none
  or of one.
* `Ipc`: a line is its length; which of its prefixes are commands is a constant.
  Time is counted in ticks, and only while the handler waits for a byte. The
  compositor ends between two connections (`Stop`) or dies at any point, also in
  the middle of one (`Crash`); what a client reads is an answer, a reset (bytes
  were left unread) or the end of the stream, which `katnipc` takes for success.
* `Discovery`: `proc` is where an instance is between taking its display name
  and its end, `name` the name whose lock it holds (smithay's listener holds it
  until the event loop is dropped, after the cleanup), `files` whose socket each
  path is. A client is a script that calls `katnipc` again when it fails; each
  call is a try, with `KATNIP_SOCKET` or without.

External code, modelled from how `src/` uses it: smithay's `Space`
(`map_element` raises, `raise_element(.., true)` sets Activated in pending
states, `refresh` drops the dead), its toplevels (`send_pending_configure` is
silent when nothing changed since the last one sent), its `DrmCompositor` (one
frame on its way and one behind it), its pointer (the first press starts a click
grab under its serial), its keyboard (enter and leave on focus changes; whether
the keys reported on enter include intercepted ones is left open), its
`ListeningSocketSource::new_auto` (the first display name whose lock is free),
the kernel's sockets, files and vblanks, and the script engine (a run that
fails may have called any registered function before).

## 3. Runs

`tlc -workers 2 -config X.cfg M` for each run of `PROJECT.json`; one run per
component or composition, and three for what the code does against its own
description.

| Run | Bounds | Shows |
|---|---|---|
| `desktop_safety` | 3 windows, 2 workspaces, 3 host sizes | tiles are never lost or doubled and implement `WorkspaceMap`; active windows are shown when there is room; floats on top; only moves leave a window of a hidden workspace on screen; cleanups take nothing from survivors; a switch repairs focus, keyboard and screen; only a new window or a dead focus parts the keyboard from the focus; keys go to a window out of sight only by a focus from another workspace |
| `dwindle_safety` | up to 6 windows, outputs up to 13x13, inner gaps 0 to 3, two of each other metric | gaps, containment, disjointness, counts |
| `configure` | 2 windows, 2 workspaces, 2 host sizes and one size of a client's own, 2 changes (clicks, toggles, moves, switches, resizes), two configures in flight before a client has to answer, both backends | focus changes from rest tell every window; sizes converge; everybody gets a first configure; configures come to an end, unless a client asks for ever; dead windows are forgotten, as tiles, on screen and as a focus (nested backend) |
| `seat_input` | 3 keys, 2 windows, one bind, 2 buttons, 4 button events, 5 arrangements of outputs up to 4 pixels wide, steps of 2 pixels | no stuck keys, whoever moves the focus; on even outputs a motion ends on one |
| `outputs` | 2 connectors, one that can use 3 CRTCs and one that can use 2 of them, 4 moves of cables and GPU, both kinds of primary node, creation that fails | the books agree; nothing is switched off or left dark but for a cable, the GPU, a failure or want of a CRTC; what is lit follows the cables for the connector that is never short of CRTCs |
| `repaint_chain` | 3 kicks, 6 upsets (hotplug, VT switch, failures) | the chain never stalls, what changes is flipped, nothing forks |
| `keytable_order` | up to 2 lines in any order over 6 texts, the default file, an empty, a cut and an invalid one and none; up to 2 scripts of 4 kinds, 1 native plugin of 2; 2 windows | the last entry for a chord wins, by the order of texts, then scripts, then natives; first starts end alike; failing plugins leave no trace, are reported and stop no other; the startup with its files implements `KeyTable` |
| `ipc_exit` | 2 clients, lines of 2 and 4 bytes, cap 3, timeout 2, an end or a crash at any step | success means that the whole line ran, once, or that the compositor died on it and ran nothing; the hold is bounded; the loop resumes |
| `discovery` | 3 instances, 2 display names, 1 client with 3 tries | a running instance keeps its socket; only crashes leave one; `katnipc` never guesses; tries run in order and at most once; success means executed, or a crash |
| `desktop_drm_hidden` (violation) | 2 windows, DRM backend | DRM mode "runs identically" (`hardware_mode.rs:8`), but maps no window |
| `keyboard_chords` (violation) | 5 keys, 2 windows, 3 binds | the README's SHIFT chords never fire |
| `seat_drag` (violation) | as `seat_input` | SUPER and a button over a window start no drag, against the README and `input.rs:131,137` |

Why the bounds are enough. The desktop's handlers look at one window (the
focused, clicked or dead one), its workspace and one other; three windows give
lists with something before and after the one concerned; two workspaces are an
active and a hidden one (the theorems of section 6 are for any number). The
three host sizes are: room for all, for none, for all but one. In `Dwindle`, 6
windows are two levels of uneven splits, and 13 pixels with gaps up to 3 reach
every mix of areas that vanish and that do not. `Configure` needs two clients
(a focus has an old and a new window; they are numbered in the order they come,
which halves the states and loses none), a workspace to move and switch to, two
configures in flight (one skipped, one not; `MaxInFlight` is the number from
which on only answers follow) and two changes (one while the other is on its way)
beside the unbounded commits, decoration requests and deaths. In `Seat`, the three
keys are SUPER, a bound one whose action moves the focus and one that is
forwarded; four button events are two presses with their releases, overlapping
or not. `Outputs` needs a left and a right output, one with a spare CRTC and one
that may find both its CRTCs in use; four moves are an unplug and a replug of
each. In `Repaint`
the frames in the compositor saturate at two, so three kicks overfill them and
six upsets are three full round trips. `KeyTable`'s texts are two spellings of a
chord, an alias of its key, another chord, an unknown key and nonsense; two
lines are two entries for one chord in either order, and those of the plugins
come behind them. `Ipc` has a line under and one
over the cap. `Discovery` has more instances than names, so that a name is taken
again after a clean end and after a crash while another is running, and three
tries are one that is late, one that succeeds and one between.

## 4. What the code does otherwise

Three runs above show, as findings, a behaviour that contradicts what the
repository says of itself: `desktop_drm_hidden`, `keyboard_chords` and
`seat_drag`. While modelling we met more. Each is stated at the end of its
module as a definition that quotes the line; TLC finds it violated when it is
checked in place of the properties of the configuration named (with the change
named). They have no configuration of their own. Where one is about the very
subject of a property that does hold, that property says what the code keeps
instead: `ConfiguresEnd` for `NoConfigureLoop`, `OnlyDroppedForCause` for
`PluggedStaysLit`, `DamageIsFlipped` for `RepaintsForever`, `LastEntryWins` for
`DeclaredOrderWins`, `SuccessMeansRun` for `WholeLinesOnly`.

| Definition | Start from | What is said | What happens |
|---|---|---|---|
| `HiddenWorkspacesUnmapped` | `Desktop_safety` | a moved window "disappears from view" (`state.rs:592`) | it stays mapped |
| `FocusOnOwnWorkspace` | `Desktop_safety` | a focused window "must belong to the active workspace" (`state.rs:371`) | a click on such a window focuses it |
| `KeyboardFollowsFocus` | `Desktop_safety` | a new window is focused (`state.rs:316`) | the keyboard stays where it was |
| `FocusRefilled` | `Desktop_safety` | the cleanup "refills active focus" (`state.rs:333`) | not after a click on a window already cleaned up |
| `AddressStable` | `Desktop_safety` | "stable per-window identity" (`state.rs:270`) | it is the slot's |
| `DeadForgotten` without `nested =>` | `Configure` | DRM mode shares everything else (`hardware_mode.rs:8`) | it forgets no dead window |
| `ExactlyCount` | `Dwindle` | "exactly `count` rects" (`layout.rs:62`) | fewer when there is no room |
| `NoConfigureLoop` | `Configure` | "Guarded so we do not configure-loop" (`state.rs:479`) | a client that draws at two sizes in turn and repeats its decoration request is told for ever that it is active and that it is not: each answer (`handlers/mod.rs:77`) carries the Activated state that `raise_element` (`state.rs:498`) left prepared, each commit has it corrected |
| `ArrivalActivates` | `Configure` | focus is "keyboard focus, Activated state" (`state.rs:371`), and an arrival takes the last tile (`state.rs:583`) | a window moved away before it acked, and followed there, is told last that it is inactive |
| `ActivationSettles` | `Configure` | Activated is pushed to every toplevel (`state.rs:386`) | not with a configure in flight |
| `FirstMapReasserts` | `Configure` | sizes are sent again after the first map (`state.rs:411`) | nothing is sent |
| `SizesConverge` | `Configure`, one window, the own size `<<small, 1>>`, `MaxChanges = 3` | "Ask the client to match its tile size" (`state.rs:478`) | it is left at another: told A, resized to B and back with B in flight, a client already drawn at B acks it, and no new size is seen |
| `ResizeKeepsActivation` | `Configure` | Activated is pushed to every toplevel (`state.rs:386`) | with a float about, a resize deactivates the focused window |
| `PluggedStaysLit` | `Outputs` | "disconnect anything no longer seen" (`hardware_mode.rs:496`) | disconnects what is plugged in, when CRTCs are short |
| `SideBySide` | `Outputs` | "side-by-side" (`hardware_mode.rs:593`) | overlapping after an output left the row |
| `ReplugReopens` | `Outputs` | "running headless until replug" (`hardware_mode.rs:352`) | the replugged GPU is not opened |
| `HotplugFollowed` without `card =>` | `Outputs` | hotplug (`hardware_mode.rs:426`) | no event is handled when the primary node is a render node, which `select_primary_gpu` prefers |
| `EmptyMeansDefaults` | `Plugins` | `empty_file_yields_defaults` (`katnip-config/src/lib.rs:381`) | an empty file sets no environment; the default one does |
| `LeftoverStartsAlike` | `Plugins` | a first run creates "a documented default file" (`main.rs:155`) | one cut short by a full disk is taken as it is by later starts |
| `RepaintsForever` | `Repaint` | "continuous repaint per output at its refresh rate" (`hardware_mode.rs:5`) | an output beside the one with the pointer, where the cursor is drawn out of sight, makes empty frames as soon as nothing else changes, and is looked at every 250 ms without a flip |
| `DeclaredOrderWins` | `Plugins` | keybinds are "in declaration order" (`katnip-config/src/lib.rs:23`) | in the order of their texts: of two spellings of one chord the one written last may lose |
| `RunsOnce` | `Plugins` | "each `.rhai` file runs once" (`katnip-plugins/src/script.rs:3`) | once more for each hook that is called |
| `BoundKeysConsumed` | `Keyboard_chords` | bound keys are "never forwarded" (`input.rs:54`) | their releases are |
| `MotionStaysOnOutputs` | `Seat` | the pointer is clamped to the union of the outputs (`input.rs:299`) | to their bounding box |
| `WholeLinesOnly` | `Ipc` | newline-terminated (`ipc.rs:3`) | prefixes are executed |
| `HoldOneTimeout` | `Ipc` | bounded by the timeout (`ipc.rs:69`) | by one for each byte |
| `FindsTheOnlyOne` | `Discovery` | `katnipc` "finds it automatically" (README) | not beside the socket of a crashed instance with another name |

What needs no model to see: the `on_workspace_switch` hook is never fired and
the window hook's title is always empty (`katnip-api/src/lib.rs:8`);
`parse_action` knows no `terminal` action; the answer on the control socket is
written without a timeout (`ipc.rs:83`); `border_width` has no upper bound where
it is doubled.

## 5. Fairness

* `Configure`: weak fairness of `CatchUp(w)`, clients that go on to answer what
  they are sent, whatever else they do in between; a client that never commits
  is owed nothing. Weak fairness of the cleanup at each redraw, which ends by
  asking for the next one (`output.rs:199`; the host delivers it as long as it
  shows the window), and of `Refresh`, the idle callback of every dispatch; none
  of the user. `DeadForgotten` and `DeadFocusForgotten` rest on the last two.
  `ConfiguresEnd` is about behaviours in which no client asks for its decoration
  mode or unmaps itself for ever: each such request has its answer.
* `Outputs`: weak fairness of the event loop as a whole, which dispatches what is
  ready and never returns in the middle of a scan. `HotplugFollowed` is about a
  GPU that stays (`stale` false), named by udev (`card`), and, for what is to be
  lit, connectors of which the last scan could make an output and that have more
  possible CRTCs than there are outputs (`NeverShort`).
* `Repaint`: timers expire, and the kernel delivers the vblank of a flip it
  accepted. `DamageIsFlipped` is about an output that stays lit, with the session
  active and rendering healthy from some time on: whatever changes on it is in a
  flip that follows.
* `Ipc`: weak fairness of the steps of the handler, and of the clock while it
  waits; none of the clients. `LoopResumes` holds for finitely many clients: the
  accept loop has no bound of its own.

`Desktop`, `Seat`, `Plugins` and `Discovery` state safety only. That a call of `katnipc`
ends is its own timeout; that a startup ends is the length of its lists.

Deadlock checking is off where a behaviour may end: after the loop has stopped,
or once the bounded moves are used up and everything has settled.

## 6. Proofs

`tlapm M.tla` checks every leaf; nothing is taken on trust but the backends.
Every invariant, action property and refinement of section 3's passing runs is a
theorem, for every value of the constants; liveness is not.

| Module | States | Of |
|---|---|---|
| `DesktopProofs` | `DesktopInv`, `FloatsOnTop`, `VisibleWhenRoom`, `SwitchSettles`, `OnlyOpensPartKeyboard`, `OnlyMovesLeaveGhosts`, `CleanupKeepsSurvivors`, `OnlyForeignFocusTypesUnseen`, `ImplementsWorkspaceMap` | `Desktop` |
| `LayoutProofs` | `DwindleInv`, `WindowsDisjoint`, `AllPlaced`; `HandshakeTypes`, `FocusFromRest` | `Dwindle`; `Configure` |
| `SeatProofs` | `ClientsSeeTheKeys`, `EvenOutputsKeepPointer`; that no grab ever exists (`GrabsUnreachable`) | `Seat` |
| `DrmProofs` | `OutputsInv`, `OnlyDroppedForCause`, `ScanLights`; `ChainAlive`, `ChainsNeverFork` | `Outputs`; `Repaint` |
| `PluginsProofs` | `LastEntryWins`, `FirstStartsAlike`, `FailuresIsolated`, `ImplementsKeyTable` | `KeyTable`, `ConfigFile`, `Plugins` |
| `IpcProofs` | `SuccessMeansRun`, `HoldBounded` | `Ipc` |
| `DiscoveryProofs` | `DiscoveryInv`, `NeverGuesses`, `RunsInOrder`, `SuccessRanOrCrashed` | `Discovery` |
| `ListProofs` | what `Retain`, `Total` and `FlattenSeq` return | `Lists` |

**Induction.** The library's induction theorems take an operator as a
parameter, which the installed backends cannot instantiate. The proofs do
without: `AllPositions` states induction on a *set* (one that holds 0 and with
every position below n the next holds all up to n), and is proved from
cardinalities. With it come `TotalType` (the sum of naturals is a natural),
`Extremes` (a finite set of integers has a least and a greatest element) and
`FlattenAppend` (a recursive function, unfolded by showing that one exists and
that any two agree on their common positions).

**`ListProofs`**: for every list, `Retain` returns one with exactly the elements
kept (`RetainElements`), in their order and none twice if there were none twice
(`RetainOrder`), each as often as it was there (`RetainOccurrences`), and one more
element adds itself or nothing (`RetainAppend`). The recursive filter of the
standard modules cannot be reasoned about with these provers, so `Lists` says it
with positions (the k-th element kept is the one with k kept positions up to it)
and the proofs show, by cardinalities, that this numbering is a monotone bijection.

**`DesktopProofs`**, for any finite set of windows, any number of workspaces,
both backends and any behaviour of the layout that gives no more rectangles than
windows. The inductive invariant of the bookkeeping is
`DesktopInv == TypeOK /\ TiledOnce /\ LiveWindowsTracked /\ FreshUntracked`.
`TiledOnce` alone is not inductive: a new toplevel is appended without a look at
the lists, so one needs that a window not created yet has no tile
(`FreshUntracked`). The argument goes through what each of the four handlers that
write tile lists does to the *set* of elements and to distinctness (one lemma
each); the refinement then maps each step to opening, sending, closing, showing,
shutting down or a stutter, by what it does to `Tracked` and `Home`.
On top of it, the invariant `Screen` says that the list of mapped windows is
free of duplicates, that of the active tiles those below come before the floats,
and that when the layout has a rectangle for each of them they are all in it; it
needs `DesktopInv`, since a window tiled twice would be mapped by one tile and
raised by another. Its core is `ArrangedElements`: what `arrange_force`, a chain
of `map_element` and `raise_element`, leaves in the list. The action properties
follow step by step, one lemma on a single step each.

**`LayoutProofs`, the rectangles**: for outputs, gaps, borders and counts of any
size. `DwindleInv` adds to the two properties that the areas of the calls still
on the stack are inside the usable area, apart from each other and apart from
every tile (`PendingInside`, `PendingApart`, `TilesApartFromPending`): tiles come
out of these areas, so without them nothing is known of the next tile.
`EveryWindowPlaced` is about counts. Its invariant `PlacedInv` says that the
windows placed and those that wait in the calls on the stack are never more than
were asked for (the partial sums over the stack are a function that exists), and
that with ample room they are exactly as many, since every call then has room for
its own windows (`RoomFor`). That room is handed down is `CutFits`: an area wide
and high enough for n windows, cut along its longer side, leaves each piece room
for its half, for small n case by case, from eight on by an estimate, and for gap
0 by an argument of its own.

**`LayoutProofs`, the handshake**: `HandshakeTypes` is the inductive invariant
(no window is tiled twice on all workspaces, none before it is created, and what
is told, in flight and acked are states there can be). `FocusTold` proves of every step from rest
that changes the focus, or the workspace, that the last state sent to each live
window of the workspace then shown is active exactly for the focused one (but for
a cleanup that removes no tile, and an arrival at a workspace without a focus). At rest, what a client was sent last, what
it acked and what is pending are the same; that is what makes the comparison of
`update_activated_states` with the acked state harmless there. `EverySizeTold` is
the safe half of `SizesConverge`, for any number of clients, configures in flight
and changes: on the active workspace a tiled client that draws at the size it
acked has been told the size of its tile, has acked it or has it as the last one
on its way. Its invariant `SizesInv` says that no size is prepared that was not
sent (`Orderly`) and that a client draws at a size it acked or chose, which the
compositor has recorded (`Drawn`): every layout tells all tiled windows
(`ArrangedTells`), and a commit that brings no new size leaves things as they
were. It assumes `SizesApart`, that no client chooses the size of a tile by
itself; section 4 has what happens otherwise.

**`SeatProofs`**: for any keys, chords, buttons and any finite set of layouts. A
step of the seat is a step of `Keyboard` or leaves it alone, and
`ClientsSeeTheKeys` is inductive once forwarded keys are known to be down
(`KeysHeld`): a change of focus reports a set of keys between the two, and every
later release must be of one of them. `PointerStays` rests on `EvenRow` (outputs
of one height in a row fill their bounding box) and `ClampedOnScreen` (the clamp
to that box therefore ends on one of them), wherever the pointer was before.
`GrabsUnreachable` is why grabs are not modelled: `valid_grab_start` runs before
the press it asks for is delivered, in whatever state the seat is.

**`DrmProofs`, the outputs**: for any connectors, CRTCs, modes, failures and
moves. `OutputsInv` is inductive because it counts: each lit connector has exactly
one lit output in the space, and the two maps are inverse of each other. An output
is mapped without a look at the list, and what failed half-way stays in it, so
membership alone would not do. `ScanInv` describes the middle of a scan: while no
cable moves, the connectors seen, passed over, to be looked at and still to be
asked for are exactly those the scan has been told of or will be (`Ahead`), and
one that was passed over has all its possible CRTCs in use, since during a scan
no CRTC is given back. From it follow `OnlyDroppedForWant` and `ScansLight`, for
any number of CRTCs, also fewer than there are connectors: nothing is assumed of
their number, the want of one is a cause the properties name. `UnpluggedAreDark`
is the safe half of `HotplugFollowed`: whenever the last scan was done after the
last move of a cable (`Settled`, of a GPU that stays and that udev names), nothing
is lit without a monitor.

**`DrmProofs`, the repaint chain**: for any number of kicks and upsets.
`RepaintInv == RepaintTypes /\ ChainAlive /\ FramesHaveVblanks`: that a timer or a
vblank is to come (`ChainAlive`) is preserved only because a frame the compositor
waits for has a vblank owed to it (`FramesHaveVblanks`).

**`PluginsProofs`**: for any texts, keysyms, config files, plugins and windows.
The invariant of the start has four parts. `TableInv`: what is left to walk is the
rest of its list (`Walks`), and the table lists the last valid entry for every
chord among those inserted so far, in their order (`Tabulates`, which says it by
an increasing map from places in the table to places in the list). That
`KeybindTable::insert` keeps it is `InsertedTabulates`; `TableBinds` takes it from
chords to keysyms, where two chords of the table may be one key: the last one
still wins, because the table kept the order. `FileInv`: what may be in use when
the file is none, empty or the default one; that the defaults read back, sorted by
text, bind as they do in their own order is `DefaultsReadBack`, and needs that
they are for different keys (`DefaultsAssumption`). `LoadInv`: host, report and
entries are those of the files walked so far (`Loaded`). `HooksInv`: each hook was
called for every window, those still to be called for all but the last.
`StartsAsWritten` maps every step to one of `KeyTable` or a stutter: the plugins'
entries are there from the beginning in the abstract start, and `Loaded` makes
them those of the detailed one once it comes to insert them.

**`IpcProofs`**: for any clients, lines, cap and timeout. `ServedOnce` (nobody is
in the backlog twice, or in it and served, and who is there has no answer) makes
the answer a client finds its own; `AnswersTell` says that a positive answer
executed exactly what was read, and that a client which waits has written its
whole line. A timeout or the cap may cut that line, but then a byte is left
unread and `katnipc` gets a reset, not the answer. The end of the stream, which
`katnipc` takes for success, comes only to clients whose connection was open when
the compositor stopped or died, and of whose line nothing was executed
(`EndMeansStopped`). `HoldInv` counts the time: a timeout for every byte read,
and the silence since.

**`DiscoveryProofs`**: for any number of instances, names, clients and tries. No
two instances hold one name (`NamesHeld`), from before the stale socket is cleared
to after the socket is removed, and a file is that of the last holder of its name
(`FilesOwned`): so what an instance clears or removes is never the socket of
another that runs. On that rests `TriesInv`: the tries of a client that wait at an
instance are in the order of their numbers (`Fifo`); those made in the same way
wait at one running instance (`Placed`, `Together`, where `NeverGuesses` and the
locks come in), and after those already executed (`Ahead`); an answer is that of
a try which was executed, and a stream that ends without one is a crash's
(`Replies`).

Assumptions used are those the modules name (`WindowAssumption`,
`WorkspaceAssumption`, `RectCountsAssumption`, `OutputsAssumption`,
`LayoutsAssumption`, `BoundsAssumption`, `TextsAssumption`, `DefaultsAssumption`,
`FilesAssumption`, `ClientAssumption`...); TLC evaluates them in the runs.

**Model-checked only.** Liveness, since fairness and ENABLED are beyond the
prover: `DeadForgotten`, `DeadFocusForgotten`, `SizesConverge`,
`EveryClientConfigured`, `ConfiguresEnd`, `HotplugFollowed`, `DamageIsFlipped`,
`LoopResumes`. Of `SizesConverge` and `HotplugFollowed` the theorems above prove
what holds at every point; that the point comes is what fairness gives. And what
section 4 says the code does otherwise.

## 7. Not modelled

* **Grabs** (`grabs/`): `valid_grab_start` looks for the grab of a press before
  that press is delivered and so always refuses (`seat_drag`); no grab ever
  exists (`GrabsUnreachable`, proved). `update_float_loc`, `ensure_floating_at` and the
  commit hook of the resize grab are unreachable with them, and a model of them
  would have to start in states the program is never in.
* **What a native plugin does** inside the process: it is arbitrary code.
* **A toplevel that is replaced on its surface** (`state.rs:227` finds the dead
  tile first until the cleanup): every toplevel has a surface of its own here.
* **What a tile's rectangle is** in `Configure`: its size is the host's and the
  number of tiles, so two tiles of one layout have the same; `Dwindle` has the
  rectangles.
* **Popups, data devices, dmabuf import**: their state is smithay's.
* **Device setup, EGL, drawing, fonts, bar**: I/O and pixels.
* **Environment, autostart, `exec`, launching terminals**: process I/O. Whose
  `[env]` is set is in `ConfigFile`.

## 8. Plan

Done: `Desktop` with its refinement; `Dwindle` and `Repaint`; `Configure`;
`Outputs`; `KeyTable` with `ConfigFile` and `Plugins`; `Keyboard` and `Pointer`
with `Seat`; `Ipc`; `Discovery`; proofs of every invariant, action property and
refinement that a run checks.

To do, most important first:

1. A refinement from `Ipc`, where a line is read byte by byte, to the three
   steps a connection is in `Discovery`.
2. `Repaint` for several CRTCs of one device, with `Outputs` making and removing
   them, and its proof from the two that are there.
3. `Desktop` with surfaces that outlive their toplevel and get another.
4. Of the liveness properties, the measure that the fair steps decrease, as
   action properties; `SizesConverge` and `HotplugFollowed` have their safe half
   proved.
