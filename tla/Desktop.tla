------------------------------ MODULE Desktop ------------------------------
(***************************************************************************)
(* The compositor's model of the desktop (katnip/src/state.rs): which      *)
(* windows each workspace tracks and in which order, what has focus, and   *)
(* what the renderer's space shows, under every interleaving of client     *)
(* requests, client deaths, pointer presses, keybind actions, host resizes *)
(* and redraws.  All handlers run on one event-loop thread, so an action   *)
(* is a whole handler, with the calls it makes.                            *)
(*                                                                         *)
(* Positions and sizes are abstracted to what decides visibility: rects[n] *)
(* says how many rectangles the dwindle layout returns for n tiled windows *)
(* at the present output size (module Dwindle models the layout itself).   *)
(***************************************************************************)
EXTENDS Lists

CONSTANTS
    Window,          \* toplevels that clients may ever create
    NoWindow,        \* Option::None
    WorkspaceCount,  \* WORKSPACE_COUNT, 10 in the code
    RectCounts,      \* per host window size: tiled windows |-> rectangles
    Nested           \* winit backend (TRUE) or DRM backend (FALSE)

Workspace == 0..(WorkspaceCount - 1)

ASSUME WindowAssumption == IsFiniteSet(Window) /\ NoWindow \notin Window
ASSUME WorkspaceAssumption == WorkspaceCount \in Nat /\ WorkspaceCount > 0
ASSUME RectCountsAssumption ==
    /\ RectCounts # {}
    /\ RectCounts \subseteq [0..Cardinality(Window) -> Nat]
    /\ \A r \in RectCounts, n \in 0..Cardinality(Window) : r[n] <= n
ASSUME NestedAssumption == Nested \in BOOLEAN

VARIABLES
    life,       \* per window: not yet created, alive, or destroyed
    tiles,      \* per workspace: its tile list, in layout order
    focused,    \* per workspace: the window it remembers as focused
    active,     \* the workspace on screen
    floating,   \* windows whose tile has `floating` set
    stack,      \* the space: mapped windows, bottom to top
    keyboard,   \* the window that receives key events
    rects,      \* rectangles the layout returns, per number of tiled windows
    running     \* the event loop has not been stopped

vars == <<life, tiles, focused, active, floating, stack, keyboard, rects,
          running>>

Alive == {w \in Window : life[w] = "alive"}
Tracked == UNION {ToSet(tiles[ws]) : ws \in Workspace}

-----------------------------------------------------------------------------
(* Layout *)

\* Mutation: the last rectangle is not handed out.
HousedButLast(ts, fl, rc) ==
    LET tiled == Retain(ts, Window \ fl)
    IN  {tiled[k] : k \in {j \in DOMAIN tiled : j < rc[Len(tiled)]}}

\* The tiled windows of the list ts that get a rectangle: the first ones.
Housed(ts, fl, rc) ==
    LET tiled == Retain(ts, Window \ fl)
    IN  {tiled[k] : k \in {j \in DOMAIN tiled : j <= rc[Len(tiled)]}}

\* Mutation: the floating windows are not raised.
ArrangedUnraised(st, ts, fl, rc) ==
    LET shown == Housed(ts, fl, rc) \union (ToSet(ts) \intersect fl)
    IN  Retain(st, Window \ shown) \o Retain(ts, shown)

\* The space after arrange_force: every window that has a place is (re)mapped
\* on top in tile order, then the floating ones are raised; a tiled window
\* without a rectangle stays where it was, mapped or not.
Arranged(st, ts, fl, rc) ==
    LET housed == Housed(ts, fl, rc)
    IN  Retain(st, Window \ (housed \union (ToSet(ts) \intersect fl)))
            \o Retain(ts, housed) \o Retain(ts, fl)

\* arrange_force on the list ts of the active workspace.  In DRM mode
\* state.output is never set and the call returns at once.
ArrangeForce(st, ts, fl, rc) ==
    stack' = IF Nested THEN Arranged(st, ts, fl, rc) ELSE st

LastOrNone(ts) == IF ts = <<>> THEN NoWindow ELSE Last(ts)

\* Mutation: the first one is removed.
RemovedFirst(ts, w) == RemoveAt(ts, 1)

\* The list without the tile of w (position, then Vec::remove).
Removed(ts, w) == RemoveAt(ts, CHOOSE i \in DOMAIN ts : ts[i] = w)

\* Mutation: only the tiled windows are unmapped.
UnmappedTiled(st, ts) == Retain(st, (Window \ ToSet(ts)) \union floating)

\* The space without the windows of the list ts.
Unmapped(st, ts) == Retain(st, Window \ ToSet(ts))

-----------------------------------------------------------------------------
Init ==
    /\ life = [w \in Window |-> "absent"]
    /\ tiles = [ws \in Workspace |-> <<>>]
    /\ focused = [ws \in Workspace |-> NoWindow]
    /\ active = 0
    /\ floating = {}
    /\ stack = <<>>
    /\ keyboard = NoWindow
    /\ rects \in RectCounts
    /\ running = TRUE

(* Clients *)

\* new_toplevel -> add_tile: the window becomes the last tile of the active
\* workspace and its `focused`; the keyboard is left where it is.
NewToplevel(w) ==
    /\ running
    /\ life[w] = "absent"
    /\ life' = [life EXCEPT ![w] = "alive"]
    /\ focused' = [focused EXCEPT ![active] = w]
    /\ tiles' = [tiles EXCEPT ![active] = Append(@, w)]
    /\ ArrangeForce(stack, tiles'[active], floating, rects)
    /\ UNCHANGED <<active, floating, keyboard, rects, running>>

\* A commit of a tracked root surface of the active workspace, with another
\* geometry than the last (module Configure has the sizes): the layout is
\* redone.  No other commit changes anything here.  The surface may outlive
\* its toplevel.
Commit(w) ==
    /\ running
    /\ w \in ToSet(tiles[active])
    /\ ArrangeForce(stack, tiles[active], floating, rects)
    /\ UNCHANGED <<life, tiles, focused, active, floating, keyboard, rects,
                   running>>

\* The client destroys the toplevel, or disconnects.  No handler of the
\* compositor runs: Window::alive() just answers false from now on.
Die(w) ==
    /\ running
    /\ life[w] = "alive"
    /\ life' = [life EXCEPT ![w] = "dead"]
    /\ UNCHANGED <<tiles, focused, active, floating, stack, keyboard, rects,
                   running>>

(* The event loop *)

\* Mutation: every focus is forgotten.
FocusForgotten == [ws \in Workspace |-> NoWindow]

\* What cleanup_dead leaves of each list and each remembered focus.
TilesAlive == [ws \in Workspace |-> Retain(tiles[ws], Alive)]
FocusAlive ==
    [ws \in Workspace |-> IF focused[ws] \in Alive THEN focused[ws] ELSE NoWindow]

\* Nothing was removed: a dead focus is forgotten, and that is all.
CleanupNothing ==
    /\ TilesAlive = tiles
    /\ focused' = FocusAlive
    /\ UNCHANGED <<tiles, floating, stack, keyboard>>

\* Some tile was removed: the focus of the active workspace is refilled with
\* its last tile and the layout is redone.
CleanupRemoved ==
    /\ TilesAlive # tiles
    /\ tiles' = TilesAlive
    /\ IF FocusAlive[active] = NoWindow
       THEN LET next == LastOrNone(TilesAlive[active])
            IN  /\ focused' = [FocusAlive EXCEPT ![active] = next]
                /\ keyboard' = next
       ELSE /\ focused' = FocusAlive
            /\ UNCHANGED keyboard
    /\ floating' = floating \intersect Alive
    /\ ArrangeForce(stack, TilesAlive[active], floating \intersect Alive, rects)

\* One host redraw (winit only) begins with cleanup_dead; the rest renders.
Redraw ==
    /\ running
    /\ Nested
    /\ CleanupNothing \/ CleanupRemoved
    /\ UNCHANGED <<life, active, rects, running>>

\* The idle callback of the event loop: Space::refresh drops dead elements.
Refresh ==
    /\ running
    /\ stack' = Retain(stack, Alive)
    /\ UNCHANGED <<life, tiles, focused, active, floating, keyboard,
                   rects, running>>

\* The host window is resized (winit only).
HostResize(rc) ==
    /\ running
    /\ Nested
    /\ rc # rects
    /\ rects' = rc
    /\ ArrangeForce(stack, tiles[active], floating, rc)
    /\ UNCHANGED <<life, tiles, focused, active, floating, keyboard, running>>

(* Input *)

\* focus_window, for a window or for None.
FocusWindow(w) ==
    /\ focused' = [focused EXCEPT ![active] = w]
    /\ keyboard' = w

\* A pointer button pressed over a mapped window or over none of them.  With
\* SUPER held the handler also tries to start a grab, which never starts
\* (module Pointer), so every variant comes down to focusing.
PointerPress(w) ==
    /\ running
    /\ w \in ToSet(stack) \union {NoWindow}
    /\ FocusWindow(w)
    /\ UNCHANGED <<life, tiles, active, floating, stack, rects, running>>

\* Mutation: no fallback to the last tile.
ArrivalFocusRemembered(idx) == focused[idx]

\* What gets focus on arriving at a workspace.
ArrivalFocus(idx) ==
    IF focused[idx] # NoWindow THEN focused[idx] ELSE LastOrNone(tiles[idx])

\* switch_workspace: unmap the old tiles, drop keyboard focus, lay out the
\* new workspace, then focus what it remembers or else its last tile.
SwitchWorkspace(idx) ==
    /\ running
    /\ idx # active
    /\ active' = idx
    /\ ArrangeForce(Unmapped(stack, tiles[active]), tiles[idx], floating, rects)
    /\ focused' = [focused EXCEPT ![idx] = ArrivalFocus(idx)]
    /\ keyboard' = ArrivalFocus(idx)
    /\ UNCHANGED <<life, tiles, floating, rects, running>>

\* Mutation: the window leaves the screen at once and keeps the keyboard.
MoveFocusedUnmapped(idx) ==
    LET w == focused[active]
        source == Removed(tiles[active], w)
    IN  /\ running
        /\ idx # active
        /\ w \in ToSet(tiles[active])
        /\ tiles' = [tiles EXCEPT ![active] = source, ![idx] = Append(@, w)]
        /\ focused' = [focused EXCEPT ![idx] = NoWindow, ![active] = NoWindow]
        /\ floating' = floating \ {w}
        /\ ArrangeForce(Retain(stack, Window \ {w}), source, floating \ {w}, rects)
        /\ UNCHANGED <<life, active, keyboard, rects, running>>

\* move_focused_to_workspace: the focused tile goes, tiled, to the end of
\* another workspace; both workspaces forget their focus.
MoveFocused(idx) ==
    LET w == focused[active]
        source == Removed(tiles[active], w)
    IN  /\ running
        /\ idx # active
        /\ w \in ToSet(tiles[active])
        /\ tiles' = [tiles EXCEPT ![active] = source, ![idx] = Append(@, w)]
        /\ focused' = [focused EXCEPT ![idx] = NoWindow, ![active] = NoWindow]
        /\ keyboard' = NoWindow
        /\ floating' = floating \ {w}
        /\ ArrangeForce(stack, source, floating \ {w}, rects)
        /\ UNCHANGED <<life, active, rects, running>>

\* toggle_focused_floating, tiled -> floating: placed under the pointer.
Float ==
    LET w == focused[active]
    IN  /\ running
        /\ w \in ToSet(tiles[active])
        /\ w \notin floating
        /\ floating' = floating \union {w}
        /\ ArrangeForce(stack, tiles[active], floating \union {w}, rects)
        /\ UNCHANGED <<life, tiles, focused, active, keyboard, rects, running>>

\* toggle_focused_floating, floating -> tiled: to the end of the tile order.
Unfloat ==
    LET w == focused[active]
        order == Append(Removed(tiles[active], w), w)
    IN  /\ running
        /\ w \in ToSet(tiles[active])
        /\ w \in floating
        /\ floating' = floating \ {w}
        /\ tiles' = [tiles EXCEPT ![active] = order]
        /\ ArrangeForce(stack, order, floating \ {w}, rects)
        /\ UNCHANGED <<life, focused, active, keyboard, rects, running>>

\* The loop stops: the quit action, the host closing the nested window, or a
\* lost GPU context after a redraw.  The process ends and keeps nothing.
Quit ==
    /\ running
    /\ running' = FALSE
    /\ life' = [w \in Window |-> "dead"]
    /\ tiles' = [ws \in Workspace |-> <<>>]
    /\ focused' = [ws \in Workspace |-> NoWindow]
    /\ active' = 0
    /\ floating' = {}
    /\ stack' = <<>>
    /\ keyboard' = NoWindow
    /\ UNCHANGED rects

Next ==
    \/ \E w \in Window : NewToplevel(w) \/ Commit(w) \/ Die(w)
    \/ Redraw
    \/ Refresh
    \/ \E rc \in RectCounts : HostResize(rc)
    \/ \E w \in Window \union {NoWindow} : PointerPress(w)
    \/ \E idx \in Workspace : SwitchWorkspace(idx) \/ MoveFocused(idx)
    \/ Float
    \/ Unfloat
    \/ Quit

Spec == Init /\ [][Next]_vars
-----------------------------------------------------------------------------
(* Properties *)

TypeOK ==
    /\ life \in [Window -> {"absent", "alive", "dead"}]
    /\ tiles \in [Workspace -> Seq(Window)]
    /\ focused \in [Workspace -> Window \union {NoWindow}]
    /\ active \in Workspace
    /\ floating \subseteq Window
    /\ stack \in Seq(Window)
    /\ keyboard \in Window \union {NoWindow}
    /\ rects \in RectCounts
    /\ running \in BOOLEAN

\* A window has at most one tile on the whole desktop: moves, toggles and
\* cleanups never duplicate one.  tile_for_surface, window_entry and
\* update_float_loc, which take the first match, rely on it.
TiledOnce ==
    /\ \A ws \in Workspace : Distinct(tiles[ws])
    /\ \A ws1, ws2 \in Workspace :
          ws1 # ws2 => ToSet(tiles[ws1]) \intersect ToSet(tiles[ws2]) = {}

\* A live window is never lost: it has a tile on some workspace.
LiveWindowsTracked == Alive \subseteq Tracked

\* A window nobody created yet has no tile: what add_tile relies on.
FreshUntracked == \A w \in Window : life[w] = "absent" => w \notin Tracked

\* The bookkeeping of the tile lists: no window is duplicated by a move, a
\* toggle or a cleanup, and none is lost by one.  The parts are inductive
\* only together, and every other proof about the desktop rests on them.
DesktopInv == TypeOK /\ TiledOnce /\ LiveWindowsTracked /\ FreshUntracked

\* Whenever the layout has a rectangle for every tiled window of the active
\* workspace, every live window of that workspace is mapped, whatever
\* switches, moves, degenerate host sizes and cleanups came before.
VisibleWhenRoom ==
    LET tiled == Retain(tiles[active], Window \ floating)
    IN  Nested /\ rects[Len(tiled)] = Len(tiled)
            => ToSet(tiles[active]) \intersect Alive \subseteq ToSet(stack)

\* The space maps no window twice, and on the active workspace no tiled
\* window ever covers a floating one ("Floats render above tiled windows").
FloatsOnTop ==
    /\ Distinct(stack)
    /\ \A i, j \in DOMAIN stack :
          /\ i < j
          /\ {stack[i], stack[j]} \subseteq ToSet(tiles[active])
          /\ stack[i] \in floating
          => stack[j] \in floating

\* Mapped windows whose tile is on a workspace that is not on screen.
Ghosts == {w \in ToSet(stack) \intersect Tracked : w \notin ToSet(tiles[active])}

\* The only step after which a hidden workspace shows a window it did not
\* show before is the move of that window out of the active workspace.
OnlyMovesLeaveGhosts ==
    [][\A w \in Ghosts' \ Ghosts :
          w = focused[active] /\ active' = active /\ w \in ToSet(tiles[active])]_vars

\* A cleanup never takes the focus from a live window, on any workspace, and
\* keeps the surviving tiles of every workspace in their order.
CleanupKeepsSurvivors ==
    [][\A ws \in Workspace :
          Redraw => /\ focused[ws] \in Alive => focused'[ws] = focused[ws]
                    /\ \A i, j \in DOMAIN tiles[ws] :
                          i < j /\ {tiles[ws][i], tiles[ws][j]} \subseteq Alive
                          => \E k, l \in DOMAIN tiles'[ws] :
                                /\ k < l
                                /\ tiles'[ws][k] = tiles[ws][i]
                                /\ tiles'[ws][l] = tiles[ws][j]]_vars

\* After a switch the left workspace is off screen, the keyboard goes where
\* the new workspace's focus is, and a workspace with tiles has a focus: the
\* switch repairs whatever disagreement there was before it.
SwitchSettles ==
    [][active' # active /\ running' =>
          /\ ToSet(tiles[active]) \intersect ToSet(stack') = {}
          /\ keyboard' = focused'[active']
          /\ tiles'[active'] # <<>> => keyboard' # NoWindow]_vars

\* The focus of the active workspace and the keyboard part in two ways only: a
\* new window takes the focus without the keyboard, and a cleanup forgets a
\* dead focus that it has no reason to refill.  Clicks, switches, moves,
\* toggles and cleanups that remove a tile keep them together.
OnlyOpensPartKeyboard ==
    [][/\ keyboard = focused[active]
       /\ keyboard' # focused'[active']
       => \/ life' # life
          \/ focused[active] \notin Alive /\ tiles' = tiles]_vars

\* Keys that go to a live window that is not on screen.
TypedUnseen == keyboard \in Alive \ ToSet(stack)

\* With room for all, only one step takes the window that is typed to off the
\* screen, or gives the keyboard to one that is not there: the arrival at a
\* workspace that remembers a window of another one as its focus.  No move,
\* toggle, click or cleanup does.
OnlyForeignFocusTypesUnseen ==
    [][/\ Nested
       /\ ~TypedUnseen /\ TypedUnseen'
       /\ LET tiled == Retain(tiles[active], Window \ floating)
          IN  (rects[Len(tiled)] = Len(tiled))'
       => active' # active /\ focused[active'] \notin ToSet(tiles[active'])]_vars

\* Where each window is, in the terms of the abstract specification: closed
\* once it has lost its tile, until then on the workspace that holds it.
Home ==
    [w \in Window |->
        IF w \in Tracked THEN CHOOSE ws \in Workspace : w \in ToSet(tiles[ws])
        ELSE IF life[w] = "absent" THEN -1 ELSE -2]

Promised == INSTANCE WorkspaceMap WITH home <- Home, shown <- active

\* The desktop does what WorkspaceMap promises of the workspaces.
ImplementsWorkspaceMap == Promised!Spec

(* What comments of the code say and the code does not do *)

\* "it disappears from view unless target == active" (state.rs:592): no
\* window of a hidden workspace is on screen.
HiddenWorkspacesUnmapped == Ghosts = {}

\* "must belong to the active workspace" (state.rs:371): a focused window has
\* its tile on the workspace that remembers it, as long as it lives.
FocusOnOwnWorkspace ==
    \A ws \in Workspace :
        focused[ws] \in Alive => focused[ws] \in ToSet(tiles[ws])

\* Focusing means "keyboard focus" (state.rs:371-372), and a new window is
\* focused (state.rs:316): the keyboard is where the active focus is.
KeyboardFollowsFocus ==
    focused[active] \in Alive => keyboard = focused[active]

\* "Removes dead windows everywhere, refills active focus" (state.rs:333).
FocusRefilled ==
    [][Redraw /\ focused[active] # NoWindow /\ tiles'[active] # <<>>
          => focused'[active] # NoWindow]_vars

\* The address all_windows reports is that of the tile's slot in its Vec:
\* workspace and index stand for it.
Address(w) ==
    UNION {{<<ws, i>> : i \in {j \in DOMAIN tiles[ws] : tiles[ws][j] = w}} :
               ws \in Workspace}

\* "Stable per-window identity for IPC consumers" (state.rs:270).
AddressStable ==
    [][\A w \in Window :
          Address(w) # {} /\ Address(w)' # {} => Address(w)' = Address(w)]_vars

\* "everything above rendering ... runs identically to nested mode"
\* (hardware_mode.rs:8): with room for all, the active windows are mapped.
VisibleInAnyBackend ==
    LET tiled == Retain(tiles[active], Window \ floating)
    IN  rects[Len(tiled)] = Len(tiled)
            => ToSet(tiles[active]) \intersect Alive \subseteq ToSet(stack)
=============================================================================
