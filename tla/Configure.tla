----------------------------- MODULE Configure -----------------------------
(***************************************************************************)
(* The xdg configure handshake as katnip/src/state.rs drives it: which     *)
(* size, Activated state and decoration mode each client is told, what it  *)
(* has acked when the compositor looks, and what its commits, its requests *)
(* and its end set off in return, over all workspaces.  The layout has     *)
(* room for all windows; module Desktop has the same handlers without it.  *)
(*                                                                         *)
(* A client's record has `pending`, the state the compositor has prepared; *)
(* `sent`, the configures in flight, oldest first; `current`, the state    *)
(* last acked and committed; `initial`, an initial configure was sent;     *)
(* `decorated`, the client-side decoration mode, the only one there is, is *)
(* part of what was sent; `acked`, the client acked some configure; `geo`, *)
(* the size it committed and `last`, its entry in last_sizes.  When        *)
(* nothing is prepared, pending is the state last sent.                    *)
(***************************************************************************)
EXTENDS Lists

CONSTANTS
    Window,       \* toplevels, numbered in the order they are created in
    Workspace,    \* workspaces
    FirstShown,   \* the workspace that is active at the start
    Backends,     \* backends to consider: nested (TRUE), DRM (FALSE)
    Host,         \* sizes of the host window
    FirstHost,    \* its size at the start
    OwnSizes,     \* sizes clients choose for themselves (see SizesConverge)
    Zero,         \* the size of a surface without a buffer
    None,         \* no size, no entry, no window
    MaxInFlight,  \* bound: with more configures in flight clients only answer
    MaxChanges    \* bound: clicks, toggles, moves, switches and host resizes

ASSUME BoundsAssumption ==
    /\ MaxInFlight \in Nat /\ MaxChanges \in Nat
    /\ Backends \subseteq BOOLEAN /\ Backends # {}
    /\ FirstHost \in Host /\ FirstShown \in Workspace
ASSUME WindowAssumption == IsFiniteSet(Window) /\ Window \subseteq Nat

VARIABLES
    nested,    \* the backend is the nested one
    life,      \* per window: not yet created, alive, or destroyed
    tiles,     \* per workspace: its tiles, in order
    floating,  \* windows whose tile floats
    focused,   \* per workspace: the window it remembers as focused
    active,    \* the workspace on screen
    mapped,    \* the windows that the space shows
    host,      \* the size of the host window
    client,    \* per window, the record described above
    changes    \* changes so far

desk == <<nested, life, tiles, floating, focused, active, mapped, host>>
handshake == <<desk, client, changes>>

TileSize == Host \X (1..Cardinality(Window))
Size == TileSize \union OwnSizes \union {Zero, None}
State == [size : Size, active : BOOLEAN]
Client == [pending : State, sent : Seq(State), current : State,
           initial : BOOLEAN, decorated : BOOLEAN, acked : BOOLEAN,
           geo : Size, last : Size]

\* The size of a tile depends on the output and the number of tiled windows.
Desired(ts, fl, h) == <<h, Cardinality(ToSet(ts) \ fl)>>

Unset == [size |-> None, active |-> FALSE]
Blank == [pending |-> Unset, sent |-> <<>>, current |-> Unset,
          initial |-> FALSE, decorated |-> FALSE, acked |-> FALSE,
          geo |-> Zero, last |-> None]

Alive == {w \in Window : life[w] = "alive"}

(* What smithay does *)

LastSent(c) == IF c.sent = <<>> THEN c.current ELSE Last(c.sent)

SendConfigure(c) ==
    [c EXCEPT !.sent = Append(@, c.pending), !.initial = TRUE]

SendPendingConfigure(c) ==
    IF c.pending # LastSent(c) \/ ~c.initial THEN SendConfigure(c) ELSE c

\* raise_element(.., true), for each float of ts in turn, prepares, without
\* sending it, an Activated state for the raised window and its absence for
\* every other mapped one: the last float's stays.
Raised(c, w, ts, fl) ==
    LET floats == {i \in DOMAIN ts : ts[i] \in fl}
    IN  IF floats = {} THEN c
        ELSE [c EXCEPT !.pending.active = (w = ts[Max(floats)])]

(* What the compositor tells a client *)

\* with_pending_state, then send_pending_configure.
Tell(c, state) == SendPendingConfigure([c EXCEPT !.pending = state])

\* Mutation: a size is told only once.
SizedOnce(c, size, force) ==
    IF force \/ c.current.size = None
    THEN Tell(c, [c.pending EXCEPT !.size = size])
    ELSE c

\* The size part of arrange_force, for a tiled window.
Sized(c, size, force) ==
    IF force \/ c.current.size # size
    THEN Tell(c, [c.pending EXCEPT !.size = size])
    ELSE c

\* Mutations: windows are only ever activated; or the state is toggled.
ActivatedOnly(c, on) ==
    IF on /\ ~c.current.active
    THEN Tell(c, [c.pending EXCEPT !.active = TRUE])
    ELSE c
ActivatedFlipped(c, on) ==
    Tell(c, [c.pending EXCEPT !.active = ~LastSent(c).active])

\* update_activated_states, for one window: it compares with the acked state.
Activated(c, on) ==
    IF c.current.active # on
    THEN Tell(c, [c.pending EXCEPT !.active = on])
    ELSE c

\* update_activated_states for the tiles ts, foc being the focused window.
\* Nothing reaches a client that is gone.
UpdateActivated(cs, ts, foc) ==
    [w \in Window |-> IF w \in ToSet(ts) /\ life[w] # "dead"
                      THEN Activated(cs[w], w = foc) ELSE cs[w]]

\* arrange_force, what it does to the clients before it tells them who is
\* focused: sizes in the order of the tiles, then the floats are raised.
LaidOut(cs, ts, fl, mp, h, force) ==
    LET sized(w) == IF w \in ToSet(ts) \ fl THEN Sized(cs[w], Desired(ts, fl, h), force)
                                            ELSE cs[w]
    IN  [w \in Window |->
            IF life[w] = "dead" THEN cs[w]
            ELSE IF w \in mp \union ToSet(ts) THEN Raised(sized(w), w, ts, fl)
            ELSE cs[w]]

\* The clients after arrange_force, laid being what LaidOut leaves of cs; in
\* DRM mode it returns at once.
Arranged(cs, laid, ts, foc) == IF nested THEN UpdateActivated(laid, ts, foc) ELSE cs

\* The space after arrange_force.
Mapped(mp, ts) == IF nested THEN mp \union ToSet(ts) ELSE mp

\* arrange_force, with the lists, the focus and the output as the handler
\* leaves them.
ArrangeForce(cs, mp, force) ==
    /\ \E laid \in {LaidOut(cs, tiles'[active], floating', mp, host', force)} :
          client' = Arranged(cs, laid, tiles'[active], focused'[active])
    /\ mapped' = Mapped(mp, tiles'[active])

\* Mutation: the tile stays where it was as well.
WithoutNot(ts, w) == ts

\* The list without the tile of w (position, then Vec::remove).
Without(ts, w) == Retain(ts, Window \ {w})

LastOrNone(ts) == IF ts = <<>> THEN None ELSE Last(ts)

-----------------------------------------------------------------------------
HandshakeInit ==
    /\ nested \in Backends
    /\ life = [w \in Window |-> "absent"]
    /\ tiles = [ws \in Workspace |-> <<>>]
    /\ floating = {}
    /\ focused = [ws \in Workspace |-> None]
    /\ active = FirstShown
    /\ mapped = {}
    /\ host = FirstHost
    /\ client = [w \in Window |-> Blank]
    /\ changes = 0

Room == \A w \in Window : Len(client[w].sent) <= MaxInFlight

Change ==
    /\ Room
    /\ changes < MaxChanges
    /\ changes' = changes + 1

(* Windows come and go *)

\* add_tile.
NewToplevel(w) ==
    /\ Room
    /\ life[w] = "absent"
    /\ \A v \in Window : v < w => life[v] # "absent"
    /\ life' = [life EXCEPT ![w] = "alive"]
    /\ tiles' = [tiles EXCEPT ![active] = Append(@, w)]
    /\ focused' = [focused EXCEPT ![active] = w]
    /\ UNCHANGED <<nested, floating, active, host, changes>>
    /\ ArrangeForce(client, mapped, FALSE)

\* The client destroys the toplevel, or disconnects; no handler runs, and
\* nothing it is told from now on matters.
Die(w) ==
    /\ life[w] = "alive"
    /\ life' = [life EXCEPT ![w] = "dead"]
    /\ client' = [client EXCEPT ![w] = Blank]
    /\ UNCHANGED <<nested, tiles, floating, focused, active, mapped, host, changes>>

\* Mutation: only the active workspace is cleaned up.
TilesAliveActive == [tiles EXCEPT ![active] = Retain(@, Alive)]

\* What cleanup_dead leaves of each list and each remembered focus.
TilesAlive == [ws \in Workspace |-> Retain(tiles[ws], Alive)]
FocusAlive ==
    [ws \in Workspace |-> IF focused[ws] \in Alive THEN focused[ws] ELSE None]

\* Mutation: the focus is looked at only when a tile has been removed.
CleanupNothingAtAll ==
    /\ nested
    /\ TilesAlive = tiles
    /\ UNCHANGED handshake

\* cleanup_dead, at a host redraw, when no tile is dead: a dead window that is
\* not a tile is forgotten as a focus, and nobody is told anything.
CleanupNothing ==
    /\ nested
    /\ TilesAlive = tiles
    /\ focused' = FocusAlive
    /\ UNCHANGED <<nested, life, tiles, floating, active, mapped, host, client, changes>>

\* cleanup_dead, when some tile is dead: the active focus is refilled with the
\* last tile, its windows are told who is focused, and laid out again.  The
\* entries it drops from last_sizes are those of windows that are gone.
CleanupRemoved ==
    LET foc == IF FocusAlive[active] # None THEN FocusAlive[active]
               ELSE LastOrNone(TilesAlive[active])
    IN  /\ nested
        /\ TilesAlive # tiles
        /\ tiles' = TilesAlive
        /\ focused' = [FocusAlive EXCEPT ![active] = foc]
        /\ floating' = floating \intersect Alive
        /\ UNCHANGED <<nested, life, active, host, changes>>
        /\ ArrangeForce(UpdateActivated(client, tiles'[active], foc), mapped, FALSE)

\* Space::refresh drops dead elements.
Refresh ==
    /\ mapped' = mapped \intersect Alive
    /\ UNCHANGED <<nested, life, tiles, floating, focused, active, host, client, changes>>

(* Keys, clicks and the host *)

\* focus_window, on a click on a mapped window or between them.
Click(w) ==
    /\ Change
    /\ w \in mapped \union {None}
    /\ focused' = [focused EXCEPT ![active] = w]
    /\ client' = UpdateActivated(client, tiles[active], w)
    /\ UNCHANGED <<nested, life, tiles, floating, active, mapped, host>>

\* toggle_focused_floating; back to tiling goes to the end of the order.
ToggleFloating ==
    LET w == focused[active]
    IN  /\ Change
        /\ w \in ToSet(tiles[active])
        /\ IF w \in floating
           THEN /\ floating' = floating \ {w}
                /\ tiles' = [tiles EXCEPT ![active] = Append(Without(@, w), w)]
           ELSE /\ floating' = floating \union {w}
                /\ UNCHANGED tiles
        /\ UNCHANGED <<nested, life, focused, active, host>>
        /\ ArrangeForce(client, mapped, FALSE)

\* move_focused_to_workspace: the tile goes, tiled, to the end of ws; both
\* workspaces forget their focus, and the windows left behind are told.
MoveFocused(ws) ==
    LET w == focused[active]
    IN  /\ Change
        /\ ws # active
        /\ w \in ToSet(tiles[active])
        /\ tiles' = [tiles EXCEPT ![active] = Without(@, w), ![ws] = Append(@, w)]
        /\ floating' = floating \ {w}
        /\ focused' = [focused EXCEPT ![active] = None, ![ws] = None]
        /\ UNCHANGED <<nested, life, active, host>>
        /\ ArrangeForce(UpdateActivated(client, tiles'[active], None), mapped, FALSE)

\* What gets focus on arriving at a workspace.
ArrivalFocus(ws) ==
    IF focused[ws] # None THEN focused[ws] ELSE LastOrNone(tiles[ws])

\* switch_workspace: the old windows are unmapped and told nothing; a forced
\* layout of the new one, with the focus it remembers, then focus_window.
SwitchWorkspace(ws) ==
    LET left == mapped \ ToSet(tiles[active])
        laid == LaidOut(client, tiles[ws], floating, left, host, TRUE)
    IN  /\ Change
        /\ ws # active
        /\ active' = ws
        /\ focused' = [focused EXCEPT ![ws] = ArrivalFocus(ws)]
        /\ client' = UpdateActivated(Arranged(client, laid, tiles[ws], focused[ws]),
                                     tiles[ws], ArrivalFocus(ws))
        /\ mapped' = Mapped(left, tiles[ws])
        /\ UNCHANGED <<nested, life, tiles, floating, host>>

\* The host window is resized; only the active workspace is laid out.
HostResize(h) ==
    /\ nested
    /\ Change
    /\ h # host
    /\ host' = h
    /\ UNCHANGED <<nested, life, tiles, floating, focused, active>>
    /\ ArrangeForce(client, mapped, FALSE)

(* What clients do *)

\* negotiate_client_side, on new_decoration, request_mode and unset_mode.  The
\* mode is new to the client the first time; what else is prepared goes with it.
Decorated(c) ==
    IF c.decorated THEN SendPendingConfigure(c)
    ELSE SendConfigure([c EXCEPT !.decorated = TRUE])

RequestDecoration(w) ==
    /\ Room
    /\ life[w] = "alive"
    /\ client' = [client EXCEPT ![w] = Decorated(@)]
    /\ UNCHANGED <<desk, changes>>

\* Mutation: no initial configure.
OnWindowCommitSilent(w, c) ==
    \/ /\ ~c.initial \/ c.geo = c.last
       /\ client' = [client EXCEPT ![w] = c]
       /\ UNCHANGED mapped
    \/ /\ c.initial
       /\ c.geo # c.last
       /\ ArrangeForce([client EXCEPT ![w] = [c EXCEPT !.last = c.geo]], mapped, FALSE)

\* on_window_commit, c being the client's record when it runs.
OnWindowCommit(w, c) ==
    LET recorded == [client EXCEPT ![w] = [c EXCEPT !.last = c.geo]]
        firstMap == c.last \in {None, Zero} /\ c.geo # Zero
        laidOut == c.initial /\ c.geo # c.last /\ w \in ToSet(tiles[active])
    IN  \/ /\ ~c.initial
           /\ client' = [client EXCEPT ![w] = SendConfigure(c)]
           /\ UNCHANGED mapped
        \/ /\ c.initial
           /\ ~laidOut
           /\ client' = recorded
           /\ UNCHANGED mapped
        \/ /\ laidOut
           /\ ArrangeForce(recorded, mapped, firstMap)

\* A client may commit without a buffer at any time, and unmap itself so; to
\* map it needs to have acked a configure, and draws at the size it acked or
\* at its own.
Committable(c) ==
    \/ c.geo = Zero
    \/ c.acked /\ c.geo \in ({c.current.size} \union OwnSizes) \ {None}

\* The client's record when it has acked the k-th configure in flight (0: none).
Acked(c, k) ==
    IF k = 0 THEN c
    ELSE [c EXCEPT !.sent = SubSeq(@, k + 1, Len(@)), !.current = c.sent[k], !.acked = TRUE]

\* The client acks the k-th configure in flight and commits at the size g.
Commit(w, k, g) ==
    /\ life[w] = "alive"
    /\ UNCHANGED <<nested, life, tiles, floating, focused, active, host, changes>>
    /\ \E c \in {[Acked(client[w], k) EXCEPT !.geo = g]} :
          /\ Committable(c)
          /\ OnWindowCommit(w, c)

AnyCommit(w) ==
    \E k \in 0..Len(client[w].sent) :
       \E g \in OwnSizes \union {Zero, Acked(client[w], k).current.size} : Commit(w, k, g)

\* The surface of a toplevel that is gone commits another size before the
\* next cleanup: the layout is redone.
OrphanCommit(w) ==
    /\ Room
    /\ life[w] = "dead"
    /\ w \in ToSet(tiles[active])
    /\ UNCHANGED <<nested, life, tiles, floating, focused, active, host, changes>>
    /\ ArrangeForce(client, mapped, FALSE)

\* The client acks the oldest configure in flight, if any, and draws at the
\* size it has then been given, or as before if it was given none.
CatchUp(w) ==
    LET k == IF client[w].sent = <<>> THEN 0 ELSE 1
        told == Acked(client[w], k).current.size
    IN  Commit(w, k, IF told = None THEN client[w].geo ELSE told)

HandshakeNext ==
    \/ \E w \in Window : NewToplevel(w) \/ Die(w)
    \/ CleanupNothing
    \/ CleanupRemoved
    \/ Refresh
    \/ \E w \in Window \union {None} : Click(w)
    \/ ToggleFloating
    \/ \E ws \in Workspace : MoveFocused(ws) \/ SwitchWorkspace(ws)
    \/ \E h \in Host : HostResize(h)
    \/ \E w \in Window : RequestDecoration(w) \/ AnyCommit(w) \/ OrphanCommit(w)

HandshakeSpec == HandshakeInit /\ [][HandshakeNext]_handshake

\* Clients answer the configures they get and draw accordingly.  The nested
\* backend, which cleans up at each redraw, asks for the next redraw at the end
\* of each one, and the idle callback runs after every dispatch of the loop.
FairHandshake ==
    /\ HandshakeSpec
    /\ \A w \in Window : WF_handshake(CatchUp(w))
    /\ WF_handshake(CleanupNothing \/ CleanupRemoved)
    /\ WF_handshake(Refresh)
-----------------------------------------------------------------------------
(* Properties *)

\* No window has two tiles, one nobody created has none, and what clients are
\* told is of its type.
HandshakeTypes ==
    /\ nested \in BOOLEAN
    /\ life \in [Window -> {"absent", "alive", "dead"}]
    /\ tiles \in [Workspace -> Seq(Window)]
    /\ \A ws \in Workspace :
          /\ Distinct(tiles[ws])
          /\ \A w \in ToSet(tiles[ws]) :
                /\ life[w] # "absent"
                /\ \A other \in Workspace \ {ws} : w \notin ToSet(tiles[other])
    /\ floating \subseteq Window
    /\ focused \in [Workspace -> Window \union {None}]
    /\ active \in Workspace
    /\ mapped \subseteq Window
    /\ host \in Host
    /\ client \in [Window -> Client]
    /\ changes \in 0..MaxChanges

Quiet == \A w \in Window : client[w].sent = <<>>

\* Nothing in flight, and nothing prepared that was not sent.
AtRest == Quiet /\ \A w \in Window : client[w].pending = client[w].current

Tells(w, on) == LastSent(client'[w]).active = on

\* When every client has acked everything, whatever changes the focus (a click
\* on a window or on none, a new window, a cleanup of dead ones, a move, a
\* switch) tells every live window of the workspace then shown whether it is
\* the focused one: none is forgotten.  There are two exceptions: a cleanup
\* that removes no tile tells nobody, and an arrival at a workspace without a
\* focus may leave its windows told that none is (see ArrivalActivates).
FocusFromRest ==
    [][/\ nested /\ AtRest
       /\ focused'[active'] # focused[active] \/ active' # active
       => \/ CleanupNothing
          \/ active' # active /\ focused[active'] = None
          \/ \A w \in ToSet(tiles'[active']) \intersect Alive' :
                Tells(w, w = focused'[active'])]_handshake

\* Clients that take the sizes they ack end up, once nothing changes any more,
\* with the size of their tile on the workspace that is shown, in whatever
\* order resizes, moves in and out of the layout and between workspaces,
\* deaths, switches and acks interleaved; as long as none of them chooses the
\* size of a tile (OwnSizes) by itself.
SizesConverge ==
    \A w \in Window :
        <>[](nested /\ w \in (ToSet(tiles[active]) \ floating) \intersect Alive)
            => <>[](client[w].current.size = Desired(tiles[active], floating, host))

\* No client waits for ever for the configure it needs before it can draw, in
\* either backend: from some point on, every window has had it.
EveryClientConfigured ==
    <>[](\A w \in Alive : client[w].initial)

\* Every window that dies eventually loses its tile, on whatever workspace it
\* is, and leaves the screen: there is always a later point at which nothing is
\* left of any dead window.  Only the nested backend cleans up.
DeadForgotten ==
    []<>(nested => \A w \in Window :
            life[w] = "dead"
                => w \notin mapped /\ \A ws \in Workspace : w \notin ToSet(tiles[ws]))

\* In the end no workspace remembers a dead window as its focus, however often
\* a dying one was focused before the screen and the lists forgot it.
DeadFocusForgotten ==
    <>[](nested => \A ws \in Workspace : focused[ws] \in Alive \union {None})

\* What a client may go on doing that asks for an answer each time.
Unmaps(w) == client[w].geo # Zero /\ client'[w].geo = Zero
Insists(w) == RequestDecoration(w) \/ Unmaps(w)

Told == \E w \in Window : LastSent(client'[w]) # LastSent(client[w])

\* Whatever sizes clients commit, and however they skip configures, the
\* compositor comes to an end of its configures, unless some client goes on for
\* ever asking for a decoration mode or unmapping itself.
ConfiguresEnd ==
    <>[][\A w \in Window : ~Insists(w)]_handshake => <>[][~Told]_handshake

(* What comments of the code say and the code does not do *)

\* "Guarded so we do not configure-loop" (state.rs:479): unless a client unmaps
\* itself for ever, the compositor comes to an end of its configures.
NoConfigureLoop ==
    <>[][\A w \in Window : ~Unmaps(w)]_handshake => <>[][~Told]_handshake

\* "Pushes the Activated xdg state to every active-workspace toplevel"
\* (state.rs:386): when all is acked, the windows agree with the focus.
ActivationSettles ==
    Quiet /\ nested
        => \A w \in ToSet(tiles[active]) \intersect Alive :
              client[w].current.active = (w = focused[active])

\* "re-sends sized configures even when the client already acked the right
\* size - needed once right after first map" (state.rs:411).
FirstMapReasserts ==
    [][\A w \in ToSet(tiles[active]) \ floating :
          /\ nested /\ client[w].initial
          /\ client[w].last \in {None, Zero} /\ client'[w].last \in OwnSizes
          /\ client'[w].current.size = Desired(tiles[active], floating, host)
          => client'[w].sent # <<>>]_handshake

\* A resize says nothing about focus: with all acked and right, the focused
\* window is not told that it is inactive.
ResizeKeepsActivation ==
    [][Quiet /\ ActivationSettles /\ host' # host
          => \A w \in ToSet(tiles[active]) \intersect Alive :
                w = focused[active] => Tells(w, client[w].current.active)]_handshake

\* Focusing a window means "keyboard focus, Activated state" (state.rs:371-372),
\* and arriving at a workspace "nobody focused yet: take the last tile"
\* (state.rs:583): from rest, the window that gets the focus by a switch is told
\* that it is activated.
ArrivalActivates ==
    [][AtRest /\ active' # active /\ focused'[active'] \in ToSet(tiles'[active']) \intersect Alive
          => Tells(focused'[active'], TRUE)]_handshake
=============================================================================
