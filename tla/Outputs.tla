------------------------------ MODULE Outputs ------------------------------
(***************************************************************************)
(* Connector hotplug of the DRM backend (katnip/src/hardware_mode.rs): the *)
(* connector -> CRTC bookkeeping of the one GPU, the outputs mapped in the *)
(* space, and the scans that udev events trigger.                          *)
(*                                                                         *)
(* A scan is one call of scan_device on the event-loop thread.  It first   *)
(* asks the kernel for each connector in turn, then looks at the connected *)
(* ones in turn, and then destroys what it has not seen: the cables may    *)
(* move between any two of these steps, but no other handler runs.  The    *)
(* environment makes at most MaxMoves moves.                               *)
(***************************************************************************)
EXTENDS Integers, Sequences, FiniteSets, SequencesExt, Lists

CONSTANTS
    Connectors,     \* the connectors, in the order of the DRM resources
    Crtc,           \* the CRTCs
    PossibleCrtcs,  \* connector |-> CRTCs its encoders can be driven by
    None,           \* no CRTC, no connector
    Widths,         \* widths of the modes of the monitors
    NodeKinds,      \* values of "the primary node is the one udev names"
    CreationFails,  \* values of "creating this output fails" to consider
    MaxMoves        \* bound: moves of the environment

Connector == ToSet(Connectors)

ASSUME ConnectorsAssumption == Connectors \in Seq(Connector) /\ IsInjective(Connectors)
ASSUME CrtcAssumption ==
    /\ None \notin Crtc \union Connector
    /\ PossibleCrtcs \in [Connector -> SUBSET Crtc]
ASSUME WidthsAssumption == Widths # {} /\ Widths \subseteq Nat \ {0}
ASSUME FlagsAssumption ==
    /\ NodeKinds \subseteq BOOLEAN /\ NodeKinds # {}
    /\ CreationFails \subseteq BOOLEAN /\ CreationFails # {}
ASSUME MaxMovesAssumption == MaxMoves \in Nat

VARIABLES
    card,      \* the primary node is a card node, which udev events name
    plugged,   \* environment: connectors with a monitor
    present,   \* environment: the GPU is there
    stale,     \* the open device belongs to a GPU that has been removed
    moves,     \* moves of the environment so far
    events,    \* udev events not yet handled
    known,     \* DeviceCtx.known: connector |-> CRTC
    surfaces,  \* DeviceCtx.surfaces: CRTC |-> connector of its output
    space,     \* outputs mapped in the space, in the order of their creation
    ask,       \* connectors the scan has still to ask the kernel for
    todo,      \* connected ones it has still to look at
    seen,      \* connectors the scan has found a CRTC for
    scanning   \* a scan is running

vars == <<card, plugged, present, stale, moves, events, known, surfaces, space, ask, todo,
          seen, scanning>>

book == <<known, surfaces, space>>

TotalWidth(s) == Total([i \in DOMAIN s |-> s[i].w])

Init ==
    /\ card \in NodeKinds
    /\ plugged \in SUBSET Connector
    /\ present = TRUE
    /\ stale = FALSE
    /\ moves = 0
    /\ events = <<>>
    /\ known = [c \in Connector |-> None]
    /\ surfaces = [k \in Crtc |-> None]
    /\ space = <<>>
    /\ ask = Connectors
    /\ todo = <<>>
    /\ seen = {}
    /\ scanning = TRUE

-----------------------------------------------------------------------------
(* The environment *)

Plug(c) ==
    /\ moves < MaxMoves
    /\ present
    /\ c \notin plugged
    /\ plugged' = plugged \union {c}
    /\ events' = Append(events, "changed")
    /\ moves' = moves + 1
    /\ UNCHANGED <<card, present, stale, book, ask, todo, seen, scanning>>

Unplug(c) ==
    /\ moves < MaxMoves
    /\ present
    /\ c \in plugged
    /\ plugged' = plugged \ {c}
    /\ events' = Append(events, "changed")
    /\ moves' = moves + 1
    /\ UNCHANGED <<card, present, stale, book, ask, todo, seen, scanning>>

\* The GPU goes (a dock, a driver reload): the open device is dead for good.
RemoveGpu ==
    /\ moves < MaxMoves
    /\ present
    /\ present' = FALSE
    /\ stale' = TRUE
    /\ events' = Append(events, "removed")
    /\ moves' = moves + 1
    /\ UNCHANGED <<card, plugged, book, ask, todo, seen, scanning>>

AddGpu ==
    /\ moves < MaxMoves
    /\ ~present
    /\ present' = TRUE
    /\ events' = Append(events, "added")
    /\ moves' = moves + 1
    /\ UNCHANGED <<card, plugged, stale, book, ask, todo, seen, scanning>>

-----------------------------------------------------------------------------
(* udev events *)

\* Events of another node than the primary one are only logged.  The primary
\* node is a render node when select_primary_gpu finds one, and udev events
\* name the card node.
IgnoreEvent ==
    /\ ~scanning
    /\ events # <<>>
    /\ ~card
    /\ events' = Tail(events)
    /\ UNCHANGED <<card, plugged, present, stale, moves, book, ask, todo, seen, scanning>>

\* Removed is only logged.
GpuRemoved ==
    /\ ~scanning
    /\ events # <<>>
    /\ card
    /\ Head(events) = "removed"
    /\ events' = Tail(events)
    /\ UNCHANGED <<card, plugged, present, stale, moves, book, ask, todo, seen, scanning>>

\* Added and Changed scan the device.  reopen_gpu_if_needed does nothing: the
\* map of open GPUs has the node from the start and never loses it, so a
\* stale device stays; listing its resources fails and ends the scan.
DeviceChanged ==
    /\ ~scanning
    /\ events # <<>>
    /\ card
    /\ Head(events) \in {"added", "changed"}
    /\ events' = Tail(events)
    /\ IF stale
       THEN UNCHANGED <<ask, todo, scanning>>
       ELSE ask' = Connectors /\ todo' = <<>> /\ scanning' = TRUE
    /\ seen' = {}
    /\ UNCHANGED <<card, plugged, present, stale, moves, book>>

(* The scan *)

\* Mutation: the first connector without a monitor ends the list.
AskWhileConnected ==
    /\ scanning
    /\ ask # <<>>
    /\ IF Head(ask) \in plugged /\ ~stale
       THEN ask' = Tail(ask) /\ todo' = Append(todo, Head(ask))
       ELSE ask' = <<>> /\ todo' = todo
    /\ UNCHANGED <<card, plugged, present, stale, moves, events, book, seen, scanning>>

\* get_connector, which fails for a GPU that is gone; only connectors that are
\* connected are gone on with.
AskConnector ==
    /\ scanning
    /\ ask # <<>>
    /\ ask' = Tail(ask)
    /\ todo' = IF Head(ask) \in plugged /\ ~stale THEN Append(todo, Head(ask)) ELSE todo
    /\ UNCHANGED <<card, plugged, present, stale, moves, events, book, seen, scanning>>

\* Mutation: no CRTC counts as used.
NoneUsed(c) == {}

\* used_crtcs, asked to leave out connector c; the CRTCs of all surfaces,
\* those of c among them, are added all the same.
UsedCrtcs(c) ==
    ({known[d] : d \in Connector \ {c}} \ {None})
        \union {k \in Crtc : surfaces[k] # None}

\* find_free_crtc; the encoders of a GPU that is gone cannot be read.
FreeCrtcs(c) == IF stale THEN {} ELSE PossibleCrtcs[c] \ UsedCrtcs(c)

\* No free CRTC: the connector is not marked as seen.
NoFreeCrtc ==
    /\ scanning
    /\ ask = <<>>
    /\ todo # <<>>
    /\ FreeCrtcs(Head(todo)) = {}
    /\ todo' = Tail(todo)
    /\ UNCHANGED <<card, plugged, present, stale, moves, events, book, ask, seen, scanning>>

\* Mutation: only new outputs are marked as seen.
StillLiveUnseen ==
    /\ scanning
    /\ ask = <<>>
    /\ todo # <<>>
    /\ FreeCrtcs(Head(todo)) # {}
    /\ known[Head(todo)] # None
    /\ todo' = Tail(todo)
    /\ UNCHANGED <<card, plugged, present, stale, moves, events, book, ask, seen, scanning>>

\* A live output stays as it is; the CRTC found for it is dropped.
StillLive ==
    /\ scanning
    /\ ask = <<>>
    /\ todo # <<>>
    /\ FreeCrtcs(Head(todo)) # {}
    /\ known[Head(todo)] # None
    /\ seen' = seen \union {Head(todo)}
    /\ todo' = Tail(todo)
    /\ UNCHANGED <<card, plugged, present, stale, moves, events, book, ask, scanning>>

\* The new output goes to the right of the summed widths of all the others.
Mapped(c, w, lit) ==
    Append(space, [conn |-> c, x |-> TotalWidth(space), w |-> w, lit |-> lit])

\* create_output.  When the surface or its compositor cannot be made, the
\* output is already in the space and is left there.
CreateOutput(k, w, fails) ==
    LET c == Head(todo)
    IN  /\ scanning
        /\ ask = <<>>
        /\ todo # <<>>
        /\ k \in FreeCrtcs(c)
        /\ known[c] = None
        /\ seen' = seen \union {c}
        /\ todo' = Tail(todo)
        /\ space' = Mapped(c, w, ~fails)
        /\ IF fails
           THEN UNCHANGED <<known, surfaces>>
           ELSE /\ known' = [known EXCEPT ![c] = k]
                /\ surfaces' = [surfaces EXCEPT ![k] = c]
        /\ UNCHANGED <<card, plugged, present, stale, moves, events, ask, scanning>>

\* A connector without modes: seen, but nothing is made of it.
NoModes ==
    /\ scanning
    /\ ask = <<>>
    /\ todo # <<>>
    /\ TRUE \in CreationFails
    /\ FreeCrtcs(Head(todo)) # {}
    /\ known[Head(todo)] = None
    /\ seen' = seen \union {Head(todo)}
    /\ todo' = Tail(todo)
    /\ UNCHANGED <<card, plugged, present, stale, moves, events, book, ask, scanning>>

\* Mutation: nothing is disconnected.
GoneNever == {}

Gone == {c \in Connector : known[c] # None /\ c \notin seen}

\* The space without the lit outputs of the connectors cs.
SpaceWithout(cs) == Retain(space, {o \in ToSet(space) : ~(o.lit /\ o.conn \in cs)})

\* The end of the scan: destroy_output for every output not seen.
DestroyGone ==
    /\ scanning
    /\ ask = <<>>
    /\ todo = <<>>
    /\ known' = [c \in Connector |-> IF c \in Gone THEN None ELSE known[c]]
    /\ surfaces' = [k \in Crtc |-> IF surfaces[k] \in Gone THEN None ELSE surfaces[k]]
    /\ space' = SpaceWithout(Gone)
    /\ scanning' = FALSE
    /\ UNCHANGED <<card, plugged, present, stale, moves, events, ask, todo, seen>>

Environment ==
    \/ \E c \in Connector : Plug(c) \/ Unplug(c)
    \/ RemoveGpu
    \/ AddGpu

Loop ==
    \/ IgnoreEvent
    \/ GpuRemoved
    \/ DeviceChanged
    \/ AskConnector
    \/ NoFreeCrtc
    \/ StillLive
    \/ \E k \in Crtc, w \in Widths, fails \in CreationFails : CreateOutput(k, w, fails)
    \/ NoModes
    \/ DestroyGone

Next == Environment \/ Loop

Spec == Init /\ [][Next]_vars

\* The event loop dispatches udev events and never stays inside a scan.
FairSpec == Spec /\ WF_vars(Loop)
-----------------------------------------------------------------------------
(* Properties *)

TypeOK ==
    /\ card \in BOOLEAN
    /\ plugged \subseteq Connector
    /\ present \in BOOLEAN /\ stale \in BOOLEAN /\ scanning \in BOOLEAN
    /\ moves \in 0..MaxMoves
    /\ events \in Seq({"added", "changed", "removed"})
    /\ known \in [Connector -> Crtc \union {None}]
    /\ surfaces \in [Crtc -> Connector \union {None}]
    /\ space \in Seq([conn : Connector, x : Nat, w : Widths, lit : BOOLEAN])
    /\ ask \in Seq(Connector)
    /\ todo \in Seq(Connector)
    /\ seen \subseteq Connector

\* The two maps stay inverse of each other: no CRTC ever drives two outputs,
\* and no output is left rendering after its connector is forgotten.
MapsAgree ==
    \A c \in Connector, k \in Crtc : known[c] = k <=> surfaces[k] = c

\* Every output that is rendered is mapped in the space exactly once, and
\* nothing else that is mapped claims to be rendered, whatever failed before.
LitOutputsMapped ==
    \A c \in Connector :
        Cardinality({i \in DOMAIN space : space[i].lit /\ space[i].conn = c})
            = IF known[c] = None THEN 0 ELSE 1

\* What the compositor believes of its outputs agrees, at every point of every
\* scan: the CRTC map, the map of connectors and the space.
OutputsInv == TypeOK /\ MapsAgree /\ LitOutputsMapped

CablesMoved == \E i \in DOMAIN events : events[i] = "changed"

\* The CRTCs that drive an output; no scan finds one of them free, not even for
\* the connector it drives.
Driving == {k \in Crtc : surfaces[k] # None}

\* "Disconnect anything no longer seen" (hardware_mode.rs:496): a scan never
\* disconnects an output whose monitor is plugged in all through the scan,
\* unless the GPU goes.
PluggedStaysLit ==
    [][\A c \in Connector :
          known[c] # None /\ known'[c] = None
              => stale \/ c \notin plugged \/ CablesMoved]_vars

\* With any number of CRTCs (find_free_crtc, hardware_mode.rs:535-558): what a scan
\* disconnects has lost its monitor or its GPU, a cable has moved that the next scan
\* will see, or every CRTC its encoders can use drives an output already.
OnlyDroppedForCause ==
    [][\A c \in Connector :
          known[c] # None /\ known'[c] = None
              => \/ stale \/ c \notin plugged \/ CablesMoved
                 \/ PossibleCrtcs[c] \subseteq Driving]_vars

Overlap(o, p) == o.x < p.x + p.w /\ p.x < o.x + o.w

\* "Place outputs side-by-side" (hardware_mode.rs:593).
SideBySide ==
    \A i, j \in DOMAIN space : i # j => ~Overlap(space[i], space[j])

Lit(c) == known[c] # None

\* The last scan looked at c and could not make an output of it.
CreationFailed(c) == c \in seen /\ known[c] = None

\* "hotplug diffing" (hardware_mode.rs:426): when a scan ends and no cable has moved
\* meanwhile, each monitor is lit, or its output could not be made, or it was passed
\* over for want of a CRTC; and nothing else is lit.
ScanLights ==
    [][scanning /\ ~scanning' /\ ~stale /\ ~CablesMoved =>
          \A c \in Connector :
              IF c \in plugged
              THEN \/ known'[c] # None
                   \/ CreationFailed(c)
                   \/ PossibleCrtcs[c] \subseteq Driving
              ELSE known'[c] = None]_vars

\* A scan counts the CRTC that drives a connector as used for that connector
\* too, so only one with more possible CRTCs than there are outputs is sure to
\* find another.
NeverShort(c) == Cardinality(PossibleCrtcs[c]) > Cardinality(Connector)

\* "hotplug diffing" (hardware_mode.rs:426): once the cables stay as they are,
\* no connector without a monitor is lit, and each one with a monitor is that
\* is never short of CRTCs and of which an output could be made; as long as the
\* GPU stays and udev names the primary node.
HotplugFollowed ==
    card => \A c \in Connector :
        /\ NeverShort(c)
             => (<>[](c \in plugged /\ ~stale /\ ~CreationFailed(c)) => <>[]Lit(c))
        /\ <>[](c \notin plugged /\ ~stale) => <>[](~Lit(c))

\* "primary GPU removed; running headless until replug" (hardware_mode.rs:352):
\* with the GPU back for good, its device is opened again.
ReplugReopens == <>[]present => <>[](~stale)
=============================================================================
