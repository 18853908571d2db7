------------------------------ MODULE Keyboard ------------------------------
(***************************************************************************)
(* Key events (katnip/src/input.rs): a press is looked up among the binds  *)
(* and either intercepted, and its action executed, or forwarded to the    *)
(* window with keyboard focus; a release is always forwarded.  Meanwhile   *)
(* the focus moves, by the actions themselves and by pointer and cleanup   *)
(* (module Desktop).                                                       *)
(*                                                                         *)
(* What a client believes to be pressed follows from the wl_keyboard       *)
(* events of smithay: key events go to the focus, losing the focus clears  *)
(* them all, gaining it brings the keys that are down, with or without     *)
(* those that were intercepted.                                            *)
(***************************************************************************)
EXTENDS FiniteSets

CONSTANTS
    Key,        \* physical keys, modifiers included
    Modifier,   \* the keys that are modifiers
    Shift,      \* the one that selects the second level
    Level1,     \* key |-> keysym without Shift
    Level2,     \* key |-> keysym with Shift
    Chords,     \* entries of the keybind table: [mods, key, action]
    Window,
    NoWindow,
    NoAction,
    Refocusing  \* actions that may move the keyboard focus

ASSUME KeysAssumption == Modifier \subseteq Key
ASSUME ChordsAssumption ==
    \A c \in Chords : c.mods \subseteq Modifier /\ c.key \in Key \ Modifier

VARIABLES
    down,       \* keys that are physically down
    forwarded,  \* those of them whose press was not intercepted
    focus,      \* the window with keyboard focus
    view,       \* per window: the keys its client believes to be pressed
    fired,      \* the action executed by the last event
    sent        \* the keys of the events the last step sent to a client

vars == <<down, forwarded, focus, view, fired, sent>>

\* modified_sym: the keysym of a key under the modifiers mods.
ModifiedSym(k, mods) == IF Shift \in mods THEN Level2[k] ELSE Level1[k]

\* ResolvedBinds::lookup.  A key name resolves to the keysym of the unshifted
\* key.
Lookup(mods, sym) ==
    LET hits == {c \in Chords : c.mods = mods /\ Level1[c.key] = sym}
    IN  IF hits = {} THEN NoAction ELSE (CHOOSE c \in hits : TRUE).action

\* wl_keyboard.leave and enter, on a change of focus.
Refocus(w, held, fwd) ==
    /\ focus' = w
    /\ \E ks \in {held, fwd} :
          view' = [v \in Window |-> IF w = focus THEN view[v]
                                    ELSE IF v = w THEN ks ELSE {}]

-----------------------------------------------------------------------------
Init ==
    /\ down = {}
    /\ forwarded = {}
    /\ focus = NoWindow
    /\ view = [w \in Window |-> {}]
    /\ fired = NoAction
    /\ sent = {}

\* A press that some bind intercepts: the action is executed at once.
PressBound(k) ==
    LET held == down \union {k}
        action == Lookup(held \intersect Modifier, ModifiedSym(k, held))
    IN  /\ k \notin down
        /\ action # NoAction
        /\ down' = held
        /\ fired' = action
        /\ sent' = {}
        /\ IF action \in Refocusing
           THEN \E w \in Window \union {NoWindow} : Refocus(w, held, forwarded)
           ELSE UNCHANGED <<focus, view>>
        /\ UNCHANGED forwarded

\* Any other press is forwarded.
PressUnbound(k) ==
    LET held == down \union {k}
    IN  /\ k \notin down
        /\ Lookup(held \intersect Modifier, ModifiedSym(k, held)) = NoAction
        /\ down' = held
        /\ forwarded' = forwarded \union {k}
        /\ fired' = NoAction
        /\ sent' = IF focus = NoWindow THEN {} ELSE {k}
        /\ view' = [w \in Window |-> IF w = focus THEN view[w] \union {k} ELSE view[w]]
        /\ UNCHANGED focus

\* Mutation: the release of an intercepted key is consumed like its press.
ReleaseOfForwarded(k) ==
    /\ k \in down
    /\ down' = down \ {k}
    /\ forwarded' = forwarded \ {k}
    /\ fired' = NoAction
    /\ sent' = IF focus = NoWindow \/ k \notin forwarded THEN {} ELSE {k}
    /\ view' = [w \in Window |-> IF w = focus THEN view[w] \ sent' ELSE view[w]]
    /\ UNCHANGED focus

\* A release is forwarded, whatever became of the press.
Release(k) ==
    /\ k \in down
    /\ down' = down \ {k}
    /\ forwarded' = forwarded \ {k}
    /\ fired' = NoAction
    /\ sent' = IF focus = NoWindow THEN {} ELSE {k}
    /\ view' = [w \in Window |-> IF w = focus THEN view[w] \ {k} ELSE view[w]]
    /\ UNCHANGED focus

\* The focus is moved by a click, an IPC command or a cleanup.
FocusMoves(w) ==
    /\ w # focus
    /\ Refocus(w, down, forwarded)
    /\ fired' = NoAction
    /\ sent' = {}
    /\ UNCHANGED <<down, forwarded>>

Next ==
    \/ \E k \in Key : PressBound(k) \/ PressUnbound(k) \/ Release(k)
    \/ \E w \in Window \union {NoWindow} : FocusMoves(w)

Spec == Init /\ [][Next]_vars
-----------------------------------------------------------------------------
(* Properties *)

\* No client is left with a stuck key: what it believes to be pressed is
\* physically down, however actions, clicks and cleanups moved the focus
\* between a press and its release, and a client without focus believes
\* nothing.  Nor does the focus miss a key that was meant for it.
ClientsSeeTheKeys ==
    \A w \in Window :
        /\ view[w] \subseteq IF w = focus THEN down ELSE {}
        /\ w = focus => forwarded \subseteq view[w]

(* What comments and docs say and the code does not do *)

\* "Bound keys are consumed (never forwarded to clients)" (input.rs:54).
BoundKeysConsumed ==
    [][sent' \intersect (down \ forwarded) = {}]_vars

\* The README promises SUPER+SHIFT+1..9,0, SUPER+SHIFT+T and SUPER+SHIFT+E
\* (README.md:96-102): pressing the key of a chord with just its modifiers
\* held fires its action.
ChordsFire ==
    [][\A c \in Chords :
          /\ down \intersect Modifier = c.mods
          /\ down' = down \union {c.key}
          /\ c.key \notin down
          => fired' = c.action]_vars
=============================================================================
