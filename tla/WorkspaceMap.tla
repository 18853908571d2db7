---------------------------- MODULE WorkspaceMap ----------------------------
(***************************************************************************)
(* What the workspaces promise, without lists, focus or screen: a window   *)
(* opens on the workspace that is shown, is on one workspace at a time,    *)
(* changes it only by being sent away from the shown one, and once closed  *)
(* never comes back.                                                       *)
(***************************************************************************)
EXTENDS Integers

CONSTANTS Window, WorkspaceCount

Workspace == 0..(WorkspaceCount - 1)
Nowhere == -1   \* not opened yet
Gone == -2      \* closed

VARIABLES home, shown
vars == <<home, shown>>

Init ==
    /\ home = [w \in Window |-> Nowhere]
    /\ shown = 0

Open(w) ==
    /\ home[w] = Nowhere
    /\ home' = [home EXCEPT ![w] = shown]
    /\ UNCHANGED shown

Send(w, ws) ==
    /\ home[w] = shown
    /\ ws # shown
    /\ home' = [home EXCEPT ![w] = ws]
    /\ UNCHANGED shown

Close(S) ==
    /\ \A w \in S : home[w] \in Workspace
    /\ home' = [w \in Window |-> IF w \in S THEN Gone ELSE home[w]]
    /\ UNCHANGED shown

Show(ws) ==
    /\ shown' = ws
    /\ UNCHANGED home

ShutDown ==
    /\ home' = [w \in Window |-> Gone]
    /\ shown' = 0

Next ==
    \/ \E w \in Window : Open(w)
    \/ \E w \in Window, ws \in Workspace : Send(w, ws)
    \/ \E S \in SUBSET Window : Close(S)
    \/ \E ws \in Workspace : Show(ws)
    \/ ShutDown

Spec == Init /\ [][Next]_vars
=============================================================================
