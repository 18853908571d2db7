--------------------------- MODULE DesktopProofs ---------------------------
(***************************************************************************)
(* Proofs about Desktop, for any number of windows and workspaces and any  *)
(* behaviour of the layout: types, one tile per window, no live window     *)
(* lost, the refinement of WorkspaceMap, and what is on the screen and in  *)
(* the pending states of the toplevels.                                    *)
(***************************************************************************)
EXTENDS Desktop, ListProofs, SequenceTheorems

-----------------------------------------------------------------------------
(* The list operations of the handlers *)

\* Appending adds the window, and duplicates nothing if it was not there.
LEMMA AppendElements ==
    ASSUME NEW T, NEW s \in Seq(T), NEW w \in T
    PROVE  /\ Append(s, w) \in Seq(T)
           /\ ToSet(Append(s, w)) = ToSet(s) \union {w}
           /\ Distinct(s) /\ w \notin ToSet(s) => Distinct(Append(s, w))
<1> DEFINE a == Append(s, w)
<1>1. /\ a \in Seq(T) /\ Len(a) = Len(s) + 1 /\ Len(s) \in Nat
      /\ \A i \in 1..Len(s) : a[i] = s[i]
      /\ a[Len(s) + 1] = w
      /\ DOMAIN a = 1..(Len(s) + 1) /\ DOMAIN s = 1..Len(s)
  OBVIOUS
<1>2. ToSet(a) = ToSet(s) \union {w}
  BY <1>1 DEF ToSet
<1>3. ASSUME Distinct(s), w \notin ToSet(s) PROVE Distinct(a)
  BY <1>1, <1>3 DEF Distinct, ToSet
<1>4. QED
  BY <1>1, <1>2, <1>3

\* Vec::remove, position by position.
LEMMA RemoveAtElements ==
    ASSUME NEW T, NEW s \in Seq(T), NEW p \in 1..Len(s)
    PROVE  /\ RemoveAt(s, p) \in Seq(T)
           /\ DOMAIN RemoveAt(s, p) = 1..(Len(s) - 1)
           /\ \A i \in 1..(Len(s) - 1) :
                 RemoveAt(s, p)[i] = IF i < p THEN s[i] ELSE s[i + 1]
<1> DEFINE a == SubSeq(s, 1, p - 1)
           b == SubSeq(s, p + 1, Len(s))
<1>1. Len(s) \in Nat /\ p \in Nat /\ p >= 1 /\ p <= Len(s)
  OBVIOUS
<1>2. a \in Seq(T) /\ Len(a) = p - 1 /\ \A i \in 1..(p - 1) : a[i] = s[i]
  BY <1>1
<1>3. b \in Seq(T) /\ Len(b) = Len(s) - p
      /\ \A i \in 1..(Len(s) - p) : b[i] = s[p + i]
  BY <1>1
<1>4. RemoveAt(s, p) = a \o b
  BY DEF RemoveAt
<1> HIDE DEF a, b
<1>5. /\ a \o b \in Seq(T)
      /\ Len(a \o b) = Len(s) - 1
      /\ \A i \in 1..(Len(s) - 1) :
            (a \o b)[i] = IF i <= p - 1 THEN a[i] ELSE b[i - (p - 1)]
  <2>1. /\ a \o b \in Seq(T)
        /\ Len(a \o b) = Len(a) + Len(b)
        /\ \A i \in 1..(Len(a) + Len(b)) :
              (a \o b)[i] = IF i <= Len(a) THEN a[i] ELSE b[i - Len(a)]
    BY <1>2, <1>3, ConcatProperties
  <2>2. Len(a) + Len(b) = Len(s) - 1
    BY <1>1, <1>2, <1>3
  <2>3. QED
    BY <2>1, <2>2, <1>2
<1>6. ASSUME NEW i \in 1..(Len(s) - 1)
      PROVE  (a \o b)[i] = IF i < p THEN s[i] ELSE s[i + 1]
  <2>1. CASE i < p
    BY <2>1, <1>1, <1>2, <1>5
  <2>2. CASE ~(i < p)
    <3>1. i - (p - 1) \in 1..(Len(s) - p) /\ p + (i - (p - 1)) = i + 1
      BY <2>2, <1>1
    <3>2. b[i - (p - 1)] = s[i + 1]
      BY <3>1, <1>3
    <3>3. QED
      BY <2>2, <3>2, <1>1, <1>5
  <2>3. QED
    BY <2>1, <2>2
<1>7. DOMAIN (a \o b) = 1..(Len(s) - 1)
  BY <1>5
<1>8. QED
  BY <1>4, <1>5, <1>6, <1>7

\* Removing the tile of w removes w and nothing else.
LEMMA RemovedElements ==
    ASSUME NEW T, NEW s \in Seq(T), NEW w \in ToSet(s)
    PROVE  /\ Removed(s, w) \in Seq(T)
           /\ Distinct(s) => /\ ToSet(Removed(s, w)) = ToSet(s) \ {w}
                             /\ Distinct(Removed(s, w))
<1>1. PICK p \in 1..Len(s) : s[p] = w /\ Removed(s, w) = RemoveAt(s, p)
  <2> DEFINE q == CHOOSE i \in DOMAIN s : s[i] = w
  <2>1. q \in DOMAIN s /\ s[q] = w
    BY DEF ToSet
  <2>2. Removed(s, w) = RemoveAt(s, q)
    BY DEF Removed
  <2> HIDE DEF q
  <2>3. QED
    BY <2>1, <2>2
<1> DEFINE r == Removed(s, w)
<1>2. /\ r \in Seq(T)
      /\ DOMAIN r = 1..(Len(s) - 1)
      /\ \A i \in 1..(Len(s) - 1) : r[i] = IF i < p THEN s[i] ELSE s[i + 1]
  BY <1>1, RemoveAtElements
<1>3. Len(s) \in Nat /\ p \in Nat /\ p >= 1 /\ p <= Len(s) /\ DOMAIN s = 1..Len(s)
  OBVIOUS
<1> HIDE DEF r
<1>4. ASSUME Distinct(s), NEW x \in ToSet(r) PROVE x \in ToSet(s) \ {w}
  <2>1. PICK i \in 1..(Len(s) - 1) : x = r[i]
    BY <1>2 DEF ToSet
  <2>2. PICK j \in 1..Len(s) : x = s[j] /\ j # p
    <3>1. CASE i < p
      BY <3>1, <2>1, <1>2, <1>3
    <3>2. CASE ~(i < p)
      <4>1. i + 1 \in 1..Len(s) /\ i + 1 # p /\ x = s[i + 1]
        BY <3>2, <2>1, <1>2, <1>3
      <4>2. QED
        BY <4>1
    <3>3. QED
      BY <3>1, <3>2
  <2>3. QED
    BY <2>2, <1>1, <1>3, <1>4 DEF ToSet, Distinct
<1>5. ASSUME NEW x \in ToSet(s) \ {w} PROVE x \in ToSet(r)
  <2>1. PICK j \in 1..Len(s) : x = s[j]
    BY DEF ToSet
  <2>2. j # p
    BY <2>1, <1>1
  <2>3. CASE j < p
    <3>1. j \in 1..(Len(s) - 1) /\ r[j] = s[j]
      BY <2>3, <1>2, <1>3
    <3>2. QED
      BY <3>1, <2>1, <1>2 DEF ToSet
  <2>4. CASE j > p
    <3>1. j - 1 \in 1..(Len(s) - 1) /\ ~(j - 1 < p) /\ (j - 1) + 1 = j
      BY <2>4, <1>3
    <3>2. r[j - 1] = s[j]
      BY <3>1, <1>2
    <3>3. QED
      BY <3>1, <3>2, <2>1, <1>2 DEF ToSet
  <2>5. QED
    BY <2>2, <2>3, <2>4, <1>3
<1>6. ASSUME Distinct(s) PROVE Distinct(r)
  <2>1. SUFFICES ASSUME NEW i \in 1..(Len(s) - 1), NEW j \in 1..(Len(s) - 1),
                        r[i] = r[j]
                 PROVE  i = j
    BY <1>2 DEF Distinct
  <2> DEFINE at(n) == IF n < p THEN n ELSE n + 1
  <2>2. \A n \in 1..(Len(s) - 1) : at(n) \in DOMAIN s /\ r[n] = s[at(n)]
    BY <1>2, <1>3
  <2>3. at(i) = at(j)
    BY <2>1, <2>2, <1>6 DEF Distinct
  <2>4. QED
    BY <2>3, <1>3
<1>7. QED
  BY <1>2, <1>4, <1>5, <1>6 DEF r

\* Redoing the layout maps windows, whatever the layout returns.
LEMMA ArrangedType ==
    ASSUME NEW st \in Seq(Window), NEW ts \in Seq(Window), NEW fl, NEW rc
    PROVE  Arranged(st, ts, fl, rc) \in Seq(Window)
<1>1. \A S : Retain(st, S) \in Seq(Window) /\ Retain(ts, S) \in Seq(Window)
  BY RetainElements
<1>2. QED
  BY <1>1 DEF Arranged

\* The layout keeps the types of what is on screen.
LEMMA ArrangeForceType ==
    ASSUME NEW st \in Seq(Window), NEW ts \in Seq(Window), NEW fl, NEW rc,
           ArrangeForce(st, ts, fl, rc)
    PROVE  stack' \in Seq(Window)
BY ArrangedType DEF ArrangeForce

\* A non-empty list of windows ends in a window.
LEMMA LastOrNoneType ==
    ASSUME NEW ts \in Seq(Window)
    PROVE  LastOrNone(ts) \in Window \union {NoWindow}
<1>1. CASE ts = <<>>
  BY <1>1 DEF LastOrNone
<1>2. CASE ts # <<>>
  <2>1. Len(ts) \in 1..Len(ts)
    BY <1>2
  <2>2. QED
    BY <1>2, <2>1 DEF LastOrNone, Last
<1>3. QED
  BY <1>1, <1>2

-----------------------------------------------------------------------------
(* Types *)

\* Dropping the tiles of dead windows keeps the types.
LEMMA TilesAliveType ==
    ASSUME TypeOK
    PROVE  TilesAlive \in [Workspace -> Seq(Window)]
BY RetainElements DEF TypeOK, TilesAlive

\* Clearing the focus on dead windows keeps the types.
LEMMA FocusAliveType ==
    FocusAlive \in [Workspace -> Window \union {NoWindow}]
BY DEF FocusAlive, Alive

\* Every step keeps the types.
LEMMA TypeOKStep == TypeOK /\ [Next]_vars => TypeOK'
<1> SUFFICES ASSUME TypeOK, [Next]_vars PROVE TypeOK'
  OBVIOUS
<1> USE DEF TypeOK
<1>1. ASSUME NEW w \in Window, NewToplevel(w) PROVE TypeOK'
  <2>1. tiles' \in [Workspace -> Seq(Window)]
    BY <1>1 DEF NewToplevel
  <2>2. stack' \in Seq(Window)
    BY <1>1, <2>1, ArrangeForceType DEF NewToplevel
  <2>3. QED
    BY <1>1, <2>1, <2>2 DEF NewToplevel
<1>2. ASSUME NEW w \in Window, Commit(w) PROVE TypeOK'
  BY <1>2, ArrangeForceType DEF Commit
<1>3. ASSUME NEW w \in Window, Die(w) PROVE TypeOK'
  BY <1>3 DEF Die
<1>4. CASE Redraw
  <2>1. CASE CleanupNothing
    BY <1>4, <2>1, FocusAliveType DEF Redraw, CleanupNothing
  <2>2. CASE CleanupRemoved
    <3>1. tiles' \in [Workspace -> Seq(Window)]
      BY <2>2, TilesAliveType DEF CleanupRemoved
    <3>2. TilesAlive[active] \in Seq(Window)
      BY TilesAliveType
    <3>3. stack' \in Seq(Window)
      BY <2>2, <3>2, ArrangeForceType DEF CleanupRemoved
    <3>4. /\ focused' \in [Workspace -> Window \union {NoWindow}]
          /\ keyboard' \in Window \union {NoWindow}
      BY <2>2, <3>2, LastOrNoneType, FocusAliveType DEF CleanupRemoved
    <3>5. floating' \subseteq Window
      BY <2>2 DEF CleanupRemoved
    <3>6. QED
      BY <1>4, <3>1, <3>3, <3>4, <3>5 DEF Redraw
  <2>3. QED
    BY <1>4, <2>1, <2>2 DEF Redraw
<1>5. CASE Refresh
  BY <1>5, RetainElements DEF Refresh
<1>6. ASSUME NEW rc \in RectCounts, HostResize(rc) PROVE TypeOK'
  BY <1>6, ArrangeForceType DEF HostResize
<1>7. ASSUME NEW w \in Window \union {NoWindow}, PointerPress(w) PROVE TypeOK'
  BY <1>7 DEF PointerPress, FocusWindow
<1>8. ASSUME NEW idx \in Workspace, SwitchWorkspace(idx) PROVE TypeOK'
  <2>1. Unmapped(stack, tiles[active]) \in Seq(Window)
    BY RetainElements DEF Unmapped
  <2>2. stack' \in Seq(Window)
    BY <1>8, <2>1, ArrangeForceType DEF SwitchWorkspace
  <2>3. ArrivalFocus(idx) \in Window \union {NoWindow}
    BY LastOrNoneType DEF ArrivalFocus
  <2>4. QED
    BY <1>8, <2>2, <2>3 DEF SwitchWorkspace
<1>9. ASSUME NEW idx \in Workspace, MoveFocused(idx) PROVE TypeOK'
  <2> DEFINE w == focused[active]
             source == Removed(tiles[active], w)
  <2>1. w \in ToSet(tiles[active]) /\ tiles[active] \in Seq(Window)
    BY <1>9 DEF MoveFocused
  <2>2. w \in Window
    BY <2>1 DEF ToSet
  <2>3. source \in Seq(Window)
    BY <2>1, RemovedElements
  <2>4. tiles' \in [Workspace -> Seq(Window)]
    <3>1. Append(tiles[idx], w) \in Seq(Window)
      BY <2>2
    <3>2. tiles' = [tiles EXCEPT ![active] = source, ![idx] = Append(tiles[idx], w)]
      BY <1>9 DEF MoveFocused
    <3> HIDE DEF source, w
    <3>3. QED
      BY <2>3, <3>1, <3>2
  <2>5. stack' \in Seq(Window)
    BY <1>9, <2>3, ArrangeForceType DEF MoveFocused
  <2>6. QED
    BY <1>9, <2>4, <2>5 DEF MoveFocused
<1>10. CASE Float
  <2>1. focused[active] \in Window
    BY <1>10 DEF Float, ToSet
  <2>2. stack' \in Seq(Window)
    BY <1>10, ArrangeForceType DEF Float
  <2>3. QED
    BY <1>10, <2>1, <2>2 DEF Float
<1>11. CASE Unfloat
  <2> DEFINE w == focused[active]
             source == Removed(tiles[active], w)
             order == Append(source, w)
  <2>1. w \in ToSet(tiles[active]) /\ tiles[active] \in Seq(Window)
    BY <1>11 DEF Unfloat
  <2>2. w \in Window
    BY <2>1 DEF ToSet
  <2>3. source \in Seq(Window)
    BY <2>1, RemovedElements
  <2>4. order \in Seq(Window)
    BY <2>2, <2>3
  <2>5. stack' \in Seq(Window)
    BY <1>11, <2>4, ArrangeForceType DEF Unfloat
  <2>6. tiles' \in [Workspace -> Seq(Window)]
    BY <1>11, <2>4 DEF Unfloat
  <2>7. QED
    BY <1>11, <2>5, <2>6 DEF Unfloat
<1>12. CASE Quit
  <2>1. active' \in Workspace
    BY <1>12, WorkspaceAssumption DEF Quit, Workspace
  <2>2. tiles' \in [Workspace -> Seq(Window)] /\ stack' \in Seq(Window)
    BY <1>12 DEF Quit
  <2>3. QED
    BY <1>12, <2>1, <2>2 DEF Quit
<1>13. CASE UNCHANGED vars
  BY <1>13 DEF vars
<1>14. QED
  BY <1>1, <1>2, <1>3, <1>4, <1>5, <1>6, <1>7, <1>8, <1>9, <1>10, <1>11,
     <1>12, <1>13 DEF Next

\* Every variable keeps its type, for any windows, workspaces and layout.
THEOREM TypeCorrect == Spec => []TypeOK
<1>1. Init => TypeOK
  BY WorkspaceAssumption DEF Init, TypeOK, Workspace
<1>2. QED
  BY <1>1, TypeOKStep, PTL DEF Spec

-----------------------------------------------------------------------------
(* One tile per window, and no live window without one *)

\* A window is tracked when some workspace has a tile of it.
LEMMA TrackedMember ==
    ASSUME NEW w
    PROVE  w \in Tracked <=> \E ws \in Workspace : w \in ToSet(tiles[ws])
BY DEF Tracked

\* The tiles after each handler that changes them.
LEMMA NewToplevelTiles ==
    ASSUME DesktopInv, NEW w \in Window, NewToplevel(w), NEW ws \in Workspace
    PROVE  /\ Distinct(tiles'[ws])
           /\ ToSet(tiles'[ws]) = IF ws = active THEN ToSet(tiles[ws]) \union {w}
                                  ELSE ToSet(tiles[ws])
<1>1. w \notin ToSet(tiles[ws])
  BY TrackedMember DEF DesktopInv, FreshUntracked, NewToplevel
<1>2. tiles[ws] \in Seq(Window) /\ Distinct(tiles[ws])
  BY DEF DesktopInv, TypeOK, TiledOnce
<1>3. tiles'[ws] = IF ws = active THEN Append(tiles[ws], w) ELSE tiles[ws]
  BY DEF DesktopInv, TypeOK, NewToplevel
<1>4. /\ ToSet(Append(tiles[ws], w)) = ToSet(tiles[ws]) \union {w}
      /\ Distinct(Append(tiles[ws], w))
  BY <1>1, <1>2, AppendElements
<1>5. CASE ws = active
  BY <1>3, <1>4, <1>5
<1>6. CASE ws # active
  BY <1>2, <1>3, <1>6
<1>7. QED
  BY <1>5, <1>6

\* After a cleanup each list has the tiles of its live windows, each once.
LEMMA CleanupTiles ==
    ASSUME DesktopInv, CleanupRemoved, NEW ws \in Workspace
    PROVE  /\ Distinct(tiles'[ws])
           /\ ToSet(tiles'[ws]) = ToSet(tiles[ws]) \intersect Alive
<1>1. tiles[ws] \in Seq(Window) /\ Distinct(tiles[ws])
  BY DEF DesktopInv, TypeOK, TiledOnce
<1>2. tiles'[ws] = Retain(tiles[ws], Alive)
  BY DEF CleanupRemoved, TilesAlive
<1>3. QED
  BY <1>1, <1>2, RetainElements, RetainOrder

\* A move takes a tile from one list and adds it to another.
LEMMA MoveTiles ==
    ASSUME DesktopInv, NEW idx \in Workspace, MoveFocused(idx)
    PROVE  LET w == focused[active]
           IN  /\ active \in Workspace /\ idx # active
               /\ w \in ToSet(tiles[active])
               /\ \A ws \in Workspace : Distinct(tiles'[ws])
               /\ ToSet(tiles'[active]) = ToSet(tiles[active]) \ {w}
               /\ ToSet(tiles'[idx]) = ToSet(tiles[idx]) \union {w}
               /\ \A ws \in Workspace \ {active, idx} : tiles'[ws] = tiles[ws]
<1> DEFINE w == focused[active]
           source == Removed(tiles[active], w)
           target == Append(tiles[idx], w)
<1>1. /\ w \in ToSet(tiles[active]) /\ idx # active /\ active \in Workspace
      /\ tiles \in [Workspace -> Seq(Window)]
      /\ tiles' = [tiles EXCEPT ![active] = source, ![idx] = target]
  BY DEF DesktopInv, TypeOK, MoveFocused
<1>2. \A ws \in Workspace : Distinct(tiles[ws])
  BY <1>1 DEF DesktopInv, TiledOnce
<1>3. w \in Window
  BY <1>1 DEF ToSet
<1>4. w \notin ToSet(tiles[idx])
  BY <1>1 DEF DesktopInv, TiledOnce
<1>5. /\ ToSet(source) = ToSet(tiles[active]) \ {w}
      /\ Distinct(source)
  BY <1>1, <1>2, RemovedElements
<1>6. /\ ToSet(target) = ToSet(tiles[idx]) \union {w}
      /\ Distinct(target)
  BY <1>1, <1>2, <1>3, <1>4, AppendElements
<1> HIDE DEF w, source, target
<1>7. /\ tiles'[active] = source
      /\ tiles'[idx] = target
      /\ \A ws \in Workspace \ {active, idx} : tiles'[ws] = tiles[ws]
  BY <1>1
<1>8. \A ws \in Workspace : Distinct(tiles'[ws])
  BY <1>2, <1>5, <1>6, <1>7
<1>9. QED
  BY <1>1, <1>5, <1>6, <1>7, <1>8 DEF w

\* A toggle back to tiling only reorders the list.
LEMMA UnfloatTiles ==
    ASSUME DesktopInv, Unfloat, NEW ws \in Workspace
    PROVE  Distinct(tiles'[ws]) /\ ToSet(tiles'[ws]) = ToSet(tiles[ws])
<1> DEFINE w == focused[active]
           source == Removed(tiles[active], w)
<1>1. /\ w \in ToSet(tiles[active]) /\ active \in Workspace
      /\ tiles \in [Workspace -> Seq(Window)]
      /\ tiles' = [tiles EXCEPT ![active] = Append(source, w)]
  BY DEF DesktopInv, TypeOK, Unfloat
<1>2. Distinct(tiles[ws]) /\ Distinct(tiles[active])
  BY <1>1 DEF DesktopInv, TiledOnce
<1>3. w \in Window
  BY <1>1 DEF ToSet
<1>4. /\ source \in Seq(Window)
      /\ ToSet(source) = ToSet(tiles[active]) \ {w}
      /\ Distinct(source)
  BY <1>1, <1>2, RemovedElements
<1>5. /\ ToSet(Append(source, w)) = ToSet(tiles[active])
      /\ Distinct(Append(source, w))
  <2> HIDE DEF w, source
  <2>1. w \notin ToSet(source)
    BY <1>4
  <2>2. /\ ToSet(Append(source, w)) = ToSet(source) \union {w}
        /\ Distinct(Append(source, w))
    BY <1>3, <1>4, <2>1, AppendElements
  <2>3. QED
    BY <2>2, <1>1, <1>4
<1> HIDE DEF w, source
<1>6. tiles'[ws] = IF ws = active THEN Append(source, w) ELSE tiles[ws]
  BY <1>1
<1>7. QED
  BY <1>2, <1>5, <1>6

\* Who is alive after each handler.
LEMMA LifeStep ==
    ASSUME TypeOK, [Next]_vars
    PROVE  \/ \E w \in Window : NewToplevel(w) /\ Alive' = Alive \union {w}
           \/ \E w \in Window : Die(w) /\ Alive' = Alive \ {w}
           \/ Quit /\ Alive' = {}
           \/ life' = life /\ Alive' = Alive
<1>1. ASSUME NEW w \in Window, NewToplevel(w) PROVE Alive' = Alive \union {w}
  BY <1>1 DEF NewToplevel, Alive, TypeOK
<1>2. ASSUME NEW w \in Window, Die(w) PROVE Alive' = Alive \ {w}
  BY <1>2 DEF Die, Alive, TypeOK
<1>3. ASSUME Quit PROVE Alive' = {}
  BY <1>3 DEF Quit, Alive
<1>4. ASSUME life' = life PROVE Alive' = Alive
  BY <1>4 DEF Alive
<1>5. \/ \E w \in Window : NewToplevel(w) \/ Die(w)
      \/ Quit
      \/ life' = life
  BY DEF Next, vars, Commit, Redraw, Refresh, HostResize, PointerPress,
         SwitchWorkspace, MoveFocused, Float, Unfloat
<1>6. QED
  BY <1>1, <1>2, <1>3, <1>4, <1>5

\* The handlers that leave the tiles alone.
LEMMA TilesStep ==
    ASSUME [Next]_vars
    PROVE  \/ \E w \in Window : NewToplevel(w)
           \/ Redraw /\ CleanupRemoved
           \/ \E idx \in Workspace : MoveFocused(idx)
           \/ Unfloat
           \/ Quit
           \/ tiles' = tiles
BY DEF Next, vars, Commit, Die, Redraw, CleanupNothing, Refresh, HostResize,
       PointerPress, SwitchWorkspace, Float

\* No step makes a second tile for a window.
LEMMA TiledOnceStep == DesktopInv /\ [Next]_vars => TiledOnce'
<1> SUFFICES ASSUME DesktopInv, [Next]_vars PROVE TiledOnce'
  OBVIOUS
<1> USE DEF TiledOnce
<1>0. TiledOnce /\ active \in Workspace
  BY DEF DesktopInv, TypeOK
<1>1. ASSUME NEW w \in Window, NewToplevel(w) PROVE TiledOnce'
  <2>1. \A ws \in Workspace : w \notin ToSet(tiles[ws])
    BY <1>1, TrackedMember DEF DesktopInv, FreshUntracked, NewToplevel
  <2>2. \A ws \in Workspace :
           /\ Distinct(tiles'[ws])
           /\ ToSet(tiles'[ws]) = IF ws = active THEN ToSet(tiles[ws]) \union {w}
                                  ELSE ToSet(tiles[ws])
    BY <1>1, NewToplevelTiles
  <2>3. QED
    BY <1>0, <2>1, <2>2
<1>2. CASE Redraw /\ CleanupRemoved
  BY <1>0, <1>2, CleanupTiles
<1>3. ASSUME NEW idx \in Workspace, MoveFocused(idx) PROVE TiledOnce'
  <2> DEFINE w == focused[active]
  <2>1. /\ idx # active /\ w \in ToSet(tiles[active])
        /\ \A ws \in Workspace : Distinct(tiles'[ws])
        /\ ToSet(tiles'[active]) = ToSet(tiles[active]) \ {w}
        /\ ToSet(tiles'[idx]) = ToSet(tiles[idx]) \union {w}
        /\ \A ws \in Workspace \ {active, idx} : tiles'[ws] = tiles[ws]
    BY <1>3, MoveTiles
  <2> HIDE DEF w
  <2>2. \A ws \in Workspace : w \in ToSet(tiles[ws]) => ws = active
    BY <1>0, <2>1
  <2>3. ASSUME NEW ws \in Workspace, NEW x \in ToSet(tiles'[ws])
        PROVE  (x # w /\ x \in ToSet(tiles[ws])) \/ (x = w /\ ws = idx)
    <3>1. CASE ws = active
      BY <2>1, <2>3, <3>1
    <3>2. CASE ws = idx
      BY <2>1, <2>2, <2>3, <3>2
    <3>3. CASE ws # active /\ ws # idx
      BY <2>1, <2>2, <2>3, <3>3
    <3>4. QED
      BY <3>1, <3>2, <3>3
  <2>4. ASSUME NEW ws1 \in Workspace, NEW ws2 \in Workspace, ws1 # ws2,
               NEW x \in ToSet(tiles'[ws1]), x \in ToSet(tiles'[ws2])
        PROVE  FALSE
    BY <1>0, <2>3, <2>4
  <2>5. QED
    BY <2>1, <2>4
<1>4. CASE Unfloat
  BY <1>0, <1>4, UnfloatTiles
<1>5. CASE Quit
  BY <1>5 DEF Quit, Distinct, ToSet
<1>6. CASE tiles' = tiles
  BY <1>0, <1>6
<1>7. QED
  BY <1>1, <1>2, <1>3, <1>4, <1>5, <1>6, TilesStep

\* What is tracked after each handler, as a set.
LEMMA TrackedStep ==
    ASSUME DesktopInv, [Next]_vars
    PROVE  \/ \E w \in Window : NewToplevel(w) /\ Tracked' = Tracked \union {w}
           \/ CleanupRemoved /\ Redraw /\ Tracked' = Tracked \intersect Alive
           \/ Quit /\ Tracked' = {}
           \/ Tracked' = Tracked
<1>0. active \in Workspace
  BY DEF DesktopInv, TypeOK
<1>1. ASSUME NEW w \in Window, NewToplevel(w) PROVE Tracked' = Tracked \union {w}
  <2>1. \A ws \in Workspace :
           ToSet(tiles'[ws]) = IF ws = active THEN ToSet(tiles[ws]) \union {w}
                               ELSE ToSet(tiles[ws])
    BY <1>1, NewToplevelTiles
  <2>2. QED
    BY <1>0, <2>1 DEF Tracked
<1>2. CASE Redraw /\ CleanupRemoved
  BY <1>2, CleanupTiles DEF Tracked
<1>3. ASSUME NEW idx \in Workspace, MoveFocused(idx) PROVE Tracked' = Tracked
  <2> DEFINE w == focused[active]
  <2>1. /\ w \in ToSet(tiles[active])
        /\ ToSet(tiles'[active]) = ToSet(tiles[active]) \ {w}
        /\ ToSet(tiles'[idx]) = ToSet(tiles[idx]) \union {w}
        /\ \A ws \in Workspace \ {active, idx} : tiles'[ws] = tiles[ws]
    BY <1>3, MoveTiles
  <2> HIDE DEF w
  <2>2. ASSUME NEW x \in Tracked PROVE x \in Tracked'
    <3>1. PICK ws \in Workspace : x \in ToSet(tiles[ws])
      BY TrackedMember
    <3>2. CASE x = w
      BY <2>1, <3>2 DEF Tracked
    <3>3. CASE x # w
      <4>1. x \in ToSet(tiles'[ws])
        BY <2>1, <3>1, <3>3
      <4>2. QED
        BY <4>1 DEF Tracked
    <3>4. QED
      BY <3>2, <3>3
  <2>3. ASSUME NEW x \in Tracked' PROVE x \in Tracked
    <3>1. PICK ws \in Workspace : x \in ToSet(tiles'[ws])
      BY DEF Tracked
    <3>2. x \in ToSet(tiles[ws]) \/ x = w
      BY <2>1, <3>1
    <3>3. QED
      BY <1>0, <2>1, <3>2 DEF Tracked
  <2>4. QED
    BY <2>2, <2>3
<1>4. CASE Unfloat
  BY <1>4, UnfloatTiles DEF Tracked
<1>5. CASE Quit
  BY <1>5 DEF Quit, Tracked, ToSet
<1>6. CASE tiles' = tiles
  BY <1>6 DEF Tracked
<1>7. QED
  BY <1>1, <1>2, <1>3, <1>4, <1>5, <1>6, TilesStep

\* Every step keeps the bookkeeping of the tile lists.
LEMMA DesktopInvStep == DesktopInv /\ [Next]_vars => DesktopInv'
<1> SUFFICES ASSUME DesktopInv, [Next]_vars PROVE DesktopInv'
  OBVIOUS
<1>1. TypeOK' /\ TiledOnce'
  BY TypeOKStep, TiledOnceStep DEF DesktopInv
<1>2. TypeOK /\ Alive \subseteq Tracked
  BY DEF DesktopInv, LiveWindowsTracked
<1>3. LiveWindowsTracked'
  <2>1. CASE CleanupRemoved /\ Redraw /\ Tracked' = Tracked \intersect Alive
    <3>1. Alive' = Alive
      BY <2>1 DEF Redraw, Alive
    <3>2. QED
      BY <2>1, <3>1, <1>2 DEF LiveWindowsTracked
  <2>2. ASSUME NEW w \in Window, NewToplevel(w), Tracked' = Tracked \union {w}
        PROVE  LiveWindowsTracked'
    <3>1. Alive' \subseteq Alive \union {w}
      BY <2>2, <1>2 DEF NewToplevel, Alive, TypeOK
    <3>2. QED
      BY <2>2, <3>1, <1>2 DEF LiveWindowsTracked
  <2>3. CASE Quit /\ Tracked' = {}
    BY <2>3 DEF Quit, LiveWindowsTracked, Alive
  <2>4. CASE Tracked' = Tracked
    <3>1. ASSUME NEW w \in Window, NewToplevel(w) PROVE LiveWindowsTracked'
      <4>1. w \in Tracked'
        <5>1. active \in Workspace
          BY <1>2 DEF TypeOK
        <5>2. w \in ToSet(tiles'[active])
          BY <3>1, <5>1, NewToplevelTiles
        <5>3. QED
          BY <5>1, <5>2 DEF Tracked
      <4>2. Alive' \subseteq Alive \union {w}
        BY <3>1, <1>2 DEF NewToplevel, Alive, TypeOK
      <4>3. QED
        BY <4>1, <4>2, <2>4, <1>2 DEF LiveWindowsTracked
    <3>2. CASE ~(\E w \in Window : NewToplevel(w))
      <4>1. Alive' \subseteq Alive
        BY <3>2, <1>2, LifeStep
      <4>2. QED
        BY <4>1, <2>4, <1>2 DEF LiveWindowsTracked
    <3>3. QED
      BY <3>1, <3>2
  <2>5. QED
    BY <2>1, <2>2, <2>3, <2>4, TrackedStep
<1>4. FreshUntracked'
  <2>1. \A w \in Window : life'[w] = "absent" => life[w] = "absent"
    BY <1>2, LifeStep DEF TypeOK, NewToplevel, Die, Quit
  <2>2. \A w \in Window : life'[w] = "absent" => w \notin Tracked
    BY <2>1 DEF DesktopInv, FreshUntracked
  <2>3. ASSUME NEW w \in Window, NewToplevel(w) PROVE life'[w] = "alive"
    BY <2>3, <1>2 DEF NewToplevel, TypeOK
  <2>4. QED
    BY <2>2, <2>3, TrackedStep DEF FreshUntracked
<1>5. QED
  BY <1>1, <1>3, <1>4 DEF DesktopInv

\* The bookkeeping of the tile lists is right in every reachable state: one tile
\* per window, one for every live window, none for a window not yet created.
THEOREM DesktopInvHolds == Spec => []DesktopInv
<1>1. Init => DesktopInv
  <2> SUFFICES ASSUME Init PROVE DesktopInv
    OBVIOUS
  <2>1. TypeOK
    BY WorkspaceAssumption DEF Init, TypeOK, Workspace
  <2>2. \A ws \in Workspace : tiles[ws] = <<>>
    BY DEF Init
  <2>3. QED
    BY <2>1, <2>2 DEF DesktopInv, TiledOnce, LiveWindowsTracked, FreshUntracked,
                      Tracked, ToSet, Distinct, Init, Alive
<1>2. QED
  BY <1>1, DesktopInvStep, PTL DEF Spec

\* A window has at most one tile on the whole desktop.
THEOREM OneTilePerWindow == Spec => []TiledOnce
BY DesktopInvHolds, PTL DEF DesktopInv

\* No live window ever loses its tile.
THEOREM NoWindowLost == Spec => []LiveWindowsTracked
BY DesktopInvHolds, PTL DEF DesktopInv

-----------------------------------------------------------------------------
(* The desktop implements WorkspaceMap *)

\* With disjoint lists, the workspace chosen for a window is the one it is on.
LEMMA ChosenWorkspace ==
    ASSUME NEW t, NEW x, NEW ws \in Workspace, x \in ToSet(t[ws]),
           \A ws1, ws2 \in Workspace :
              ws1 # ws2 => ToSet(t[ws1]) \intersect ToSet(t[ws2]) = {}
    PROVE  (CHOOSE v \in Workspace : x \in ToSet(t[v])) = ws
OBVIOUS

\* The abstract map sends a window to the workspace that has its tile.
LEMMA HomeNow ==
    ASSUME DesktopInv, NEW w \in Window
    PROVE  /\ \A ws \in Workspace : w \in ToSet(tiles[ws]) => Home[w] = ws
           /\ w \notin Tracked => Home[w] = IF life[w] = "absent" THEN -1 ELSE -2
<1>1. ASSUME NEW ws \in Workspace, w \in ToSet(tiles[ws]) PROVE Home[w] = ws
  <2>1. w \in Tracked
    BY <1>1 DEF Tracked
  <2>2. (CHOOSE v \in Workspace : w \in ToSet(tiles[v])) = ws
    BY <1>1, ChosenWorkspace DEF DesktopInv, TiledOnce
  <2>3. QED
    BY <2>1, <2>2 DEF Home
<1>2. QED
  BY <1>1 DEF Home

\* The same in the next state.
LEMMA HomeNext ==
    ASSUME DesktopInv', NEW w \in Window
    PROVE  /\ \A ws \in Workspace : w \in ToSet(tiles'[ws]) => Home'[w] = ws
           /\ w \notin Tracked' => Home'[w] = IF life'[w] = "absent" THEN -1 ELSE -2
<1>1. ASSUME NEW ws \in Workspace, w \in ToSet(tiles'[ws]) PROVE Home'[w] = ws
  <2>1. w \in Tracked'
    BY <1>1 DEF Tracked
  <2>2. (CHOOSE v \in Workspace : w \in ToSet(tiles'[v])) = ws
    BY <1>1, ChosenWorkspace DEF DesktopInv, TiledOnce
  <2>3. QED
    BY <2>1, <2>2 DEF Home
<1>2. QED
  BY <1>1 DEF Home

\* A step that leaves the tiles, and who was never created, leaves Home.
LEMMA HomeUnchanged ==
    ASSUME DesktopInv, DesktopInv', NEW w \in Window,
           \A ws \in Workspace : ToSet(tiles'[ws]) = ToSet(tiles[ws]),
           life[w] = "absent" <=> life'[w] = "absent"
    PROVE  Home'[w] = Home[w]
<1>1. CASE w \in Tracked
  <2>1. PICK ws \in Workspace : w \in ToSet(tiles[ws])
    BY <1>1, TrackedMember
  <2>2. QED
    BY <2>1, HomeNow, HomeNext
<1>2. CASE w \notin Tracked
  <2>1. w \notin Tracked'
    BY <1>2 DEF Tracked
  <2>2. QED
    BY <1>2, <2>1, HomeNow, HomeNext
<1>3. QED
  BY <1>1, <1>2

\* The abstract map is a function on windows.
LEMMA HomeFunction == Home = [w \in Window |-> Home[w]]
BY DEF Home

\* Every step is a step or a stutter of the abstract map.
LEMMA RefinementStep ==
    ASSUME DesktopInv, DesktopInv', [Next]_vars
    PROVE  [Promised!Next]_(Promised!vars)
<1> USE DEF Promised!Workspace, Promised!vars
<1>0. active \in Workspace /\ TypeOK
  BY DEF DesktopInv, TypeOK
<1>a. Home' = [w \in Window |-> Home'[w]] /\ Home = [w \in Window |-> Home[w]]
  BY DEF Home
<1>1. ASSUME NEW w \in Window, NewToplevel(w) PROVE Promised!Next
  <2>1. \A ws \in Workspace :
           ToSet(tiles'[ws]) = IF ws = active THEN ToSet(tiles[ws]) \union {w}
                               ELSE ToSet(tiles[ws])
    BY <1>1, NewToplevelTiles
  <2>2. w \notin Tracked /\ life[w] = "absent"
    BY <1>1 DEF DesktopInv, FreshUntracked, NewToplevel
  <2>3. Home[w] = -1 /\ Home'[w] = active
    BY <1>0, <2>1, <2>2, HomeNow, HomeNext
  <2>4. ASSUME NEW x \in Window, x # w PROVE Home'[x] = Home[x]
    <3>1. life'[x] = life[x]
      BY <1>0, <1>1, <2>4 DEF NewToplevel, TypeOK
    <3>2. \A ws \in Workspace : x \in ToSet(tiles'[ws]) <=> x \in ToSet(tiles[ws])
      BY <2>1, <2>4
    <3>3. CASE x \in Tracked
      BY <3>2, <3>3, TrackedMember, HomeNow, HomeNext
    <3>4. CASE x \notin Tracked
      <4>1. x \notin Tracked'
        BY <3>2, <3>4 DEF Tracked
      <4>2. QED
        BY <3>1, <3>4, <4>1, HomeNow, HomeNext
    <3>5. QED
      BY <3>3, <3>4
  <2>5. Home' = [Home EXCEPT ![w] = active]
    BY <1>a, <2>3, <2>4
  <2>6. Promised!Open(w)
    BY <1>1, <2>3, <2>5 DEF Promised!Open, Promised!Nowhere, NewToplevel
  <2>7. QED
    BY <2>6 DEF Promised!Next
<1>2. CASE Redraw /\ CleanupRemoved
  <2> DEFINE S == Tracked \ Alive
  <2>1. \A ws \in Workspace : ToSet(tiles'[ws]) = ToSet(tiles[ws]) \intersect Alive
    BY <1>2, CleanupTiles
  <2>2. life' = life /\ active' = active
    BY <1>2 DEF Redraw
  <2>3. S \in SUBSET Window
    BY <1>0 DEF Tracked, TypeOK, ToSet
  <2>4. ASSUME NEW w \in S PROVE Home[w] \in Workspace
    BY <2>3, <2>4, TrackedMember, HomeNow
  <2>5. ASSUME NEW w \in Window
        PROVE  Home'[w] = IF w \in S THEN -2 ELSE Home[w]
    <3>1. CASE w \in S
      <4>1. w \notin Tracked'
        BY <2>1, <3>1 DEF Tracked
      <4>2. life'[w] # "absent"
        BY <2>2, <3>1 DEF DesktopInv, FreshUntracked
      <4>3. QED
        BY <3>1, <4>1, <4>2, HomeNext
    <3>2. CASE w \in Tracked /\ w \in Alive
      BY <2>1, <3>2, TrackedMember, HomeNow, HomeNext
    <3>3. CASE w \notin Tracked
      <4>1. w \notin Tracked'
        BY <2>1, <3>3 DEF Tracked
      <4>2. QED
        BY <2>2, <3>3, <4>1, HomeNow, HomeNext
    <3>4. QED
      BY <3>1, <3>2, <3>3
  <2> HIDE DEF S
  <2>6. Promised!Close(S)
    BY <1>a, <2>2, <2>4, <2>5 DEF Promised!Close, Promised!Gone, Workspace
  <2>7. QED
    BY <2>3, <2>6 DEF Promised!Next
<1>3. ASSUME NEW idx \in Workspace, MoveFocused(idx) PROVE Promised!Next
  <2> DEFINE w == focused[active]
  <2>1. /\ idx # active /\ w \in ToSet(tiles[active])
        /\ ToSet(tiles'[active]) = ToSet(tiles[active]) \ {w}
        /\ ToSet(tiles'[idx]) = ToSet(tiles[idx]) \union {w}
        /\ \A ws \in Workspace \ {active, idx} : tiles'[ws] = tiles[ws]
    BY <1>3, MoveTiles
  <2>2. w \in Window
    BY <1>0, <2>1 DEF ToSet, TypeOK
  <2>3. life' = life /\ active' = active
    BY <1>3 DEF MoveFocused
  <2> HIDE DEF w
  <2>4. Home[w] = active /\ Home'[w] = idx
    BY <1>0, <2>1, <2>2, HomeNow, HomeNext
  <2>5. ASSUME NEW x \in Window, x # w PROVE Home'[x] = Home[x]
    <3>1. \A ws \in Workspace : x \in ToSet(tiles'[ws]) <=> x \in ToSet(tiles[ws])
      BY <2>1, <2>5
    <3>2. CASE x \in Tracked
      BY <3>1, <3>2, TrackedMember, HomeNow, HomeNext
    <3>3. CASE x \notin Tracked
      <4>1. x \notin Tracked'
        BY <3>1, <3>3 DEF Tracked
      <4>2. QED
        BY <2>3, <3>3, <4>1, HomeNow, HomeNext
    <3>4. QED
      BY <3>2, <3>3
  <2>6. Home' = [Home EXCEPT ![w] = idx]
    BY <1>a, <2>4, <2>5
  <2>7. Promised!Send(w, idx)
    BY <2>1, <2>3, <2>4, <2>6 DEF Promised!Send
  <2>8. QED
    BY <2>2, <2>7 DEF Promised!Next, Workspace
<1>4. ASSUME NEW idx \in Workspace, SwitchWorkspace(idx) PROVE Promised!Next
  <2>1. Home' = Home /\ active' = idx
    BY <1>4 DEF SwitchWorkspace, Home, Tracked
  <2>2. QED
    BY <2>1 DEF Promised!Next, Promised!Show, Workspace
<1>5. CASE Quit
  <2>1. Tracked' = {} /\ active' = 0
    BY <1>5 DEF Quit, Tracked, ToSet
  <2>2. \A w \in Window : life'[w] = "dead"
    BY <1>5 DEF Quit
  <2>3. Home' = [w \in Window |-> -2]
    BY <2>1, <2>2 DEF Home
  <2>4. QED
    BY <2>1, <2>3 DEF Promised!Next, Promised!ShutDown, Promised!Gone
<1>6. CASE Unfloat
  <2>1. life' = life /\ active' = active
    BY <1>6 DEF Unfloat
  <2>2. \A w \in Window : Home'[w] = Home[w]
    BY <1>6, <2>1, UnfloatTiles, HomeUnchanged
  <2>3. QED
    BY <1>a, <2>1, <2>2
<1>7. ASSUME NEW w \in Window, Die(w) PROVE UNCHANGED Promised!vars
  <2>1. tiles' = tiles /\ active' = active
    BY <1>7 DEF Die
  <2>2. \A x \in Window : life[x] = "absent" <=> life'[x] = "absent"
    BY <1>0, <1>7 DEF Die, TypeOK
  <2>3. \A x \in Window : Home'[x] = Home[x]
    BY <2>1, <2>2, HomeUnchanged
  <2>4. QED
    BY <1>a, <2>1, <2>3
<1>8. CASE tiles' = tiles /\ life' = life /\ active' = active
  BY <1>8 DEF Home, Tracked
<1>9. \/ \E w \in Window : NewToplevel(w)
      \/ Redraw /\ CleanupRemoved
      \/ \E idx \in Workspace : MoveFocused(idx)
      \/ \E idx \in Workspace : SwitchWorkspace(idx)
      \/ Quit
      \/ Unfloat
      \/ \E w \in Window : Die(w)
      \/ tiles' = tiles /\ life' = life /\ active' = active
  BY DEF Next, vars, Commit, Redraw, CleanupNothing, Refresh, HostResize,
         PointerPress, Float
<1>10. QED
  BY <1>1, <1>2, <1>3, <1>4, <1>5, <1>6, <1>7, <1>8, <1>9

\* Whatever clients, the user and the host do, each window is on one workspace
\* at a time and changes it only as WorkspaceMap says.
THEOREM Refinement == Spec => ImplementsWorkspaceMap
<1>1. Init => Promised!Init
  <2> SUFFICES ASSUME Init PROVE Promised!Init
    OBVIOUS
  <2>1. Tracked = {}
    BY DEF Init, Tracked, ToSet
  <2>2. Home = [w \in Window |-> -1]
    BY <2>1 DEF Home, Init
  <2>3. QED
    BY <2>2 DEF Promised!Init, Promised!Nowhere, Init
<1>2. DesktopInv /\ DesktopInv' /\ [Next]_vars => [Promised!Next]_(Promised!vars)
  BY RefinementStep
<1>3. QED
  BY <1>1, <1>2, DesktopInvHolds, PTL DEF Spec, ImplementsWorkspaceMap, Promised!Spec

-----------------------------------------------------------------------------
(* The list of mapped windows after arrange_force *)

\* What a concatenation holds; and it duplicates nothing its parts do not share.
LEMMA ConcatElements ==
    ASSUME NEW T, NEW s \in Seq(T), NEW t \in Seq(T)
    PROVE  /\ s \o t \in Seq(T)
           /\ ToSet(s \o t) = ToSet(s) \union ToSet(t)
           /\ Distinct(s) /\ Distinct(t) /\ ToSet(s) \intersect ToSet(t) = {}
                 => Distinct(s \o t)
<1> DEFINE u == s \o t
<1>1. /\ u \in Seq(T)
      /\ Len(u) = Len(s) + Len(t)
      /\ \A i \in 1..(Len(s) + Len(t)) :
            u[i] = IF i <= Len(s) THEN s[i] ELSE t[i - Len(s)]
  BY ConcatProperties
<1>2. /\ Len(s) \in Nat /\ Len(t) \in Nat
      /\ DOMAIN s = 1..Len(s) /\ DOMAIN t = 1..Len(t)
      /\ DOMAIN u = 1..(Len(s) + Len(t))
  BY <1>1
<1> HIDE DEF u
<1>3. \A i \in 1..Len(s) : i \in DOMAIN u /\ u[i] = s[i]
  BY <1>1, <1>2
<1>4. \A i \in 1..Len(t) : Len(s) + i \in DOMAIN u /\ u[Len(s) + i] = t[i]
  <2> TAKE i \in 1..Len(t)
  <2>1. /\ Len(s) + i \in 1..(Len(s) + Len(t))
        /\ ~(Len(s) + i <= Len(s))
        /\ Len(s) + i - Len(s) = i
    BY <1>2
  <2>2. QED
    BY <2>1, <1>1, <1>2
<1>5. \A i \in DOMAIN u :
         \/ i \in 1..Len(s) /\ u[i] = s[i]
         \/ i - Len(s) \in 1..Len(t) /\ u[i] = t[i - Len(s)]
  BY <1>1, <1>2
<1>6. ToSet(u) = ToSet(s) \union ToSet(t)
  BY <1>2, <1>3, <1>4, <1>5 DEF ToSet
<1>7. ASSUME Distinct(s), Distinct(t), ToSet(s) \intersect ToSet(t) = {}
      PROVE  Distinct(u)
  <2> SUFFICES ASSUME NEW i \in DOMAIN u, NEW j \in DOMAIN u, u[i] = u[j]
               PROVE  i = j
    BY DEF Distinct
  <2>1. CASE i \in 1..Len(s) /\ u[i] = s[i] /\ j \in 1..Len(s) /\ u[j] = s[j]
    BY <2>1, <1>2, <1>7 DEF Distinct
  <2>2. CASE /\ i - Len(s) \in 1..Len(t) /\ u[i] = t[i - Len(s)]
             /\ j - Len(s) \in 1..Len(t) /\ u[j] = t[j - Len(s)]
    <3>1. i - Len(s) = j - Len(s)
      BY <2>2, <1>2, <1>7 DEF Distinct
    <3>2. QED
      BY <3>1, <1>2
  <2>3. CASE /\ i \in 1..Len(s) /\ u[i] = s[i]
             /\ j - Len(s) \in 1..Len(t) /\ u[j] = t[j - Len(s)]
    BY <2>3, <1>2, <1>7 DEF ToSet
  <2>4. CASE /\ i - Len(s) \in 1..Len(t) /\ u[i] = t[i - Len(s)]
             /\ j \in 1..Len(s) /\ u[j] = s[j]
    BY <2>4, <1>2, <1>7 DEF ToSet
  <2>5. QED
    BY <1>5, <2>1, <2>2, <2>3, <2>4
<1>8. QED
  BY <1>1, <1>6, <1>7 DEF u

\* Only tiled windows of the list are given a rectangle.
LEMMA HousedTiled ==
    ASSUME NEW ts \in Seq(Window), NEW fl, NEW rc
    PROVE  Housed(ts, fl, rc) \subseteq ToSet(ts) \ fl
<1> DEFINE tiled == Retain(ts, Window \ fl)
<1>1. ToSet(tiled) = ToSet(ts) \intersect (Window \ fl)
  BY RetainElements
<1>2. Housed(ts, fl, rc) \subseteq ToSet(tiled)
  BY DEF Housed, ToSet
<1>3. QED
  BY <1>1, <1>2

\* With room for all, every tiled window of the list is given one.
LEMMA AllHoused ==
    ASSUME NEW ts \in Seq(Window), NEW fl, NEW rc,
           rc[Len(Retain(ts, Window \ fl))] = Len(Retain(ts, Window \ fl))
    PROVE  Housed(ts, fl, rc) = ToSet(ts) \ fl
<1> DEFINE tiled == Retain(ts, Window \ fl)
<1>1. tiled \in Seq(Window) /\ ToSet(tiled) = ToSet(ts) \intersect (Window \ fl)
  BY RetainElements
<1>2. ToSet(ts) \subseteq Window
  BY DEF ToSet
<1>3. \A k \in DOMAIN tiled : k <= rc[Len(tiled)]
  BY <1>1
<1>4. Housed(ts, fl, rc) = ToSet(tiled)
  BY <1>3 DEF Housed, ToSet
<1>5. QED
  BY <1>1, <1>2, <1>4

\* A float of the list ts is below no tiled window of it.
OnTop(st, ts, fl) ==
    \A i, j \in DOMAIN st :
        /\ i < j
        /\ {st[i], st[j]} \subseteq ToSet(ts)
        /\ st[i] \in fl
        => st[j] \in fl

\* arrange_force: what it maps, that it maps nothing twice, and that the floats
\* come last.
LEMMA ArrangedElements ==
    ASSUME NEW st \in Seq(Window), NEW ts \in Seq(Window), NEW fl, NEW rc
    PROVE  /\ Arranged(st, ts, fl, rc) \in Seq(Window)
           /\ ToSet(Arranged(st, ts, fl, rc)) =
                 ToSet(st) \union Housed(ts, fl, rc) \union (ToSet(ts) \intersect fl)
           /\ Distinct(st) /\ Distinct(ts) => Distinct(Arranged(st, ts, fl, rc))
           /\ OnTop(Arranged(st, ts, fl, rc), ts, fl)
<1> DEFINE housed == Housed(ts, fl, rc)
           X == housed \union (ToSet(ts) \intersect fl)
           a == Retain(st, Window \ X)
           b == Retain(ts, housed)
           c == Retain(ts, fl)
           ab == a \o b
<1>1. Arranged(st, ts, fl, rc) = ab \o c
  <2>1. a \in Seq(Window) /\ b \in Seq(Window) /\ c \in Seq(Window)
    BY RetainElements
  <2>2. (a \o b) \o c = a \o (b \o c)
    BY <2>1
  <2>3. QED
    BY <2>1, <2>2 DEF Arranged
<1>2. housed \subseteq ToSet(ts) \ fl
  BY HousedTiled
<1>3. ToSet(st) \subseteq Window /\ ToSet(ts) \subseteq Window
  BY DEF ToSet
<1>4. /\ a \in Seq(Window) /\ ToSet(a) = ToSet(st) \intersect (Window \ X)
      /\ b \in Seq(Window) /\ ToSet(b) = ToSet(ts) \intersect housed
      /\ c \in Seq(Window) /\ ToSet(c) = ToSet(ts) \intersect fl
  BY RetainElements
<1>5. Distinct(st) => Distinct(a)
  BY RetainOrder
<1>6. Distinct(ts) => Distinct(b) /\ Distinct(c)
  BY RetainOrder
<1> HIDE DEF housed, a, b, c
<1>7. /\ ab \in Seq(Window)
      /\ ToSet(ab) = ToSet(a) \union ToSet(b)
      /\ Distinct(a) /\ Distinct(b) => Distinct(ab)
  <2>1. ToSet(a) \intersect ToSet(b) = {}
    BY <1>4
  <2>2. QED
    BY <1>4, <2>1, ConcatElements
<1> HIDE DEF ab
<1>8. ToSet(ab) \intersect ToSet(c) = {}
  BY <1>2, <1>4, <1>7
<1>9. /\ ab \o c \in Seq(Window)
      /\ ToSet(ab \o c) = ToSet(ab) \union ToSet(c)
      /\ Distinct(ab) /\ Distinct(c) => Distinct(ab \o c)
  BY <1>4, <1>7, <1>8, ConcatElements
<1>10. ToSet(ab \o c) = ToSet(st) \union housed \union (ToSet(ts) \intersect fl)
  BY <1>2, <1>3, <1>4, <1>7, <1>9
<1>11. OnTop(ab \o c, ts, fl)
  <2> DEFINE u == ab \o c
  <2>1. /\ Len(ab) \in Nat /\ Len(c) \in Nat
        /\ DOMAIN ab = 1..Len(ab) /\ DOMAIN c = 1..Len(c)
        /\ DOMAIN u = 1..(Len(ab) + Len(c))
        /\ \A i \in 1..(Len(ab) + Len(c)) :
              u[i] = IF i <= Len(ab) THEN ab[i] ELSE c[i - Len(ab)]
    BY <1>4, <1>7, ConcatProperties
  <2> HIDE DEF u
  <2>2. SUFFICES ASSUME NEW i \in DOMAIN u, NEW j \in DOMAIN u, i < j,
                        u[i] \in ToSet(ts), u[i] \in fl
                 PROVE  u[j] \in fl
    BY DEF OnTop, u
  <2>3. ~(i <= Len(ab))
    <3>1. SUFFICES ASSUME i <= Len(ab) PROVE FALSE
      OBVIOUS
    <3>2. u[i] \in ToSet(ab)
      BY <3>1, <2>1 DEF ToSet
    <3>3. u[i] \in ToSet(c)
      BY <2>2, <1>4
    <3>4. QED
      BY <3>2, <3>3, <1>8
  <2>4. j - Len(ab) \in 1..Len(c) /\ u[j] = c[j - Len(ab)]
    BY <2>1, <2>2, <2>3
  <2>5. u[j] \in ToSet(c)
    BY <2>1, <2>4 DEF ToSet
  <2>6. QED
    BY <2>5, <1>4
<1>12. QED
  BY <1>1, <1>5, <1>6, <1>7, <1>9, <1>10, <1>11 DEF housed

-----------------------------------------------------------------------------
(* Floats on top, and the active windows in view *)

\* What the screen adds to the invariant of the lists.  In DRM mode nothing is
\* ever mapped.
Screen ==
    /\ Distinct(stack)
    /\ OnTop(stack, tiles[active], floating)
    /\ VisibleWhenRoom
    /\ ~Nested => stack = <<>>

ScreenInv == DesktopInv /\ Screen

\* Unmapping from an empty space leaves it empty.
LEMMA RetainNothing ==
    ASSUME NEW S
    PROVE  Retain(<<>>, S) = <<>>
<1>1. <<>> \in Seq(Window)
  OBVIOUS
<1>2. Retain(<<>>, S) \in Seq(Window) /\ ToSet(Retain(<<>>, S)) = {}
  <2>1. ToSet(<<>>) = {}
    BY DEF ToSet
  <2> DEFINE e == <<>>
  <2>2. e \in Seq(Window)
    BY <1>1
  <2> HIDE DEF e
  <2>3. Retain(e, S) \in Seq(Window) /\ ToSet(Retain(e, S)) = ToSet(e) \intersect S
    BY <2>2, RetainElements
  <2>4. QED
    BY <2>1, <2>3 DEF e
<1> DEFINE r == Retain(<<>>, S)
<1> HIDE DEF r
<1>3. r \in Seq(Window) /\ ToSet(r) = {}
  BY <1>2 DEF r
<1>4. Len(r) = 0
  <2>1. SUFFICES ASSUME Len(r) # 0 PROVE FALSE
    OBVIOUS
  <2>2. 1 \in DOMAIN r
    BY <1>3, <2>1
  <2>3. QED
    BY <1>3, <2>2 DEF ToSet
<1>5. QED
  BY <1>3, <1>4 DEF r

\* A step that redoes the layout for what is active afterwards.
LEMMA ArrangingStep ==
    ASSUME TypeOK', TiledOnce',
           NEW st \in Seq(Window), Distinct(st), ~Nested => st = <<>>,
           ArrangeForce(st, tiles'[active'], floating', rects')
    PROVE  Screen'
<1> DEFINE ts == tiles'[active']
<1>1. ts \in Seq(Window) /\ Distinct(ts)
  BY DEF TypeOK, TiledOnce
<1>2. CASE Nested
  <2>1. stack' = Arranged(st, ts, floating', rects')
    BY <1>2 DEF ArrangeForce
  <2>2. /\ ToSet(stack') = ToSet(st) \union Housed(ts, floating', rects')
                              \union (ToSet(ts) \intersect floating')
        /\ Distinct(stack')
        /\ OnTop(stack', ts, floating')
    BY <1>1, <2>1, ArrangedElements
  <2>3. ASSUME rects'[Len(Retain(ts, Window \ floating'))]
                 = Len(Retain(ts, Window \ floating'))
        PROVE  ToSet(ts) \subseteq ToSet(stack')
    <3>1. Housed(ts, floating', rects') = ToSet(ts) \ floating'
      BY <1>1, <2>3, AllHoused
    <3>2. QED
      BY <2>2, <3>1
  <2>4. VisibleWhenRoom'
    BY <2>3 DEF VisibleWhenRoom
  <2>5. QED
    BY <1>2, <2>2, <2>4 DEF Screen
<1>3. CASE ~Nested
  <2>1. stack' = <<>>
    BY <1>3 DEF ArrangeForce
  <2>2. QED
    BY <1>3, <2>1 DEF Screen, Distinct, OnTop, VisibleWhenRoom
<1>4. QED
  BY <1>2, <1>3

\* A step that changes neither the lists nor the screen, and revives nobody.
LEMMA IdleStep ==
    ASSUME Screen, Alive' \subseteq Alive,
           UNCHANGED <<tiles, active, floating, stack, rects>>
    PROVE  Screen'
BY DEF Screen, OnTop, VisibleWhenRoom, Distinct

\* Space::refresh takes dead windows only, and keeps the others in order.
LEMMA RefreshStep ==
    ASSUME TypeOK, Screen, Refresh
    PROVE  Screen'
<1> DEFINE r == Retain(stack, Alive)
<1>1. stack \in Seq(Window)
  BY DEF TypeOK
<1>2. /\ stack' = r
      /\ UNCHANGED <<tiles, active, floating, rects, life>>
      /\ Alive' = Alive
  BY DEF Refresh, Alive
<1>3. /\ ToSet(r) = ToSet(stack) \intersect Alive
      /\ DOMAIN r = 1..Cardinality(Kept(stack, Alive))
      /\ \A k \in DOMAIN r : r[k] = stack[Nth(stack, Alive, k)]
  BY <1>1, RetainElements DEF Retain
<1>4. \A k, l \in DOMAIN r : k < l => Nth(stack, Alive, k) < Nth(stack, Alive, l)
  BY <1>1, RetainOrder
<1>5. \A k \in DOMAIN r : Nth(stack, Alive, k) \in DOMAIN stack
  BY <1>1, <1>3, NthExists DEF Kept
<1>6. Distinct(r)
  BY <1>1, RetainOrder DEF Screen
<1> HIDE DEF r
<1>7. OnTop(r, tiles[active], floating)
  <2> SUFFICES ASSUME NEW k \in DOMAIN r, NEW l \in DOMAIN r, k < l,
                      {r[k], r[l]} \subseteq ToSet(tiles[active]), r[k] \in floating
               PROVE  r[l] \in floating
    BY DEF OnTop
  <2>1. Nth(stack, Alive, k) < Nth(stack, Alive, l)
    BY <1>4
  <2>2. QED
    BY <2>1, <1>3, <1>5 DEF Screen, OnTop
<1>8. VisibleWhenRoom'
  BY <1>2, <1>3 DEF Screen, VisibleWhenRoom
<1>9. ~Nested => r = <<>>
  BY RetainNothing DEF Screen, r
<1>10. QED
  BY <1>2, <1>6, <1>7, <1>8, <1>9 DEF Screen

\* Every step keeps what the screen shows in agreement with the tiles.
LEMMA ScreenStep == ScreenInv /\ [Next]_vars => Screen'
<1> SUFFICES ASSUME DesktopInv, Screen, [Next]_vars PROVE Screen'
  BY DEF ScreenInv
<1>a. TypeOK /\ TypeOK' /\ TiledOnce'
  BY DesktopInvStep DEF DesktopInv
<1>b. stack \in Seq(Window) /\ Distinct(stack) /\ (~Nested => stack = <<>>)
  BY <1>a DEF TypeOK, Screen
<1>c. active \in Workspace /\ tiles \in [Workspace -> Seq(Window)]
  BY <1>a DEF TypeOK
<1>1. ASSUME NEW w \in Window, NewToplevel(w) PROVE Screen'
  <2>1. ArrangeForce(stack, tiles'[active'], floating', rects')
    BY <1>1 DEF NewToplevel, ArrangeForce
  <2>2. QED
    BY <1>a, <1>b, <2>1, ArrangingStep
<1>2. ASSUME NEW w \in Window, Commit(w) PROVE Screen'
  <2>1. ArrangeForce(stack, tiles'[active'], floating', rects')
    BY <1>2 DEF Commit, ArrangeForce
  <2>2. QED
    BY <1>a, <1>b, <2>1, ArrangingStep
<1>3. ASSUME NEW w \in Window, Die(w) PROVE Screen'
  <2>1. Alive' \subseteq Alive
    BY <1>a, <1>3 DEF Die, Alive, TypeOK
  <2>2. QED
    BY <1>3, <2>1, IdleStep DEF Die
<1>4. CASE Redraw
  <2>1. Alive' = Alive
    BY <1>4 DEF Redraw, Alive
  <2>2. CASE CleanupNothing
    BY <1>4, <2>1, <2>2, IdleStep DEF Redraw, CleanupNothing
  <2>3. CASE CleanupRemoved
    <3>1. ArrangeForce(stack, tiles'[active'], floating', rects')
      BY <1>4, <2>3 DEF Redraw, CleanupRemoved, ArrangeForce
    <3>2. QED
      BY <1>a, <1>b, <3>1, ArrangingStep
  <2>4. QED
    BY <1>4, <2>2, <2>3 DEF Redraw
<1>5. CASE Refresh
  BY <1>a, <1>5, RefreshStep
<1>6. ASSUME NEW rc \in RectCounts, HostResize(rc) PROVE Screen'
  <2>1. ArrangeForce(stack, tiles'[active'], floating', rects')
    BY <1>6 DEF HostResize, ArrangeForce
  <2>2. QED
    BY <1>a, <1>b, <2>1, ArrangingStep
<1>7. ASSUME NEW w \in Window \union {NoWindow}, PointerPress(w) PROVE Screen'
  BY <1>7, IdleStep DEF PointerPress, Alive
<1>8. ASSUME NEW idx \in Workspace, SwitchWorkspace(idx) PROVE Screen'
  <2> DEFINE st == Unmapped(stack, tiles[active])
  <2>1. st \in Seq(Window) /\ Distinct(st)
    BY <1>b, RetainElements, RetainOrder DEF Unmapped
  <2>2. ~Nested => st = <<>>
    BY <1>b, RetainNothing DEF Unmapped
  <2>3. ArrangeForce(st, tiles'[active'], floating', rects')
    BY <1>8 DEF SwitchWorkspace, ArrangeForce
  <2> HIDE DEF st
  <2>4. QED
    BY <1>a, <2>1, <2>2, <2>3, ArrangingStep
<1>9. ASSUME NEW idx \in Workspace, MoveFocused(idx) PROVE Screen'
  <2> DEFINE source == Removed(tiles[active], focused[active])
             target == Append(tiles[idx], focused[active])
  <2>1. /\ active' = active /\ idx # active /\ rects' = rects
        /\ tiles' = [tiles EXCEPT ![active] = source, ![idx] = target]
        /\ ArrangeForce(stack, source, floating', rects)
    BY <1>9 DEF MoveFocused, ArrangeForce
  <2> HIDE DEF source, target
  <2>2. tiles'[active'] = source
    BY <1>c, <2>1
  <2>3. ArrangeForce(stack, tiles'[active'], floating', rects')
    BY <2>1, <2>2
  <2>4. QED
    BY <1>a, <1>b, <2>3, ArrangingStep
<1>10. CASE Float
  <2>1. ArrangeForce(stack, tiles'[active'], floating', rects')
    BY <1>10 DEF Float, ArrangeForce
  <2>2. QED
    BY <1>a, <1>b, <2>1, ArrangingStep
<1>11. CASE Unfloat
  <2> DEFINE order == Append(Removed(tiles[active], focused[active]), focused[active])
  <2>1. /\ active' = active /\ rects' = rects
        /\ tiles' = [tiles EXCEPT ![active] = order]
        /\ ArrangeForce(stack, order, floating', rects)
    BY <1>11 DEF Unfloat, ArrangeForce
  <2> HIDE DEF order
  <2>2. ArrangeForce(stack, tiles'[active'], floating', rects')
    BY <1>c, <2>1
  <2>3. QED
    BY <1>a, <1>b, <2>2, ArrangingStep
<1>12. CASE Quit
  <2>1. stack' = <<>> /\ Alive' = {}
    BY <1>12 DEF Quit, Alive
  <2>2. QED
    BY <2>1 DEF Screen, Distinct, OnTop, VisibleWhenRoom
<1>13. CASE UNCHANGED vars
  BY <1>13, IdleStep DEF vars, Alive
<1>14. QED
  BY <1>1, <1>2, <1>3, <1>4, <1>5, <1>6, <1>7, <1>8, <1>9, <1>10, <1>11,
     <1>12, <1>13 DEF Next

\* What the screen shows agrees with the tiles in every reachable state.
LEMMA ScreenHolds == Spec => []Screen
<1>1. Init => Screen
  BY DEF Init, Screen, Distinct, OnTop, VisibleWhenRoom, Alive
<1>2. Screen /\ DesktopInv /\ [Next]_vars => Screen'
  BY ScreenStep DEF ScreenInv
<1>3. QED
  BY <1>1, <1>2, DesktopInvHolds, PTL DEF Spec

\* The space maps no window twice, and on the active workspace a float is below
\* no tiled window, whatever was mapped, moved, toggled or resized before.
THEOREM FloatsAlwaysOnTop == Spec => []FloatsOnTop
<1>1. Screen => FloatsOnTop
  BY DEF Screen, OnTop, FloatsOnTop
<1>2. QED
  BY <1>1, ScreenHolds, PTL

\* When the layout has a rectangle for every tiled window of the active
\* workspace, every live window of that workspace is mapped.
THEOREM ActiveWindowsVisible == Spec => []VisibleWhenRoom
BY ScreenHolds, PTL DEF Screen

-----------------------------------------------------------------------------
(* Switches, and where the keys go *)

\* Redoing the layout maps nothing but what was mapped and what it lays out.
LEMMA ArrangeForceMaps ==
    ASSUME NEW st \in Seq(Window), NEW ts \in Seq(Window), NEW fl, NEW rc,
           ArrangeForce(st, ts, fl, rc)
    PROVE  ToSet(stack') \subseteq ToSet(st) \union ToSet(ts)
BY ArrangedElements, HousedTiled DEF ArrangeForce

\* The arrival at a workspace with tiles finds something to focus.
LEMMA ArrivalFocuses ==
    ASSUME TypeOK, NEW idx \in Workspace, tiles[idx] # <<>>
    PROVE  ArrivalFocus(idx) # NoWindow
<1>1. tiles[idx] \in Seq(Window)
  BY DEF TypeOK
<1>2. Len(tiles[idx]) \in 1..Len(tiles[idx])
  BY <1>1
<1>3. LastOrNone(tiles[idx]) \in Window
  BY <1>1, <1>2 DEF LastOrNone, Last
<1>4. QED
  BY <1>3, WindowAssumption DEF ArrivalFocus

\* A switch unmaps what it leaves and focuses what it comes to.
LEMMA SwitchStep ==
    ASSUME DesktopInv, NEW idx \in Workspace, SwitchWorkspace(idx)
    PROVE  /\ ToSet(tiles[active]) \intersect ToSet(stack') = {}
           /\ keyboard' = focused'[active']
           /\ tiles'[active'] # <<>> => keyboard' # NoWindow
<1> DEFINE st == Unmapped(stack, tiles[active])
<1>1. /\ TypeOK /\ stack \in Seq(Window)
      /\ active \in Workspace /\ idx # active
      /\ tiles[active] \in Seq(Window) /\ tiles[idx] \in Seq(Window)
      /\ focused \in [Workspace -> Window \union {NoWindow}]
      /\ ArrangeForce(st, tiles[idx], floating, rects)
  BY DEF DesktopInv, TypeOK, SwitchWorkspace
<1>2. st \in Seq(Window) /\ ToSet(st) = ToSet(stack) \intersect (Window \ ToSet(tiles[active]))
  BY <1>1, RetainElements DEF Unmapped
<1> HIDE DEF st
<1>3. ToSet(stack') \subseteq ToSet(st) \union ToSet(tiles[idx])
  BY <1>1, <1>2, ArrangeForceMaps
<1>4. ToSet(tiles[active]) \intersect ToSet(tiles[idx]) = {}
  BY <1>1 DEF DesktopInv, TiledOnce
<1>5. keyboard' = focused'[active'] /\ keyboard' = ArrivalFocus(idx)
  BY <1>1 DEF SwitchWorkspace
<1>6. tiles'[active'] = tiles[idx]
  BY DEF SwitchWorkspace
<1>7. QED
  BY <1>1, <1>2, <1>3, <1>4, <1>5, <1>6, ArrivalFocuses

\* Every switch takes the old workspace off the screen and gives the keyboard to
\* the focus of the new one, which exists when it has tiles.
THEOREM SwitchesSettle == Spec => SwitchSettles
<1>1. DesktopInv /\ [Next]_vars =>
        [active' # active /\ running' =>
            /\ ToSet(tiles[active]) \intersect ToSet(stack') = {}
            /\ keyboard' = focused'[active']
            /\ tiles'[active'] # <<>> => keyboard' # NoWindow]_vars
  <2> SUFFICES ASSUME DesktopInv, [Next]_vars, active' # active, running'
               PROVE  /\ ToSet(tiles[active]) \intersect ToSet(stack') = {}
                      /\ keyboard' = focused'[active']
                      /\ tiles'[active'] # <<>> => keyboard' # NoWindow
    OBVIOUS
  <2>1. PICK idx \in Workspace : SwitchWorkspace(idx)
    BY DEF Next, vars, NewToplevel, Commit, Die, Redraw, Refresh, HostResize,
           PointerPress, MoveFocused, Float, Unfloat, Quit
  <2>2. QED
    BY <2>1, SwitchStep
<1>2. QED
  BY <1>1, DesktopInvHolds, PTL DEF Spec, SwitchSettles

\* The keyboard and the focus part only when a window opens or a dead focus is cleared.
LEMMA PartingStep ==
    ASSUME TypeOK, [Next]_vars,
           keyboard = focused[active], keyboard' # focused'[active']
    PROVE  life' # life \/ (focused[active] \notin Alive /\ tiles' = tiles)
<1>a. /\ active \in Workspace
      /\ life \in [Window -> {"absent", "alive", "dead"}]
      /\ focused \in [Workspace -> Window \union {NoWindow}]
  BY DEF TypeOK
<1>b. NoWindow \notin Alive
  BY WindowAssumption DEF Alive
<1>1. ASSUME NEW w \in Window, NewToplevel(w) PROVE life' # life
  BY <1>a, <1>1 DEF NewToplevel
<1>2. ASSUME NEW w \in Window, Die(w) PROVE life' # life
  BY <1>a, <1>2 DEF Die
<1>3. CASE Redraw /\ CleanupNothing
  BY <1>3, <1>a DEF Redraw, CleanupNothing, FocusAlive
<1>4. CASE Redraw /\ CleanupRemoved
  <2>1. CASE FocusAlive[active] = NoWindow
    BY <1>4, <2>1, <1>a, FocusAliveType DEF Redraw, CleanupRemoved
  <2>2. CASE FocusAlive[active] # NoWindow
    BY <1>4, <2>2, <1>a DEF Redraw, CleanupRemoved, FocusAlive
  <2>3. QED
    BY <2>1, <2>2
<1>5. ASSUME NEW w \in Window \union {NoWindow}, PointerPress(w) PROVE FALSE
  BY <1>a, <1>5 DEF PointerPress, FocusWindow
<1>6. ASSUME NEW idx \in Workspace, SwitchWorkspace(idx) PROVE FALSE
  BY <1>a, <1>6 DEF SwitchWorkspace
<1>7. ASSUME NEW idx \in Workspace, MoveFocused(idx) PROVE FALSE
  BY <1>a, <1>7 DEF MoveFocused
<1>8. CASE Quit
  BY <1>8, WorkspaceAssumption DEF Quit, Workspace
<1>9. CASE UNCHANGED <<focused, active, keyboard>>
  BY <1>9
<1>10. QED
  BY <1>1, <1>2, <1>3, <1>4, <1>5, <1>6, <1>7, <1>8, <1>9
     DEF Next, vars, Commit, Redraw, Refresh, HostResize, Float, Unfloat

\* Only a new window, or a cleanup that forgets a dead focus and removes nothing,
\* parts the keyboard from the focus of the active workspace.
THEOREM FocusKeptTogether == Spec => OnlyOpensPartKeyboard
<1>1. TypeOK /\ [Next]_vars =>
        [/\ keyboard = focused[active]
         /\ keyboard' # focused'[active']
         => \/ life' # life
            \/ focused[active] \notin Alive /\ tiles' = tiles]_vars
  BY PartingStep
<1>2. QED
  BY <1>1, TypeCorrect, PTL DEF Spec, OnlyOpensPartKeyboard

-----------------------------------------------------------------------------
(* Ghosts and cleanups *)

\* A window of a hidden workspace shows up only when it is moved out of the
\* active one.
LEMMA GhostStep ==
    ASSUME DesktopInv, [Next]_vars, NEW w \in Ghosts', w \notin Ghosts
    PROVE  w = focused[active] /\ active' = active /\ w \in ToSet(tiles[active])
<1>a. /\ TypeOK /\ active \in Workspace
      /\ stack \in Seq(Window) /\ tiles \in [Workspace -> Seq(Window)]
  BY DEF DesktopInv, TypeOK
<1>b. w \in ToSet(stack') /\ w \in Tracked' /\ w \notin ToSet(tiles'[active'])
  BY DEF Ghosts
<1>c. ~(w \in ToSet(stack) /\ w \in Tracked /\ w \notin ToSet(tiles[active]))
  BY DEF Ghosts
<1>1. ASSUME NEW x \in Window, NewToplevel(x) PROVE FALSE
  <2>1. tiles'[active] \in Seq(Window) /\ active' = active
    BY <1>1, <1>a, TypeOKStep DEF TypeOK, NewToplevel
  <2>2. ToSet(stack') \subseteq ToSet(stack) \union ToSet(tiles'[active])
    BY <1>1, <1>a, <2>1, ArrangeForceMaps DEF NewToplevel
  <2>3. /\ ToSet(tiles'[active]) = ToSet(tiles[active]) \union {x}
        /\ Tracked' \subseteq Tracked \union {x}
    <3>1. \A ws \in Workspace :
             ToSet(tiles'[ws]) = IF ws = active THEN ToSet(tiles[ws]) \union {x}
                                 ELSE ToSet(tiles[ws])
      BY <1>1, NewToplevelTiles
    <3>2. QED
      BY <3>1, <1>a DEF Tracked
  <2>4. QED
    BY <1>b, <1>c, <2>1, <2>2, <2>3
<1>2. CASE Redraw /\ CleanupRemoved
  <2>1. active' = active /\ TilesAlive[active] = tiles'[active]
    BY <1>2 DEF Redraw, CleanupRemoved
  <2>2. TilesAlive[active] \in Seq(Window)
    BY <1>a, TilesAliveType
  <2>3. ToSet(stack') \subseteq ToSet(stack) \union ToSet(tiles'[active])
    BY <1>2, <1>a, <2>1, <2>2, ArrangeForceMaps DEF CleanupRemoved
  <2>4. \A ws \in Workspace : ToSet(tiles'[ws]) = ToSet(tiles[ws]) \intersect Alive
    BY <1>2, CleanupTiles
  <2>5. PICK ws \in Workspace : w \in ToSet(tiles'[ws])
    BY <1>b DEF Tracked
  <2>6. w \in Alive /\ w \in Tracked
    BY <2>4, <2>5 DEF Tracked
  <2>7. QED
    BY <1>a, <1>b, <1>c, <2>1, <2>3, <2>4, <2>6
<1>3. ASSUME NEW idx \in Workspace, SwitchWorkspace(idx) PROVE FALSE
  <2> DEFINE st == Unmapped(stack, tiles[active])
  <2>1. /\ active' = idx /\ tiles' = tiles
        /\ ArrangeForce(st, tiles[idx], floating, rects)
    BY <1>3 DEF SwitchWorkspace
  <2>2. /\ st \in Seq(Window)
        /\ ToSet(st) = ToSet(stack) \intersect (Window \ ToSet(tiles[active]))
    BY <1>a, RetainElements DEF Unmapped
  <2> HIDE DEF st
  <2>3. ToSet(stack') \subseteq ToSet(st) \union ToSet(tiles[idx])
    BY <1>a, <2>1, <2>2, ArrangeForceMaps
  <2>4. Tracked' = Tracked
    BY <2>1 DEF Tracked
  <2>5. QED
    BY <1>b, <1>c, <2>1, <2>2, <2>3, <2>4
<1>4. ASSUME NEW idx \in Workspace, MoveFocused(idx)
      PROVE  w = focused[active] /\ active' = active /\ w \in ToSet(tiles[active])
  <2> DEFINE x == focused[active]
             source == Removed(tiles[active], x)
  <2>1. /\ idx # active /\ x \in ToSet(tiles[active])
        /\ ToSet(tiles'[active]) = ToSet(tiles[active]) \ {x}
        /\ ToSet(tiles'[idx]) = ToSet(tiles[idx]) \union {x}
        /\ \A ws \in Workspace \ {active, idx} : tiles'[ws] = tiles[ws]
    BY <1>4, MoveTiles
  <2>2. /\ active' = active
        /\ ArrangeForce(stack, source, floating \ {x}, rects)
    BY <1>4 DEF MoveFocused
  <2>3. source \in Seq(Window) /\ ToSet(source) = ToSet(tiles[active]) \ {x}
    BY <1>a, <2>1, RemovedElements DEF DesktopInv, TiledOnce
  <2>4. ToSet(stack') \subseteq ToSet(stack) \union ToSet(source)
    BY <1>a, <2>2, <2>3, ArrangeForceMaps
  <2> HIDE DEF x, source
  <2>5. SUFFICES ASSUME w # x PROVE FALSE
    BY <2>1, <2>2 DEF x
  <2>6. w \in ToSet(stack) /\ w \notin ToSet(tiles[active])
    BY <1>b, <2>1, <2>2, <2>3, <2>4, <2>5
  <2>7. PICK ws \in Workspace : w \in ToSet(tiles'[ws])
    BY <1>b DEF Tracked
  <2>8. w \in ToSet(tiles[ws])
    BY <2>1, <2>5, <2>7
  <2>9. QED
    BY <1>c, <2>6, <2>8 DEF Tracked
<1>5. CASE Unfloat
  <2> DEFINE x == focused[active]
             source == Removed(tiles[active], x)
             order == Append(source, x)
  <2>1. /\ active' = active /\ x \in ToSet(tiles[active])
        /\ ArrangeForce(stack, order, floating \ {x}, rects)
        /\ tiles' = [tiles EXCEPT ![active] = order]
    BY <1>5 DEF Unfloat
  <2>2. x \in Window /\ source \in Seq(Window)
    BY <1>a, <2>1, RemovedElements DEF ToSet
  <2>3. order \in Seq(Window) /\ tiles'[active] = order
    BY <1>a, <2>1, <2>2
  <2>4. ToSet(stack') \subseteq ToSet(stack) \union ToSet(tiles'[active])
    BY <1>a, <2>1, <2>3, ArrangeForceMaps
  <2>5. \A ws \in Workspace : ToSet(tiles'[ws]) = ToSet(tiles[ws])
    BY <1>5, UnfloatTiles
  <2>6. QED
    BY <1>a, <1>b, <1>c, <2>1, <2>4, <2>5 DEF Tracked
<1>6. CASE Quit
  BY <1>6, <1>b DEF Quit, ToSet
<1>7. CASE tiles' = tiles /\ active' = active /\ ToSet(stack') \subseteq ToSet(stack)
  BY <1>7, <1>b, <1>c DEF Tracked
<1>8. CASE /\ tiles' = tiles /\ active' = active
           /\ \E fl, rc : ArrangeForce(stack, tiles[active], fl, rc)
  <2>1. ToSet(stack') \subseteq ToSet(stack) \union ToSet(tiles[active])
    BY <1>a, <1>8, ArrangeForceMaps
  <2>2. QED
    BY <1>8, <1>b, <1>c, <2>1 DEF Tracked
<1>9. CASE Refresh
  <2>1. ToSet(stack') \subseteq ToSet(stack)
    BY <1>a, <1>9, RetainElements DEF Refresh
  <2>2. QED
    BY <1>9, <2>1, <1>7 DEF Refresh
<1>10. \/ \E x \in Window : NewToplevel(x)
       \/ Redraw /\ CleanupRemoved
       \/ \E idx \in Workspace : SwitchWorkspace(idx) \/ MoveFocused(idx)
       \/ Unfloat \/ Quit \/ Refresh
       \/ tiles' = tiles /\ active' = active /\ stack' = stack
       \/ /\ tiles' = tiles /\ active' = active
          /\ \E fl, rc : ArrangeForce(stack, tiles[active], fl, rc)
  BY DEF Next, vars, Commit, Die, Redraw, CleanupNothing, HostResize,
         PointerPress, Float
<1>11. QED
  BY <1>1, <1>2, <1>3, <1>4, <1>5, <1>6, <1>7, <1>8, <1>9, <1>10

\* No step but the move of a window out of the active workspace makes a hidden
\* workspace show a window it did not show before.
THEOREM GhostsOnlyByMoves == Spec => OnlyMovesLeaveGhosts
<1>1. DesktopInv /\ [Next]_vars =>
        [\A w \in Ghosts' \ Ghosts :
            w = focused[active] /\ active' = active /\ w \in ToSet(tiles[active])]_vars
  BY GhostStep
<1>2. QED
  BY <1>1, DesktopInvHolds, PTL DEF Spec, OnlyMovesLeaveGhosts

\* What Vec::retain keeps it keeps in order.
LEMMA RetainKeepsOrder ==
    ASSUME NEW T, NEW s \in Seq(T), NEW S,
           NEW i \in DOMAIN s, NEW j \in DOMAIN s,
           i < j, s[i] \in S, s[j] \in S
    PROVE  \E k, l \in DOMAIN Retain(s, S) :
              /\ k < l
              /\ Retain(s, S)[k] = s[i]
              /\ Retain(s, S)[l] = s[j]
<1>1. i \in Kept(s, S) /\ j \in Kept(s, S)
  BY DEF Kept
<1>2. Kept(s, S) \subseteq Int
  BY KeptFinite
<1>3. ASSUME NEW m \in Kept(s, S)
      PROVE  /\ Rank(s, S, m) \in DOMAIN Retain(s, S)
             /\ Retain(s, S)[Rank(s, S, m)] = s[m]
  <2> DEFINE k == Rank(s, S, m)
             n == Nth(s, S, k)
  <2>1. k \in 1..Cardinality(Kept(s, S))
    BY RankBounds
  <2>2. n \in Kept(s, S) /\ Rank(s, S, n) = k
    BY <2>1, NthExists
  <2>3. Retain(s, S)[k] = s[n]
    BY <2>1 DEF Retain
  <2>4. k \in DOMAIN Retain(s, S)
    BY <2>1 DEF Retain
  <2>5. Rank(s, S, m) \in Int /\ Rank(s, S, n) = Rank(s, S, m)
    BY <2>1, <2>2
  <2> HIDE DEF n
  <2>6. ~(n < m) /\ ~(m < n)
    BY <2>2, <2>5, RankMonotone
  <2>7. n = m
    BY <2>2, <2>6, <1>2
  <2>8. QED
    BY <2>3, <2>4, <2>7
<1>4. Rank(s, S, i) < Rank(s, S, j)
  BY <1>1, RankMonotone
<1>5. QED
  BY <1>1, <1>3, <1>4

\* No cleanup takes the focus from a live window or reorders the survivors, on
\* any workspace.
THEOREM SurvivorsKept == Spec => CleanupKeepsSurvivors
<1>1. TypeOK /\ [Next]_vars =>
        [\A ws \in Workspace :
            Redraw => /\ focused[ws] \in Alive => focused'[ws] = focused[ws]
                      /\ \A i, j \in DOMAIN tiles[ws] :
                            i < j /\ {tiles[ws][i], tiles[ws][j]} \subseteq Alive
                            => \E k, l \in DOMAIN tiles'[ws] :
                                  /\ k < l
                                  /\ tiles'[ws][k] = tiles[ws][i]
                                  /\ tiles'[ws][l] = tiles[ws][j]]_vars
  <2> SUFFICES ASSUME TypeOK, NEW ws \in Workspace, Redraw
               PROVE  /\ focused[ws] \in Alive => focused'[ws] = focused[ws]
                      /\ \A i, j \in DOMAIN tiles[ws] :
                            i < j /\ {tiles[ws][i], tiles[ws][j]} \subseteq Alive
                            => \E k, l \in DOMAIN tiles'[ws] :
                                  /\ k < l
                                  /\ tiles'[ws][k] = tiles[ws][i]
                                  /\ tiles'[ws][l] = tiles[ws][j]
    OBVIOUS
  <2>1. tiles[ws] \in Seq(Window) /\ NoWindow \notin Alive /\ active \in Workspace
    BY WindowAssumption DEF TypeOK, Alive
  <2>2. tiles'[ws] = Retain(tiles[ws], Alive)
    BY DEF Redraw, CleanupNothing, CleanupRemoved, TilesAlive
  <2>3. ASSUME focused[ws] \in Alive PROVE focused'[ws] = focused[ws]
    <3>1. FocusAlive[ws] = focused[ws] /\ FocusAlive[ws] # NoWindow
      BY <2>1, <2>3 DEF FocusAlive
    <3>2. CASE CleanupNothing
      BY <3>1, <3>2 DEF CleanupNothing
    <3>3. CASE CleanupRemoved /\ FocusAlive[active] = NoWindow
      BY <2>1, <3>1, <3>3, FocusAliveType DEF CleanupRemoved
    <3>4. CASE CleanupRemoved /\ FocusAlive[active] # NoWindow
      BY <3>1, <3>4 DEF CleanupRemoved
    <3>5. QED
      BY <3>2, <3>3, <3>4 DEF Redraw
  <2>4. ASSUME NEW i \in DOMAIN tiles[ws], NEW j \in DOMAIN tiles[ws],
               i < j, {tiles[ws][i], tiles[ws][j]} \subseteq Alive
        PROVE  \E k, l \in DOMAIN tiles'[ws] :
                  /\ k < l
                  /\ tiles'[ws][k] = tiles[ws][i]
                  /\ tiles'[ws][l] = tiles[ws][j]
    BY <2>1, <2>2, <2>4, RetainKeepsOrder
  <2>5. QED
    BY <2>3, <2>4
<1>2. QED
  BY <1>1, TypeCorrect, PTL DEF Spec, CleanupKeepsSurvivors

-----------------------------------------------------------------------------
(* What is typed to is on the screen *)

\* The layout returns a rectangle for every tiled window of the active workspace.
Roomy ==
    LET tiled == Retain(tiles[active], Window \ floating)
    IN  rects[Len(tiled)] = Len(tiled)

\* In nested mode redoing the layout takes nothing off the screen.
LEMMA ArrangeForceKeeps ==
    ASSUME Nested, NEW st \in Seq(Window), NEW ts \in Seq(Window), NEW fl, NEW rc,
           ArrangeForce(st, ts, fl, rc)
    PROVE  ToSet(st) \subseteq ToSet(stack')
BY ArrangedElements DEF ArrangeForce

\* A non-empty list ends in one of its windows.
LEMMA LastOrNoneMember ==
    ASSUME NEW ts \in Seq(Window)
    PROVE  LastOrNone(ts) \in ToSet(ts) \union {NoWindow}
<1>1. CASE ts # <<>>
  <2>1. Len(ts) \in DOMAIN ts
    BY <1>1
  <2>2. QED
    BY <1>1, <2>1 DEF LastOrNone, Last, ToSet
<1>2. QED
  BY <1>1 DEF LastOrNone

\* Only a switch to a foreign focus makes a window without a place on screen typed to.
LEMMA TypedUnseenStep ==
    ASSUME DesktopInv, VisibleWhenRoom', [Next]_vars,
           Nested, ~TypedUnseen, TypedUnseen', Roomy'
    PROVE  active' # active /\ focused[active'] \notin ToSet(tiles[active'])
<1>a. /\ TypeOK /\ TypeOK' /\ active \in Workspace
      /\ stack \in Seq(Window) /\ tiles \in [Workspace -> Seq(Window)]
      /\ tiles' \in [Workspace -> Seq(Window)] /\ active' \in Workspace
  BY TypeOKStep DEF DesktopInv, TypeOK
<1>b. /\ keyboard' \in Alive' /\ keyboard' \notin ToSet(stack')
      /\ keyboard \in Alive => keyboard \in ToSet(stack)
  BY DEF TypedUnseen
<1>c. keyboard' \notin ToSet(tiles'[active'])
  BY <1>b DEF VisibleWhenRoom, Roomy
<1>d. keyboard' \in Window /\ NoWindow \notin Window
  BY <1>b, WindowAssumption DEF Alive
<1>1. ASSUME NEW w \in Window, NewToplevel(w) PROVE FALSE
  <2>1. ToSet(stack) \subseteq ToSet(stack')
    BY <1>1, <1>a, ArrangeForceKeeps DEF NewToplevel
  <2>2. keyboard' = keyboard /\ active' = active
    BY <1>1 DEF NewToplevel
  <2>3. w \in ToSet(tiles'[active])
    BY <1>1, <1>a, NewToplevelTiles
  <2>4. Alive' \subseteq Alive \union {w}
    BY <1>1, <1>a DEF NewToplevel, Alive, TypeOK
  <2>5. QED
    BY <1>b, <1>c, <2>1, <2>2, <2>3, <2>4
<1>2. ASSUME NEW w \in Window, Die(w) PROVE FALSE
  <2>1. Alive' \subseteq Alive
    BY <1>a, <1>2 DEF Die, Alive, TypeOK
  <2>2. QED
    BY <1>2, <2>1, <1>b DEF Die
<1>3. CASE Redraw /\ CleanupRemoved
  <2>1. /\ active' = active /\ Alive' = Alive
        /\ tiles'[active] = TilesAlive[active] /\ TilesAlive[active] \in Seq(Window)
    BY <1>3, <1>a, TilesAliveType DEF Redraw, CleanupRemoved, Alive
  <2>2. ToSet(stack) \subseteq ToSet(stack')
    BY <1>3, <1>a, <2>1, ArrangeForceKeeps DEF CleanupRemoved
  <2>3. keyboard' = keyboard \/ keyboard' = LastOrNone(tiles'[active])
    BY <1>3, <2>1 DEF CleanupRemoved
  <2>4. QED
    BY <1>b, <1>c, <1>d, <2>1, <2>2, <2>3, LastOrNoneMember
<1>4. CASE Refresh
  <2>1. /\ keyboard' = keyboard /\ Alive' = Alive
        /\ ToSet(stack') = ToSet(stack) \intersect Alive
    BY <1>4, <1>a, RetainElements DEF Refresh, Alive
  <2>2. QED
    BY <1>b, <2>1
<1>5. ASSUME NEW w \in Window \union {NoWindow}, PointerPress(w) PROVE FALSE
  BY <1>5, <1>b, <1>d DEF PointerPress, FocusWindow
<1>6. ASSUME NEW idx \in Workspace, SwitchWorkspace(idx)
      PROVE  active' # active /\ focused[active'] \notin ToSet(tiles[active'])
  <2>1. /\ active' = idx /\ idx # active /\ tiles' = tiles
        /\ keyboard' = ArrivalFocus(idx)
    BY <1>6 DEF SwitchWorkspace
  <2>2. CASE focused[idx] # NoWindow
    BY <1>c, <2>1, <2>2 DEF ArrivalFocus
  <2>3. CASE focused[idx] = NoWindow
    BY <1>a, <1>c, <1>d, <2>1, <2>3, LastOrNoneMember DEF ArrivalFocus
  <2>4. QED
    BY <2>2, <2>3
<1>7. ASSUME NEW idx \in Workspace, MoveFocused(idx) PROVE FALSE
  BY <1>7, <1>d DEF MoveFocused
<1>8. CASE Quit
  BY <1>8, <1>d DEF Quit
<1>9. CASE Unfloat
  <2> DEFINE order == Append(Removed(tiles[active], focused[active]), focused[active])
  <2>1. /\ keyboard' = keyboard /\ Alive' = Alive /\ active' = active
        /\ tiles' = [tiles EXCEPT ![active] = order]
        /\ ArrangeForce(stack, order, floating \ {focused[active]}, rects)
    BY <1>9 DEF Unfloat, Alive
  <2> HIDE DEF order
  <2>2. order \in Seq(Window)
    <3>1. order = tiles'[active]
      BY <1>a, <2>1
    <3>2. QED
      BY <1>a, <3>1
  <2>3. ToSet(stack) \subseteq ToSet(stack')
    BY <1>a, <2>1, <2>2, ArrangeForceKeeps
  <2>4. QED
    BY <1>b, <2>1, <2>3
<1>10. CASE /\ UNCHANGED <<keyboard, life>>
            /\ \E fl, rc : ArrangeForce(stack, tiles[active], fl, rc)
  <2>1. ToSet(stack) \subseteq ToSet(stack')
    BY <1>a, <1>10, ArrangeForceKeeps
  <2>2. QED
    BY <1>10, <1>b, <2>1 DEF Alive
<1>11. CASE UNCHANGED <<keyboard, life, stack>>
  BY <1>11, <1>b DEF Alive
<1>12. \/ \E x \in Window : NewToplevel(x) \/ Die(x)
       \/ Redraw /\ CleanupRemoved
       \/ Refresh
       \/ \E w \in Window \union {NoWindow} : PointerPress(w)
       \/ \E idx \in Workspace : SwitchWorkspace(idx) \/ MoveFocused(idx)
       \/ Unfloat \/ Quit
       \/ UNCHANGED <<keyboard, life, stack>>
       \/ /\ UNCHANGED <<keyboard, life>>
          /\ \E fl, rc : ArrangeForce(stack, tiles[active], fl, rc)
  BY DEF Next, vars, Commit, Redraw, CleanupNothing, HostResize, Float
<1>13. QED
  BY <1>1, <1>2, <1>3, <1>4, <1>5, <1>6, <1>7, <1>8, <1>9, <1>10, <1>11, <1>12

\* With room for all, only the arrival at a workspace that remembers a window of
\* another one makes keys go to a live window that is not on screen.
THEOREM TypedIsSeen == Spec => OnlyForeignFocusTypesUnseen
<1>1. DesktopInv /\ VisibleWhenRoom' /\ [Next]_vars =>
        [/\ Nested
         /\ ~TypedUnseen /\ TypedUnseen'
         /\ LET tiled == Retain(tiles[active], Window \ floating)
            IN  (rects[Len(tiled)] = Len(tiled))'
         => active' # active /\ focused[active'] \notin ToSet(tiles[active'])]_vars
  BY TypedUnseenStep DEF Roomy
<1>2. QED
  BY <1>1, DesktopInvHolds, ActiveWindowsVisible, PTL
     DEF Spec, OnlyForeignFocusTypesUnseen
=============================================================================
